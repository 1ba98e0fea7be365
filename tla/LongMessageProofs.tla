------------------------- MODULE LongMessageProofs -------------------------
(***************************************************************************)
(* Proofs about LongMessage: its safety properties, for any number of      *)
(* submits, processes and faults, and whatever messages.                   *)
(*                                                                         *)
(* The inductive invariant LongInv has four layers.  Shape, of every       *)
(* message: the commands in the queues and the sessions agree, submit by   *)
(* submit.  RoundInv, of undisturbed messages: the parts counted since the *)
(* key was made are those stored, posted or being merged, no more than the *)
(* count.  VerdictInv: who has a verdict is not about to get another.      *)
(* ForgetInv, if no part was repeated either: the round has as many parts  *)
(* as the count, until the message has ended.                              *)
(*                                                                         *)
(* A step concerns the session of one submit (Turn): the queues then move  *)
(* by the command taken and those posted (QueueMoves), and Has, StageOK    *)
(* and the sets above change for that submit only.                         *)
(***************************************************************************)
EXTENDS LongMessage, SequenceTheorems, FiniteSetTheorems, TLAPS

Ops == {"HINCRBY", "HMSET", "EXPIRE", "HGETALL", "DEL"}
CmdType == [op : Ops, sms : Submits]
HashType ==
    [count : Nat, short : [1 .. Total -> Submits \cup {Nobody}], ttl : Submits \cup {Nobody}]
LogType == [merged : SUBSET SUBSET Submits, failed : [Submits -> Nat], crossed : BOOLEAN]

TypeInv ==
    /\ message \in Messages
    /\ node \in [Submits -> Nodes \cup {Nobody}]
    /\ at \in [Submits -> Waits]
    /\ cmdQ \in [Nodes -> Seq(CmdType)]
    /\ hash \in HashType
    /\ faults \in 0 .. MaxFaults
    /\ log \in LogType

\* The submits that were counted, or whose count failed.
CountedSet == {s \in Submits : at[s] \notin {"NEW", "REFUSED", "COUNT"}}
CountInv == hash.count <= Cardinality(CountedSet) + faults

\* The command op of s is posted and has not run.
Has(op, s) == \E n \in Nodes : \E i \in DOMAIN cmdQ[n] : cmdQ[n][i] = Cmd(op, s)

\* What a session that has counted its part may be.
Parted == {"WAIT", "LATE", "KEPT", "GONE"}

(* The commands of a submit are in the queue of its process, each once, in *)
(* the order its session posted them.                                      *)
QPlaced == \A n \in Nodes : \A i \in DOMAIN cmdQ[n] : node[cmdQ[n][i].sms] = n
QOnce ==
    \A n \in Nodes : \A i, j \in DOMAIN cmdQ[n] :
       cmdQ[n][i] = cmdQ[n][j] => i = j
QOrder ==
    \A n \in Nodes : \A i, j \in DOMAIN cmdQ[n] :
       cmdQ[n][i].op = "HGETALL" /\ cmdQ[n][j] = Cmd("EXPIRE", cmdQ[n][i].sms) => j < i
QueueInv == QPlaced /\ QOnce /\ QOrder

(* What the session of s waits for and what it has posted agree; what the  *)
(* hash has is not on its way to it.                                       *)
StageOK(s) ==
    /\ at[s] # "NEW" => node[s] \in Nodes
    /\ Has("HINCRBY", s) => at[s] = "COUNT"
    /\ Has("HMSET", s) => at[s] \in Parted /\ s \notin Stored(hash)
    /\ Has("EXPIRE", s) => at[s] \in {"WAIT", "LATE"}
    /\ Has("HGETALL", s) => at[s] \in {"READ", "LATE"}
    /\ Has("DEL", s) => at[s] \in {"KEPT", "GONE"}
    /\ at[s] = "READ" => Has("HGETALL", s)
    /\ s \in Stored(hash) => at[s] \in Parted
StageInv == \A s \in Submits : StageOK(s)

HashInv == \A k \in 1 .. Total : hash.short[k] # Nobody => message.pk[hash.short[k]] = k

Shape == TypeInv /\ CountInv /\ QueueInv /\ StageInv /\ HashInv

Posted == {s \in Submits : Has("HMSET", s)}
Reading == {s \in Submits : at[s] \in {"READ", "RETRY"}}
Timed == {s \in Submits : at[s] \in {"WAIT", "LATE"}}
Round == Stored(hash) \cup Posted \cup Reading

AtMostOne(S) == \A s, t \in S : s = t

(* A round: from the first part counted to the end of the key.             *)
RoundInv ==
    /\ hash.count <= Total
    /\ hash.count = 0 => Stored(hash) = {} /\ Posted = {}
    /\ hash.count > 0 => Cardinality(Round) <= hash.count
    /\ Pending("DEL") => Posted = {} /\ (hash.count > 0 => Reading = {})
    /\ Reading # {} => hash.count \in {0, Total}
    /\ AtMostOne(Reading) /\ AtMostOne(Timed)

(* Who has a verdict has it once, and nobody is about to give another.     *)
VerdictInv ==
    /\ \A s \in Submits : Ended(s) => s \notin Posted /\ at[s] \in Parted
    /\ (\E s \in Stored(hash) : Ended(s)) =>
          Reading = {} /\ (hash.count = Total \/ (Pending("DEL") /\ Timed = {}))
    /\ \A s \in Submits : log.failed[s] <= 1 /\ (log.failed[s] > 0 => s \notin UNION log.merged)
    /\ \A S, T \in log.merged : S \cap T # {} => S = T

(* No part repeated: the round has as many parts as were counted.          *)
ForgetInv ==
    /\ \A s \in Submits : at[s] # "REFUSED" => Ended(s) \/ InHand(s)
    /\ hash.count > 0 /\ ~Pending("DEL") =>
          Cardinality(Round) = hash.count \/ (hash.count = Total /\ Reading = {})
    /\ Reading # {} => hash.count = Total
    /\ Pending("DEL") => \A s \in Stored(hash) : Ended(s)
    /\ hash.count = Total /\ Reading = {} => Posted = {} /\ \A s \in Stored(hash) : Ended(s)
    /\ hash.ttl # Nobody => hash.ttl \in Timed \/ Pending("DEL") \/ hash.count = Total

LongInv ==
    /\ Shape /\ MergedWhole
    /\ ~Disturbed => RoundInv /\ VerdictInv /\ KeyExpiresSometime
    /\ ~Disturbed /\ ~Repeats => ForgetInv

-----------------------------------------------------------------------------
(* Queues.  d commands have left the front of the queue of n, those of r   *)
(* have come.                                                              *)
QueueMoves(n, d, r) ==
    /\ cmdQ' \in [Nodes -> Seq(CmdType)]
    /\ \A k \in Nodes : k # n => cmdQ'[k] = cmdQ[k]
    /\ \A i \in DOMAIN cmdQ'[n] :
          \/ i + d \in DOMAIN cmdQ[n] /\ cmdQ'[n][i] = cmdQ[n][i + d]
          \/ \E k \in DOMAIN r : i = Len(cmdQ[n]) - d + k /\ cmdQ'[n][i] = r[k]
    /\ \A j \in DOMAIN cmdQ[n] : j > d => j - d \in DOMAIN cmdQ'[n] /\ cmdQ'[n][j - d] = cmdQ[n][j]
    /\ \A k \in DOMAIN r : /\ Len(cmdQ[n]) - d + k \in DOMAIN cmdQ'[n]
                           /\ cmdQ'[n][Len(cmdQ[n]) - d + k] = r[k]

LEMMA MovesOf ==
    ASSUME TypeInv, NEW n \in Nodes, NEW d \in {0, 1}, NEW q \in Seq(CmdType), NEW r \in Seq(CmdType),
           Len(q) = Len(cmdQ[n]) - d, \A i \in 1 .. Len(q) : q[i] = cmdQ[n][i + d],
           cmdQ' = [cmdQ EXCEPT ![n] = q \o r]
    PROVE  QueueMoves(n, d, r)
<1>1. cmdQ \in [Nodes -> Seq(CmdType)] /\ cmdQ[n] \in Seq(CmdType)
  BY DEF TypeInv
<1> DEFINE p == q \o r
           L == Len(q)
           R == Len(r)
<1>2. p \in Seq(CmdType) /\ Len(p) = L + R
  BY ConcatProperties
<1>3. \A i \in 1 .. L + R : p[i] = IF i <= L THEN q[i] ELSE r[i - L]
  BY ConcatProperties
<1>4. L \in Nat /\ R \in Nat /\ Len(cmdQ[n]) \in Nat /\ Len(cmdQ[n]) = L + d /\ d \in Nat
  BY <1>1, LenProperties
<1>5. DOMAIN cmdQ[n] = 1 .. L + d /\ DOMAIN r = 1 .. R /\ DOMAIN p = 1 .. L + R
  BY <1>1, <1>2, <1>4, LenProperties
<1>6. cmdQ'[n] = p /\ \A k \in Nodes : k # n => cmdQ'[k] = cmdQ[k]
  BY <1>1
<1>7. cmdQ' \in [Nodes -> Seq(CmdType)]
  BY <1>1, <1>2
<1>8. \A i \in 1 .. L : q[i] = cmdQ[n][i + d]
  OBVIOUS
<1> HIDE DEF p, L, R
<1>9. \A i \in 1 .. L : p[i] = cmdQ[n][i + d] /\ i + d \in DOMAIN cmdQ[n]
  BY <1>3, <1>4, <1>5, <1>8
<1>10. \A k \in 1 .. R : p[L + k] = r[k] /\ L + k \in DOMAIN p
  BY <1>3, <1>4, <1>5
<1>11. ASSUME NEW i \in DOMAIN p
       PROVE  \/ i + d \in DOMAIN cmdQ[n] /\ p[i] = cmdQ[n][i + d]
              \/ \E k \in DOMAIN r : i = Len(cmdQ[n]) - d + k /\ p[i] = r[k]
  <2>1. CASE i \in 1 .. L
    BY <1>9, <2>1
  <2>2. CASE i \notin 1 .. L
    <3>1. i - L \in DOMAIN r /\ i = L + (i - L) /\ Len(cmdQ[n]) - d + (i - L) = L + (i - L)
      BY <1>4, <1>5, <1>11, <2>2
    <3>2. p[i] = r[i - L]
      BY <1>5, <1>10, <3>1
    <3>3. QED
      BY <3>1, <3>2
  <2>3. QED
    BY <2>1, <2>2
<1>12. ASSUME NEW j \in DOMAIN cmdQ[n], j > d
       PROVE  j - d \in DOMAIN p /\ p[j - d] = cmdQ[n][j]
  <2>1. j - d \in 1 .. L /\ j - d + d = j /\ j - d \in 1 .. L + R
    BY <1>4, <1>5, <1>12
  <2>2. QED
    BY <1>5, <1>9, <2>1
<1>13. ASSUME NEW k \in DOMAIN r
       PROVE  Len(cmdQ[n]) - d + k \in DOMAIN p /\ p[Len(cmdQ[n]) - d + k] = r[k]
  <2>1. Len(cmdQ[n]) - d + k = L + k
    BY <1>4, <1>5
  <2>2. QED
    BY <1>5, <1>10, <2>1
<1>14. QED
  BY <1>6, <1>7, <1>11, <1>12, <1>13 DEF QueueMoves

LEMMA PostMoves ==
    ASSUME TypeInv, NEW n \in Nodes, NEW r \in Seq(CmdType), Post(n, r)
    PROVE  QueueMoves(n, 0, r)
<1>1. cmdQ \in [Nodes -> Seq(CmdType)] /\ cmdQ[n] \in Seq(CmdType)
  BY DEF TypeInv
<1>2. cmdQ' = [cmdQ EXCEPT ![n] = cmdQ[n] \o r]
  BY DEF Post
<1>3. /\ Len(cmdQ[n]) = Len(cmdQ[n]) - 0 /\ 0 \in {0, 1}
      /\ \A i \in 1 .. Len(cmdQ[n]) : cmdQ[n][i] = cmdQ[n][i + 0]
  BY <1>1, LenProperties
<1>4. QED
  BY <1>1, <1>2, <1>3, MovesOf

LEMMA ThenMoves ==
    ASSUME TypeInv, NEW n \in Nodes, NEW r \in Seq(CmdType), cmdQ[n] # <<>>,
           Then(n, Tail(cmdQ[n]), r)
    PROVE  QueueMoves(n, 1, r)
<1>1. cmdQ \in [Nodes -> Seq(CmdType)] /\ cmdQ[n] \in Seq(CmdType)
  BY DEF TypeInv
<1>2. cmdQ' = [cmdQ EXCEPT ![n] = Tail(cmdQ[n]) \o r]
  BY DEF Then
<1>3. /\ Tail(cmdQ[n]) \in Seq(CmdType) /\ Len(Tail(cmdQ[n])) = Len(cmdQ[n]) - 1 /\ 1 \in {0, 1}
      /\ \A i \in 1 .. Len(Tail(cmdQ[n])) : Tail(cmdQ[n])[i] = cmdQ[n][i + 1]
  BY <1>1, HeadTailProperties
<1>4. QED
  BY <1>1, <1>2, <1>3, MovesOf

\* r has the command op of s.
Adds(r, op, s) == \E k \in DOMAIN r : r[k] = Cmd(op, s)

(* What is posted after a move.                                            *)
LEMMA HasNext ==
    ASSUME TypeInv, QueueInv, NEW n \in Nodes, NEW d \in {0, 1}, NEW r, QueueMoves(n, d, r),
           d = 1 => 1 \in DOMAIN cmdQ[n], NEW op, NEW s
    PROVE  Has(op, s)' <=> Adds(r, op, s) \/ (Has(op, s) /\ ~(d = 1 /\ cmdQ[n][1] = Cmd(op, s)))
<1>1. /\ \A k \in Nodes : DOMAIN cmdQ[k] = 1 .. Len(cmdQ[k]) /\ Len(cmdQ[k]) \in Nat
      /\ \A k \in Nodes : \A i \in DOMAIN cmdQ'[k] : i \in Nat \ {0}
  BY LenProperties DEF TypeInv, QueueMoves
<1>2. ASSUME Has(op, s)'
      PROVE  Has(op, s) \/ Adds(r, op, s)
  BY <1>2 DEF Has, Adds, QueueMoves
<1>3. ASSUME Adds(r, op, s)
      PROVE  Has(op, s)'
  BY <1>3 DEF Has, Adds, QueueMoves
<1>4. ASSUME Has(op, s), ~(d = 1 /\ cmdQ[n][1] = Cmd(op, s))
      PROVE  Has(op, s)'
  <2>0. PICK k \in Nodes : \E i \in DOMAIN cmdQ[k] : cmdQ[k][i] = Cmd(op, s)
    BY <1>4 DEF Has
  <2>1. PICK i \in DOMAIN cmdQ[k] : cmdQ[k][i] = Cmd(op, s)
    BY <2>0
  <2>2. CASE k # n
    BY <2>1, <2>2 DEF Has, QueueMoves
  <2>3. CASE k = n
    <3>1. i > d
      BY <1>1, <1>4, <2>1, <2>3
    <3>2. QED
      BY <2>1, <2>3, <3>1 DEF Has, QueueMoves
  <2>4. QED
    BY <2>2, <2>3
<1>5. ASSUME d = 1, cmdQ[n][1] = Cmd(op, s), ~Adds(r, op, s), Has(op, s)'
      PROVE  FALSE
  <2>0. PICK k \in Nodes : \E i \in DOMAIN cmdQ'[k] : cmdQ'[k][i] = Cmd(op, s)
    BY <1>5 DEF Has
  <2>1. PICK i \in DOMAIN cmdQ'[k] : cmdQ'[k][i] = Cmd(op, s)
    BY <2>0
  <2>2. Cmd(op, s).sms = s
    BY DEF Cmd
  <2>3. CASE k # n
    <3>1. i \in DOMAIN cmdQ[k] /\ cmdQ[k][i] = Cmd(op, s)
      BY <2>1, <2>3 DEF QueueMoves
    <3>2. node[s] = k /\ node[s] = n
      BY <1>5, <2>2, <3>1 DEF QueueInv, QPlaced
    <3>3. QED
      BY <2>3, <3>2
  <2>4. CASE k = n
    <3>1. i + 1 \in DOMAIN cmdQ[n] /\ cmdQ[n][i + 1] = Cmd(op, s)
      BY <1>5, <2>1, <2>4 DEF QueueMoves, Adds
    <3>2. i + 1 = 1
      BY <1>5, <3>1 DEF QueueInv, QOnce
    <3>3. QED
      BY <1>1, <2>1, <2>4, <3>2
  <2>5. QED
    BY <2>3, <2>4
<1>6. QED
  BY <1>2, <1>3, <1>4, <1>5

(* A step of the session of s in process n, or of one of its commands.     *)
Turn(n, d, r, s) ==
    /\ QueueMoves(n, d, r)
    /\ \A k \in DOMAIN r : r[k].sms = s
    /\ d = 1 => 1 \in DOMAIN cmdQ[n] /\ cmdQ[n][1].sms = s
    /\ \A t \in Submits \ {s} : at'[t] = at[t] /\ node'[t] = node[t]
    /\ node'[s] = n
    /\ node[s] = n \/ \A op \in Ops : ~Has(op, s)

LEMMA TurnOthers ==
    ASSUME TypeInv, QueueInv, NEW n \in Nodes, NEW d \in {0, 1}, NEW r, NEW s \in Submits, Turn(n, d, r, s),
           NEW t \in Submits \ {s}, NEW op
    PROVE  Has(op, t)' <=> Has(op, t)
<1>1. Cmd(op, t).sms = t
  BY DEF Cmd
<1>2. ~Adds(r, op, t) /\ ~(d = 1 /\ cmdQ[n][1] = Cmd(op, t))
  BY <1>1 DEF Turn, Adds
<1>3. Has(op, t)' <=> Adds(r, op, t) \/ (Has(op, t) /\ ~(d = 1 /\ cmdQ[n][1] = Cmd(op, t)))
  BY HasNext DEF Turn
<1>4. QED
  BY <1>2, <1>3

LEMMA TurnSelf ==
    ASSUME TypeInv, QueueInv, NEW n \in Nodes, NEW d \in {0, 1}, NEW r, NEW s \in Submits, Turn(n, d, r, s),
           NEW op
    PROVE  Has(op, s)' <=> Adds(r, op, s) \/ (Has(op, s) /\ ~(d = 1 /\ cmdQ[n][1] = Cmd(op, s)))
BY HasNext DEF Turn

(* The queues stay in order if what is posted is new.                      *)
LEMMA TurnQueue ==
    ASSUME TypeInv, QueueInv, NEW n \in Nodes, NEW d \in {0, 1}, NEW r \in Seq(CmdType), NEW s \in Submits,
           Turn(n, d, r, s),
           \A k, l \in DOMAIN r : r[k] = r[l] => k = l,
           \A op \in Ops : Adds(r, op, s) => ~Has(op, s),
           Adds(r, "EXPIRE", s) => ~Has("HGETALL", s) /\ ~Adds(r, "HGETALL", s)
    PROVE  QueueInv'
<1>1. /\ \A k \in Nodes : DOMAIN cmdQ[k] = 1 .. Len(cmdQ[k]) /\ Len(cmdQ[k]) \in Nat
      /\ DOMAIN r = 1 .. Len(r) /\ Len(r) \in Nat
      /\ \A k \in Nodes : \A i \in DOMAIN cmdQ[k] : cmdQ[k][i] \in CmdType
      /\ \A k \in DOMAIN r : r[k] \in CmdType
  BY LenProperties, ElementOfSeq DEF TypeInv
<1>a. \A c \in CmdType : c.op \in Ops /\ c.sms \in Submits /\ c = Cmd(c.op, c.sms)
  BY DEF CmdType, Cmd
<1>b. QueueMoves(n, d, r) /\ \A k \in DOMAIN r : r[k].sms = s
  BY DEF Turn
<1>c. \A k \in Nodes : \A i \in DOMAIN cmdQ[k] : cmdQ[k][i].sms = s => k = n
  <2> SUFFICES ASSUME NEW k \in Nodes, NEW i \in DOMAIN cmdQ[k], cmdQ[k][i].sms = s
               PROVE  k = n
    OBVIOUS
  <2>1. node[s] = k
    BY DEF QueueInv, QPlaced
  <2>2. Has(cmdQ[k][i].op, s) /\ cmdQ[k][i].op \in Ops
    BY <1>1, <1>a DEF Has
  <2>3. QED
    BY <2>1, <2>2 DEF Turn
<1>2. QPlaced'
  <2> SUFFICES ASSUME NEW k \in Nodes, NEW i \in DOMAIN cmdQ'[k]
               PROVE  node'[cmdQ'[k][i].sms] = k
    BY DEF QPlaced
  <2>1. ASSUME NEW j \in DOMAIN cmdQ[k], cmdQ'[k][i] = cmdQ[k][j]
        PROVE  node'[cmdQ'[k][i].sms] = k
    <3>1. cmdQ[k][j].sms \in Submits /\ node[cmdQ[k][j].sms] = k
      BY <1>1, <1>a DEF QueueInv, QPlaced
    <3>2. CASE cmdQ[k][j].sms = s
      BY <1>c, <2>1, <3>2 DEF Turn
    <3>3. CASE cmdQ[k][j].sms # s
      BY <2>1, <3>1, <3>3 DEF Turn
    <3>4. QED
      BY <3>2, <3>3
  <2>2. CASE k # n
    BY <1>b, <2>1, <2>2 DEF QueueMoves
  <2>3. ASSUME k = n, NEW l \in DOMAIN r, cmdQ'[n][i] = r[l]
        PROVE  node'[cmdQ'[k][i].sms] = k
    BY <1>b, <2>3 DEF Turn
  <2>4. QED
    BY <1>b, <2>1, <2>2, <2>3 DEF QueueMoves
<1>3. QOnce'
  <2> SUFFICES ASSUME NEW k \in Nodes, NEW i \in DOMAIN cmdQ'[k], NEW j \in DOMAIN cmdQ'[k],
                      cmdQ'[k][i] = cmdQ'[k][j]
               PROVE  i = j
    BY DEF QOnce
  <2>1. CASE k # n
    BY <1>b, <2>1 DEF QueueMoves, QueueInv, QOnce
  <2>2. CASE k = n
    <3>1. i \in Nat /\ j \in Nat
      BY <1>b, LenProperties DEF QueueMoves
    <3>2. ASSUME NEW x \in DOMAIN cmdQ[n], NEW l \in DOMAIN r, cmdQ[n][x] = r[l]
          PROVE  FALSE
      <4>1. r[l] = Cmd(r[l].op, s) /\ r[l].op \in Ops
        BY <1>1, <1>a, <1>b
      <4>2. Adds(r, r[l].op, s) /\ Has(r[l].op, s)
        BY <3>2, <4>1 DEF Adds, Has
      <4>3. QED
        BY <4>1, <4>2
    <3>3. CASE i + d \in DOMAIN cmdQ[n] /\ cmdQ'[n][i] = cmdQ[n][i + d]
      <4>1. j + d \in DOMAIN cmdQ[n] /\ cmdQ'[n][j] = cmdQ[n][j + d]
        BY <1>b, <2>2, <3>2, <3>3 DEF QueueMoves
      <4>2. i + d = j + d
        BY <2>2, <3>3, <4>1 DEF QueueInv, QOnce
      <4>3. QED
        BY <3>1, <4>2
    <3>4. CASE \E l \in DOMAIN r : i = Len(cmdQ[n]) - d + l /\ cmdQ'[n][i] = r[l]
      <4>1. PICK l \in DOMAIN r : i = Len(cmdQ[n]) - d + l /\ cmdQ'[n][i] = r[l]
        BY <3>4
      <4>0. cmdQ'[n][j] = r[l]
        BY <2>2, <4>1
      <4>a. ~(j + d \in DOMAIN cmdQ[n] /\ cmdQ'[n][j] = cmdQ[n][j + d])
        BY <3>2, <4>0
      <4>2. PICK m \in DOMAIN r : j = Len(cmdQ[n]) - d + m /\ cmdQ'[n][j] = r[m]
        BY <1>b, <2>2, <4>a DEF QueueMoves
      <4>3. l = m
        BY <2>2, <4>1, <4>2
      <4>4. QED
        BY <4>1, <4>2, <4>3
    <3>5. QED
      BY <1>b, <2>2, <3>3, <3>4 DEF QueueMoves
  <2>3. QED
    BY <2>1, <2>2
<1>4. QOrder'
  <2> SUFFICES ASSUME NEW k \in Nodes, NEW i \in DOMAIN cmdQ'[k], NEW j \in DOMAIN cmdQ'[k],
                      cmdQ'[k][i].op = "HGETALL", cmdQ'[k][j] = Cmd("EXPIRE", cmdQ'[k][i].sms)
               PROVE  j < i
    BY DEF QOrder
  <2>1. CASE k # n
    BY <1>b, <2>1 DEF QueueMoves, QueueInv, QOrder
  <2>2. CASE k = n
    <3>1. /\ i \in Nat /\ j \in Nat /\ Len(cmdQ[n]) \in Nat
          /\ \A x \in DOMAIN cmdQ[n] : x \in 1 .. Len(cmdQ[n])
          /\ \A l \in DOMAIN r : l \in Nat /\ l > 0
      BY <1>1, <1>b, LenProperties DEF QueueMoves
    <3>2. CASE i + d \in DOMAIN cmdQ[n] /\ cmdQ'[n][i] = cmdQ[n][i + d]
      <4>1. CASE j + d \in DOMAIN cmdQ[n] /\ cmdQ'[n][j] = cmdQ[n][j + d]
        <5>1. j + d < i + d
          BY <2>2, <3>2, <4>1 DEF QueueInv, QOrder
        <5>2. QED
          BY <3>1, <5>1
      <4>2. ASSUME NEW m \in DOMAIN r, cmdQ'[n][j] = r[m]
            PROVE  FALSE
        <5>1. cmdQ[n][i + d].sms = s
          BY <1>b, <2>2, <3>2, <4>2 DEF Cmd
        <5>2. Adds(r, "EXPIRE", s)
          BY <2>2, <3>2, <4>2, <5>1 DEF Adds
        <5>3. cmdQ[n][i + d] = Cmd("HGETALL", s)
          BY <1>1, <1>a, <2>2, <3>2, <5>1
        <5>4. Has("HGETALL", s)
          BY <3>2, <5>3 DEF Has
        <5>5. QED
          BY <5>2, <5>4
      <4>3. QED
        BY <1>b, <2>2, <4>1, <4>2 DEF QueueMoves
    <3>3. ASSUME NEW l \in DOMAIN r, i = Len(cmdQ[n]) - d + l, cmdQ'[n][i] = r[l]
          PROVE  j < i
      <4>1. Adds(r, "HGETALL", s)
        <5>1. r[l] = Cmd("HGETALL", s)
          BY <1>1, <1>a, <1>b, <2>2, <3>3
        <5>2. QED
          BY <5>1 DEF Adds
      <4>2. r[l].sms = s
        BY <1>b
      <4>3. ASSUME NEW m \in DOMAIN r, cmdQ'[n][j] = r[m]
            PROVE  FALSE
        <5>1. r[m] = Cmd("EXPIRE", s)
          BY <2>2, <3>3, <4>2, <4>3
        <5>2. QED
          BY <4>1, <5>1 DEF Adds
      <4>4. j + d \in DOMAIN cmdQ[n]
        BY <1>b, <2>2, <4>3 DEF QueueMoves
      <4>5. j + d <= Len(cmdQ[n]) /\ l \in Nat /\ l > 0
        BY <3>1, <4>4
      <4>6. CASE d = 0
        BY <3>1, <3>3, <4>5, <4>6
      <4>7. CASE d = 1
        BY <3>1, <3>3, <4>5, <4>7
      <4>8. QED
        BY <4>6, <4>7
    <3>4. QED
      BY <1>b, <2>2, <3>2, <3>3 DEF QueueMoves
  <2>3. QED
    BY <2>1, <2>2
<1>5. QED
  BY <1>2, <1>3, <1>4 DEF QueueInv

-----------------------------------------------------------------------------
(* What the steps have in common.                                          *)

LEMMA NoCmds ==
    /\ <<>> \in Seq(CmdType)
    /\ DOMAIN <<>> = {}
    /\ \A op, s : ~Adds(<<>>, op, s)
<1>1. <<>> \in Seq(CmdType) /\ DOMAIN <<>> = {}
  OBVIOUS
<1>2. QED
  BY <1>1 DEF Adds

LEMMA ConcatTwo ==
    ASSUME NEW S, NEW a \in S, NEW b \in S
    PROVE  <<a>> \o <<b>> = <<a, b>>
<1>1. <<a>> \in Seq(S) /\ <<b>> \in Seq(S) /\ <<a, b>> \in Seq(S)
  OBVIOUS
<1>2. Len(<<a>>) = 1 /\ Len(<<b>>) = 1 /\ Len(<<a, b>>) = 2
  OBVIOUS
<1>3. <<a>>[1] = a /\ <<b>>[1] = b /\ <<a, b>>[1] = a /\ <<a, b>>[2] = b
  OBVIOUS
<1> DEFINE p == <<a>>
           q == <<b>>
           t == <<a, b>>
<1>4. /\ p \in Seq(S) /\ q \in Seq(S) /\ t \in Seq(S) /\ Len(p) = 1 /\ Len(q) = 1 /\ Len(t) = 2
      /\ p[1] = a /\ q[1] = b /\ t[1] = a /\ t[2] = b
  BY <1>1, <1>2, <1>3
<1> HIDE DEF p, q, t
<1>5. /\ p \o q \in Seq(S) /\ Len(p \o q) = Len(p) + Len(q)
      /\ \A i \in 1 .. Len(p) + Len(q) : (p \o q)[i] = IF i <= Len(p) THEN p[i] ELSE q[i - Len(p)]
  BY <1>4, ConcatProperties
<1> DEFINE u == p \o q
<1>6. /\ u \in Seq(S) /\ Len(u) = 2
      /\ \A i \in 1 .. 2 : u[i] = IF i <= 1 THEN p[i] ELSE q[i - 1]
  BY <1>4, <1>5
<1> HIDE DEF u
<1>7. u[1] = a /\ u[2] = b
  <2>1. 1 \in 1 .. 2 /\ 2 \in 1 .. 2 /\ 2 - 1 = 1 /\ 1 <= 1 /\ ~(2 <= 1)
    OBVIOUS
  <2>2. QED
    BY <1>4, <1>6, <2>1
<1>8. \A i \in 1 .. Len(u) : u[i] = t[i]
  BY <1>4, <1>6, <1>7
<1>9. u = t
  BY <1>4, <1>6, <1>8, SeqEqual
<1>10. QED
  BY <1>9 DEF u, p, q, t

LEMMA OneCmd ==
    ASSUME NEW o \in Ops, NEW s \in Submits
    PROVE  /\ <<Cmd(o, s)>> \in Seq(CmdType)
           /\ DOMAIN <<Cmd(o, s)>> = {1}
           /\ <<Cmd(o, s)>>[1].sms = s
           /\ \A op : Adds(<<Cmd(o, s)>>, op, s) <=> op = o
<1>1. Cmd(o, s) \in CmdType
  BY DEF Cmd, CmdType
<1> DEFINE r == <<Cmd(o, s)>>
<1>2. r \in Seq(CmdType) /\ DOMAIN r = {1} /\ r[1] = Cmd(o, s)
  BY <1>1
<1>3. \A op : Cmd(o, s) = Cmd(op, s) <=> op = o
  BY DEF Cmd
<1>4. Cmd(o, s).sms = s
  BY DEF Cmd
<1> HIDE DEF r
<1>5. \A op : Adds(r, op, s) <=> op = o
  BY <1>2, <1>3 DEF Adds
<1>6. QED
  BY <1>2, <1>4, <1>5 DEF r

LEMMA TwoCmds ==
    ASSUME NEW o \in Ops, NEW p \in Ops, NEW s \in Submits, o # p
    PROVE  /\ <<Cmd(o, s), Cmd(p, s)>> \in Seq(CmdType)
           /\ DOMAIN <<Cmd(o, s), Cmd(p, s)>> = {1, 2}
           /\ \A k \in {1, 2} : <<Cmd(o, s), Cmd(p, s)>>[k].sms = s
           /\ \A k, l \in {1, 2} : <<Cmd(o, s), Cmd(p, s)>>[k] = <<Cmd(o, s), Cmd(p, s)>>[l] => k = l
           /\ \A op : Adds(<<Cmd(o, s), Cmd(p, s)>>, op, s) <=> op \in {o, p}
<1>1. Cmd(o, s) \in CmdType /\ Cmd(p, s) \in CmdType
  BY DEF Cmd, CmdType
<1> DEFINE r == <<Cmd(o, s), Cmd(p, s)>>
<1>2. r \in Seq(CmdType) /\ DOMAIN r = {1, 2} /\ r[1] = Cmd(o, s) /\ r[2] = Cmd(p, s)
  BY <1>1
<1>3. \A op, q : Cmd(q, s) = Cmd(op, s) <=> op = q
  BY DEF Cmd
<1>4. Cmd(o, s).sms = s /\ Cmd(p, s).sms = s
  BY DEF Cmd
<1> HIDE DEF r
<1>5. \A op : Adds(r, op, s) <=> op \in {o, p}
  BY <1>2, <1>3 DEF Adds
<1>6. \A k, l \in {1, 2} : r[k] = r[l] => k = l
  BY <1>2, <1>3
<1>7. QED
  BY <1>2, <1>4, <1>5, <1>6 DEF r

\* The command at the head of a queue.
LEMMA HeadCmd ==
    ASSUME TypeInv, QueueInv, NEW n \in Nodes, cmdQ[n] # <<>>
    PROVE  LET c == Head(cmdQ[n]) IN
           /\ c \in CmdType /\ c.op \in Ops /\ c.sms \in Submits /\ c = Cmd(c.op, c.sms)
           /\ 1 \in DOMAIN cmdQ[n] /\ cmdQ[n][1] = c
           /\ Has(c.op, c.sms) /\ node[c.sms] = n
<1>1. cmdQ[n] \in Seq(CmdType)
  BY DEF TypeInv
<1> DEFINE c == Head(cmdQ[n])
<1>2. c = cmdQ[n][1] /\ 1 \in DOMAIN cmdQ[n] /\ c \in CmdType
  BY <1>1, HeadTailProperties, LenProperties
<1> HIDE DEF c
<1>3. c.op \in Ops /\ c.sms \in Submits /\ c = Cmd(c.op, c.sms)
  BY <1>2 DEF CmdType, Cmd
<1>4. Has(c.op, c.sms)
  BY <1>2, <1>3 DEF Has
<1>5. node[c.sms] = n
  BY <1>2 DEF QueueInv, QPlaced
<1>6. QED
  BY <1>2, <1>3, <1>4, <1>5 DEF c

(* Stored contents.                                                        *)
LEMMA Totals ==
    ASSUME TypeInv
    PROVE  Total \in Nat \ {0, 1} /\ message.pk \in [Submits -> 1 .. Total]
BY LongAssumption DEF TypeInv, Total

LEMMA StoredIn ==
    ASSUME TypeInv
    PROVE  /\ Stored(hash) \subseteq Submits
           /\ IsFiniteSet(Stored(hash)) /\ Cardinality(Stored(hash)) \in Nat
           /\ \A s : s \in Stored(hash) <=> s # Nobody /\ \E k \in 1 .. Total : hash.short[k] = s
<1>1. hash.short \in [1 .. Total -> Submits \cup {Nobody}]
  BY DEF TypeInv, HashType
<1>2. Stored(hash) \subseteq Submits
  BY <1>1 DEF Stored
<1>3. IsFiniteSet(Submits)
  BY LongAssumption
<1>4. IsFiniteSet(Stored(hash)) /\ Cardinality(Stored(hash)) \in Nat
  BY <1>2, <1>3, FS_Subset, FS_CardinalityType
<1>5. QED
  BY <1>2, <1>4 DEF Stored

LEMMA NoneStored ==
    ASSUME TypeInv
    PROVE  NoHash \in HashType /\ Stored(NoHash) = {} /\ Fields(NoHash) = 0
<1>1. Total \in Nat \ {0, 1}
  BY Totals
<1>2. Stored(NoHash) = {}
  BY DEF Stored, NoHash
<1>3. NoHash \in HashType
  BY DEF NoHash, HashType
<1>4. NoHash.count = 0
  BY DEF NoHash
<1>5. Fields(NoHash) = 0
  BY <1>2, <1>4, FS_EmptySet DEF Fields
<1>6. QED
  BY <1>2, <1>3, <1>5

LEMMA FieldsAre ==
    ASSUME TypeInv
    PROVE  Fields(hash) = Cardinality(Stored(hash)) + (IF hash.count > 0 THEN 1 ELSE 0)
BY DEF Fields

(* A command of HINCRBY changes the count.                                 *)
LEMMA CountedIs ==
    ASSUME TypeInv
    PROVE  /\ Counted(hash) \in HashType
           /\ Counted(hash).count = hash.count + 1
           /\ Counted(hash).short = hash.short /\ Counted(hash).ttl = hash.ttl
           /\ Counted(Counted(hash)) \in HashType
           /\ Counted(Counted(hash)).count = hash.count + 2
           /\ Counted(Counted(hash)).short = hash.short /\ Counted(Counted(hash)).ttl = hash.ttl
<1>1. ASSUME NEW h \in HashType
      PROVE  /\ Counted(h) \in HashType /\ Counted(h).count = h.count + 1
             /\ Counted(h).short = h.short /\ Counted(h).ttl = h.ttl
  BY DEF HashType, Counted
<1>2. hash \in HashType /\ hash.count \in Nat
  BY DEF TypeInv, HashType
<1>3. hash.count + 1 + 1 = hash.count + 2
  BY <1>2
<1>4. Counted(hash) \in HashType
  BY <1>1, <1>2
<1>5. /\ Counted(Counted(hash)) \in HashType
      /\ Counted(Counted(hash)).count = Counted(hash).count + 1
      /\ Counted(Counted(hash)).short = Counted(hash).short
      /\ Counted(Counted(hash)).ttl = Counted(hash).ttl
  BY <1>1, <1>4
<1>6. /\ Counted(hash).count = hash.count + 1
      /\ Counted(hash).short = hash.short /\ Counted(hash).ttl = hash.ttl
  BY <1>1, <1>2
<1>7. QED
  BY <1>3, <1>4, <1>5, <1>6

(* What TypeInv says of the next state.                                    *)
LEMMA TypeNext ==
    ASSUME TypeInv, message' = message, node' \in [Submits -> Nodes \cup {Nobody}],
           at' \in [Submits -> Waits], cmdQ' \in [Nodes -> Seq(CmdType)], hash' \in HashType,
           faults' \in 0 .. MaxFaults, log' \in LogType
    PROVE  TypeInv'
BY DEF TypeInv, HashType, Total

LEMMA TotalSame ==
    ASSUME message' = message
    PROVE  Total' = Total
BY DEF Total

(* The submits counted grow, and by more than one only if redis failed.    *)
LEMMA CountNext ==
    ASSUME TypeInv, TypeInv', CountInv, CountedSet \subseteq CountedSet',
           hash'.count <= hash.count + (faults' - faults)
    PROVE  CountInv'
<1>1. IsFiniteSet(CountedSet') /\ CountedSet' \subseteq Submits
  BY LongAssumption, FS_Subset DEF CountedSet
<1>2. /\ Cardinality(CountedSet) \in Nat /\ Cardinality(CountedSet') \in Nat
      /\ Cardinality(CountedSet) <= Cardinality(CountedSet')
  BY <1>1, FS_Subset, FS_CardinalityType
<1> HIDE DEF CountedSet
<1>3. hash.count \in Nat /\ hash'.count \in Nat /\ faults \in Int /\ faults' \in Int
  BY LongAssumption DEF TypeInv, HashType
<1> DEFINE x == Cardinality(CountedSet)
           y == Cardinality(CountedSet')
<1>4. hash.count <= x + faults /\ x <= y /\ x \in Nat /\ y \in Nat
  BY <1>2 DEF CountInv
<1> HIDE DEF x, y
<1>5. hash'.count <= y + faults'
  BY <1>3, <1>4
<1>6. QED
  BY <1>5 DEF CountInv, y

LEMMA CountNextAdd ==
    ASSUME TypeInv, TypeInv', CountInv, NEW s \in Submits, s \notin CountedSet,
           CountedSet' = CountedSet \cup {s}, hash'.count <= hash.count + 1 + (faults' - faults)
    PROVE  CountInv'
<1>1. IsFiniteSet(CountedSet)
  BY LongAssumption, FS_Subset DEF CountedSet
<1> HIDE DEF CountedSet
<1>2. Cardinality(CountedSet') = Cardinality(CountedSet) + 1 /\ Cardinality(CountedSet) \in Nat
  BY <1>1, FS_AddElement, FS_CardinalityType
<1>3. hash.count \in Nat /\ hash'.count \in Nat /\ faults \in Int /\ faults' \in Int
  BY LongAssumption DEF TypeInv, HashType
<1> DEFINE x == Cardinality(CountedSet)
           y == Cardinality(CountedSet')
<1>4. hash.count <= x + faults /\ x + 1 = y /\ x \in Nat /\ y \in Nat
  BY <1>2 DEF CountInv
<1> HIDE DEF x, y
<1>5. hash'.count <= y + faults'
  BY <1>3, <1>4
<1>6. QED
  BY <1>5 DEF CountInv, y

Uncounted == {"NEW", "REFUSED", "COUNT"}

(* A turn of s keeps the shape if it keeps its own part of it.             *)
LEMMA TurnShape ==
    ASSUME Shape, NEW n \in Nodes, NEW d \in {0, 1}, NEW r \in Seq(CmdType), NEW s \in Submits,
           Turn(n, d, r, s),
           \A k, l \in DOMAIN r : r[k] = r[l] => k = l,
           \A op \in Ops : Adds(r, op, s) => ~Has(op, s),
           Adds(r, "EXPIRE", s) => ~Has("HGETALL", s) /\ ~Adds(r, "HGETALL", s),
           message' = message, node' \in [Submits -> Nodes \cup {Nobody}],
           at' \in [Submits -> Waits], hash' \in HashType, faults' \in 0 .. MaxFaults, log' \in LogType,
           \/ /\ at'[s] \in Uncounted => at[s] \in Uncounted
              /\ hash'.count <= hash.count + (faults' - faults)
           \/ /\ at[s] = "COUNT" /\ at'[s] \notin Uncounted
              /\ hash'.count <= hash.count + 1 + (faults' - faults),
           HashInv', \A t \in Submits \ {s} : t \in Stored(hash)' => t \in Stored(hash),
           StageOK(s)'
    PROVE  Shape'
<1> USE DEF Shape
<1>1. TypeInv'
  BY TypeNext DEF Turn, QueueMoves
<1>2. QueueInv'
  BY TurnQueue
<1>3. \A t \in Submits \ {s} : at'[t] = at[t] /\ node'[t] = node[t]
  BY DEF Turn
<1>4. CountInv'
  <2>1. CASE /\ at'[s] \in Uncounted => at[s] \in Uncounted
             /\ hash'.count <= hash.count + (faults' - faults)
    <3>1. CountedSet \subseteq CountedSet'
      BY <1>3, <2>1 DEF CountedSet, Uncounted
    <3>2. QED
      BY <1>1, <2>1, <3>1, CountNext
  <2>2. CASE /\ at[s] = "COUNT" /\ at'[s] \notin Uncounted
             /\ hash'.count <= hash.count + 1 + (faults' - faults)
    <3>1. CountedSet' = CountedSet \cup {s} /\ s \notin CountedSet
      BY <1>3, <2>2 DEF CountedSet, Uncounted
    <3>2. QED
      BY <1>1, <2>2, <3>1, CountNextAdd
  <2>3. QED
    BY <2>1, <2>2
<1>5. StageInv'
  <2> SUFFICES ASSUME NEW t \in Submits
               PROVE  StageOK(t)'
    BY DEF StageInv
  <2>1. CASE t = s
    BY <2>1
  <2>2. CASE t # s
    <3>1. \A op : Has(op, t)' <=> Has(op, t)
      BY <2>2, TurnOthers
    <3>2. StageOK(t) /\ at'[t] = at[t] /\ node'[t] = node[t] /\ (t \in Stored(hash)' => t \in Stored(hash))
      BY <1>3, <2>2 DEF StageInv
    <3>3. QED
      BY <3>1, <3>2 DEF StageOK
  <2>3. QED
    BY <2>1, <2>2
<1>6. QED
  BY <1>1, <1>2, <1>4, <1>5

\* Nothing is posted and no command has run.
LEMMA KeepMoves ==
    ASSUME TypeInv, NEW n \in Nodes, cmdQ' = cmdQ
    PROVE  QueueMoves(n, 0, <<>>)
<1>1. /\ \A i \in DOMAIN cmdQ[n] : i + 0 = i /\ i - 0 = i
      /\ DOMAIN <<>> = {}
  BY NoCmds, LenProperties DEF TypeInv
<1>2. QED
  BY <1>1 DEF QueueMoves, TypeInv

LEMMA HashSame ==
    ASSUME message' = message, hash'.short = hash.short
    PROVE  Stored(hash)' = Stored(hash) /\ (HashInv => HashInv')
BY DEF Stored, HashInv, Total

(* Submit.                                                                 *)
LEMMA SubmitShape ==
    ASSUME Shape, NEW s \in Submits, NEW n \in Nodes, Submit(s, n)
    PROVE  /\ Shape'
           /\ \A t \in Submits \ {s} : at'[t] = at[t] /\ \A op : Has(op, t)' <=> Has(op, t)
           /\ at'[s] \in {"REFUSED", "COUNT"} /\ \A op \in Ops \ {"HINCRBY"} : ~Has(op, s)'
<1> USE DEF Shape
<1>1. /\ at[s] = "NEW" /\ \A op \in Ops : ~Has(op, s)
      /\ s \notin Stored(hash)
  BY DEF Submit, StageInv, StageOK, Ops, Parted
<1>2. /\ UNCHANGED <<message, hash, faults, log>>
      /\ node' = [node EXCEPT ![s] = n] /\ node \in [Submits -> Nodes \cup {Nobody}]
      /\ at \in [Submits -> Waits]
      /\ hash' \in HashType /\ faults' \in 0 .. MaxFaults /\ log' \in LogType
      /\ hash'.count <= hash.count + (faults' - faults)
  BY LongAssumption DEF Submit, TypeInv, HashType
<1>3. /\ node' \in [Submits -> Nodes \cup {Nobody}] /\ node'[s] = n
      /\ \A t \in Submits \ {s} : node'[t] = node[t]
  BY <1>2
<1>4. Stored(hash)' = Stored(hash) /\ HashInv'
  BY <1>2, HashSame
<1>5. ASSUME NEW w \in {"REFUSED", "COUNT"}, at' = [at EXCEPT ![s] = w], NEW r \in Seq(CmdType),
             QueueMoves(n, 0, r), \A k \in DOMAIN r : r[k].sms = s,
             \A k, l \in DOMAIN r : r[k] = r[l] => k = l,
             \A op \in Ops : Adds(r, op, s) => op = "HINCRBY" /\ w = "COUNT"
      PROVE  /\ Shape'
             /\ \A t \in Submits \ {s} : at'[t] = at[t] /\ \A op : Has(op, t)' <=> Has(op, t)
             /\ at'[s] \in {"REFUSED", "COUNT"} /\ \A op \in Ops \ {"HINCRBY"} : ~Has(op, s)'
  <2>1. at' \in [Submits -> Waits] /\ at'[s] = w /\ \A t \in Submits \ {s} : at'[t] = at[t]
    BY <1>2, <1>5 DEF Waits
  <2>2. Turn(n, 0, r, s)
    BY <1>1, <1>3, <1>5, <2>1 DEF Turn
  <2>3. \A op \in Ops : Has(op, s)' <=> Adds(r, op, s)
    BY <1>1, <2>2, TurnSelf
  <2>4. StageOK(s)'
    BY <1>1, <1>3, <1>4, <1>5, <2>1, <2>3 DEF StageOK, Ops, Parted
  <2>5. at'[s] \in Uncounted /\ at[s] \in Uncounted
    BY <1>1, <2>1 DEF Uncounted
  <2>6. Shape'
    BY <1>1, <1>2, <1>3, <1>4, <1>5, <2>1, <2>2, <2>4, <2>5, TurnShape DEF Ops
  <2>7. \A t \in Submits \ {s} : \A op : Has(op, t)' <=> Has(op, t)
    BY <2>2, TurnOthers
  <2>8. QED
    BY <1>5, <2>1, <2>3, <2>6, <2>7
<1>6. CASE at' = [at EXCEPT ![s] = "REFUSED"] /\ UNCHANGED cmdQ
  <2>1. QueueMoves(n, 0, <<>>)
    BY <1>6, KeepMoves
  <2>2. QED
    BY <1>5, <1>6, <2>1, NoCmds
<1>7. CASE at' = [at EXCEPT ![s] = "COUNT"] /\ Post(n, <<Cmd("HINCRBY", s)>>)
  <2> DEFINE r == <<Cmd("HINCRBY", s)>>
  <2>1. /\ r \in Seq(CmdType) /\ DOMAIN r = {1} /\ r[1].sms = s
        /\ \A op : Adds(r, op, s) <=> op = "HINCRBY"
    BY OneCmd DEF Ops
  <2>2. Post(n, r)
    BY <1>7
  <2> HIDE DEF r
  <2>3. QueueMoves(n, 0, r)
    BY <2>1, <2>2, PostMoves
  <2>4. QED
    BY <1>5, <1>7, <2>1, <2>3
<1>8. QED
  BY <1>6, <1>7 DEF Submit

\* The command o of s has left the queue of n, and those of r have come.
Popped(n, o, s, r) ==
    /\ Turn(n, 1, r, s)
    /\ node[s] = n /\ Has(o, s)
    /\ \A op : Has(op, s)' <=> Adds(r, op, s) \/ (Has(op, s) /\ op # o)
    /\ \A t \in Submits \ {s} : at'[t] = at[t] /\ \A op : Has(op, t)' <=> Has(op, t)

LEMMA PopTurn ==
    ASSUME Shape, NEW n \in Nodes, cmdQ[n] # <<>>, NEW r \in Seq(CmdType),
           NEW o \in Ops, NEW s \in Submits, Head(cmdQ[n]).op = o, Head(cmdQ[n]).sms = s,
           Then(n, Tail(cmdQ[n]), r), node' = node,
           \A k \in DOMAIN r : r[k].sms = s,
           \A t \in Submits \ {s} : at'[t] = at[t]
    PROVE  Popped(n, o, s, r)
<1> USE DEF Shape
<1> DEFINE c == Head(cmdQ[n])
<1>1. /\ c = Cmd(o, s)
      /\ 1 \in DOMAIN cmdQ[n] /\ cmdQ[n][1] = c
      /\ Has(o, s) /\ node[s] = n
  BY HeadCmd
<1>2. QueueMoves(n, 1, r)
  BY ThenMoves
<1>3. cmdQ[n][1].sms = s
  BY <1>1
<1> HIDE DEF c
<1>4. Turn(n, 1, r, s)
  BY <1>1, <1>2, <1>3 DEF Turn
<1>5. \A op : Cmd(o, s) = Cmd(op, s) <=> op = o
  BY DEF Cmd
<1>6. ASSUME NEW op
      PROVE  Has(op, s)' <=> Adds(r, op, s) \/ (Has(op, s) /\ ~(cmdQ[n][1] = Cmd(op, s)))
  <2>1. 1 \in {0, 1}
    OBVIOUS
  <2>2. Has(op, s)' <=> Adds(r, op, s) \/ (Has(op, s) /\ ~(1 = 1 /\ cmdQ[n][1] = Cmd(op, s)))
    BY <1>1, <1>4, <2>1, TurnSelf
  <2>3. QED
    BY <2>2
<1>7. \A op : Has(op, s)' <=> Adds(r, op, s) \/ (Has(op, s) /\ op # o)
  BY <1>1, <1>5, <1>6
<1>8. \A t \in Submits \ {s} : \A op : Has(op, t)' <=> Has(op, t)
  BY <1>1, <1>4, TurnOthers
<1>9. QED
  BY <1>1, <1>4, <1>7, <1>8 DEF Popped

(* HINCRBY is answered.                                                    *)
LEMMA CountShape ==
    ASSUME Shape, NEW n \in Nodes, cmdQ[n] # <<>>, NEW s \in Submits,
           Head(cmdQ[n]).op = "HINCRBY", Head(cmdQ[n]).sms = s,
           NEW h, NEW x \in {1, 2},
           h = IF x = 1 THEN Counted(hash) ELSE Counted(Counted(hash)),
           RspCount(n, s, Tail(cmdQ[n]), h),
           UNCHANGED <<message, node>>, faults' = faults + (x - 1), faults' \in 0 .. MaxFaults
    PROVE  /\ Shape' /\ at[s] = "COUNT"
           /\ hash'.count = hash.count + x /\ hash'.short = hash.short /\ hash'.ttl = hash.ttl
           /\ \A t \in Submits \ {s} : at'[t] = at[t] /\ \A op : Has(op, t)' <=> Has(op, t)
           /\ ~Has("HINCRBY", s)' /\ ~Has("DEL", s)' /\ ~Has("DEL", s)
           /\ \/ hash'.count = Total /\ at'[s] = "READ" /\ ~Has("HMSET", s)' /\ ~Has("EXPIRE", s)'
              \/ /\ hash'.count # Total /\ at'[s] = (IF hash'.count = 1 THEN "WAIT" ELSE "GONE")
                 /\ Has("HMSET", s)' /\ (Has("EXPIRE", s)' <=> hash'.count = 1)
<1> USE DEF Shape
<1>1. Has("HINCRBY", s) /\ node[s] = n
  BY HeadCmd
<1>2. /\ at[s] = "COUNT" /\ s \notin Stored(hash)
      /\ \A op \in Ops \ {"HINCRBY"} : ~Has(op, s)
  BY <1>1 DEF StageInv, StageOK, Ops, Parted
<1>3. h \in HashType /\ h.count = hash.count + x /\ h.short = hash.short /\ h.ttl = hash.ttl
  BY CountedIs
<1>4. /\ RspCount(n, s, Tail(cmdQ[n]), h)
      /\ Head(cmdQ[n]).op = "HINCRBY" /\ "HINCRBY" \in Ops
  BY DEF Ops
<1>5. hash' = h /\ message' = message /\ node' = node
  BY <1>4 DEF RspCount
<1>6. /\ node' \in [Submits -> Nodes \cup {Nobody}] /\ at \in [Submits -> Waits] /\ log \in LogType
      /\ hash.count \in Nat /\ faults \in Int
  BY <1>5, LongAssumption DEF TypeInv, HashType
<1>7. log' \in LogType
  BY <1>4, <1>6 DEF RspCount, LogType
<1>8. Stored(hash)' = Stored(hash) /\ HashInv'
  BY <1>3, <1>5, HashSame
<1>9. hash'.count <= hash.count + 1 + (faults' - faults)
  BY <1>3, <1>5, <1>6
<1>10. ASSUME NEW w \in {"READ", "WAIT", "GONE"}, at' = [at EXCEPT ![s] = w], NEW r \in Seq(CmdType),
              Then(n, Tail(cmdQ[n]), r), \A k \in DOMAIN r : r[k].sms = s,
              \A k, l \in DOMAIN r : r[k] = r[l] => k = l,
              \A op : Adds(r, op, s) <=> IF w = "READ" THEN op = "HGETALL"
                                         ELSE op = "HMSET" \/ (op = "EXPIRE" /\ w = "WAIT")
       PROVE  /\ Shape' /\ at'[s] = w
              /\ \A t \in Submits \ {s} : at'[t] = at[t] /\ \A op : Has(op, t)' <=> Has(op, t)
              /\ \A op \in Ops : Has(op, s)' <=> IF w = "READ" THEN op = "HGETALL"
                                                 ELSE op = "HMSET" \/ (op = "EXPIRE" /\ w = "WAIT")
  <2>1. at' \in [Submits -> Waits] /\ at'[s] = w /\ \A t \in Submits \ {s} : at'[t] = at[t]
    BY <1>1, <1>6, <1>10 DEF Waits
  <2>2. Popped(n, "HINCRBY", s, r)
    BY <1>4, <1>5, <1>10, <2>1, PopTurn
  <2>3. \A op \in Ops : Has(op, s)' <=> Adds(r, op, s)
    BY <1>2, <1>10, <2>2 DEF Popped
  <2>4. \A op \in Ops : Has(op, s)' <=> IF w = "READ" THEN op = "HGETALL"
                                        ELSE op = "HMSET" \/ (op = "EXPIRE" /\ w = "WAIT")
    BY <1>10, <2>3
  <2>a. /\ ~Has("HINCRBY", s)' /\ ~Has("DEL", s)'
        /\ Has("HMSET", s)' => w \in {"WAIT", "GONE"}
        /\ Has("EXPIRE", s)' => w = "WAIT"
        /\ Has("HGETALL", s)' <=> w = "READ"
    BY <1>10, <2>4 DEF Ops
  <2>b. s \notin Stored(hash)' /\ node'[s] \in Nodes
    BY <1>1, <1>2, <1>5, <1>8
  <2>5. StageOK(s)'
    BY <2>1, <2>a, <2>b DEF StageOK, Parted
  <2>6. at[s] = "COUNT" /\ at'[s] \notin Uncounted
    BY <1>2, <1>10, <2>1 DEF Uncounted
  <2>7. \A op \in Ops : Adds(r, op, s) => ~Has(op, s)
    BY <1>2, <1>10
  <2>8. Adds(r, "EXPIRE", s) => ~Has("HGETALL", s) /\ ~Adds(r, "HGETALL", s)
    BY <1>2, <1>10 DEF Ops
  <2>9. Turn(n, 1, r, s)
    BY <2>2 DEF Popped
  <2>c. hash' \in HashType /\ message' = message /\ 1 \in {0, 1}
    BY <1>3, <1>5
  <2>10. Shape'
    BY <1>1, <1>6, <1>7, <1>8, <1>9, <1>10, <2>1, <2>5, <2>6, <2>7, <2>8, <2>9, <2>c, TurnShape
  <2>11. QED
    BY <2>1, <2>2, <2>4, <2>10 DEF Popped
<1>11. CASE h.count = Total
  <2> DEFINE r == <<Cmd("HGETALL", s)>>
  <2>1. /\ r \in Seq(CmdType) /\ DOMAIN r = {1} /\ r[1].sms = s
        /\ \A op : Adds(r, op, s) <=> op = "HGETALL"
    BY <1>1, OneCmd DEF Ops
  <2>2. at' = [at EXCEPT ![s] = "READ"] /\ Then(n, Tail(cmdQ[n]), r)
    BY <1>4, <1>11 DEF RspCount
  <2> HIDE DEF r
  <2>3. \A op : Adds(r, op, s) <=> IF "READ" = "READ" THEN op = "HGETALL"
                                   ELSE op = "HMSET" \/ (op = "EXPIRE" /\ "READ" = "WAIT")
    BY <2>1
  <2>4. /\ Shape' /\ at'[s] = "READ"
        /\ \A t \in Submits \ {s} : at'[t] = at[t] /\ \A op : Has(op, t)' <=> Has(op, t)
        /\ \A op \in Ops : Has(op, s)' <=> op = "HGETALL"
    BY <1>10, <2>1, <2>2, <2>3
  <2>5. ~Has("HINCRBY", s)' /\ ~Has("DEL", s)' /\ ~Has("HMSET", s)' /\ ~Has("EXPIRE", s)'
    BY <2>4 DEF Ops
  <2>6. QED
    BY <1>1, <1>2, <1>3, <1>5, <1>11, <2>4, <2>5 DEF Ops
<1>12. CASE h.count # Total /\ h.count = 1
  <2> DEFINE r == <<Cmd("HMSET", s), Cmd("EXPIRE", s)>>
  <2>1. /\ r \in Seq(CmdType) /\ DOMAIN r = {1, 2} /\ \A k \in {1, 2} : r[k].sms = s
        /\ \A k, l \in {1, 2} : r[k] = r[l] => k = l
        /\ \A op : Adds(r, op, s) <=> op \in {"HMSET", "EXPIRE"}
    BY <1>1, TwoCmds DEF Ops
  <2>a. SetTimeout(s, h.count) = <<Cmd("EXPIRE", s)>>
    BY <1>12 DEF SetTimeout
  <2>b. Cmd("HMSET", s) \in CmdType /\ Cmd("EXPIRE", s) \in CmdType
    BY DEF Cmd, CmdType, Ops
  <2>2. <<Cmd("HMSET", s)>> \o SetTimeout(s, h.count) = r
    BY <2>a, <2>b, ConcatTwo, Zenon
  <2>3. at' = [at EXCEPT ![s] = "WAIT"] /\ Then(n, Tail(cmdQ[n]), r)
    BY <1>4, <1>12, <2>2 DEF RspCount, AfterStore
  <2> HIDE DEF r
  <2>4. \A op : Adds(r, op, s) <=> IF "WAIT" = "READ" THEN op = "HGETALL"
                                   ELSE op = "HMSET" \/ (op = "EXPIRE" /\ "WAIT" = "WAIT")
    BY <2>1
  <2>5. /\ Shape' /\ at'[s] = "WAIT"
        /\ \A t \in Submits \ {s} : at'[t] = at[t] /\ \A op : Has(op, t)' <=> Has(op, t)
        /\ \A op \in Ops : Has(op, s)' <=> op \in {"HMSET", "EXPIRE"}
    BY <1>10, <2>1, <2>3, <2>4
  <2>6. ~Has("HINCRBY", s)' /\ ~Has("DEL", s)' /\ Has("HMSET", s)' /\ Has("EXPIRE", s)'
    BY <2>5 DEF Ops
  <2>7. QED
    BY <1>1, <1>2, <1>3, <1>5, <1>12, <2>5, <2>6 DEF Ops
<1>13. CASE h.count # Total /\ h.count # 1
  <2> DEFINE r == <<Cmd("HMSET", s)>>
  <2>1. /\ r \in Seq(CmdType) /\ DOMAIN r = {1} /\ r[1].sms = s
        /\ \A op : Adds(r, op, s) <=> op = "HMSET"
    BY <1>1, OneCmd DEF Ops
  <2>2. <<Cmd("HMSET", s)>> \o SetTimeout(s, h.count) = r
    BY <1>13 DEF SetTimeout
  <2>3. at' = [at EXCEPT ![s] = "GONE"] /\ Then(n, Tail(cmdQ[n]), r)
    BY <1>4, <1>13, <2>2 DEF RspCount, AfterStore
  <2> HIDE DEF r
  <2>4. \A op : Adds(r, op, s) <=> IF "GONE" = "READ" THEN op = "HGETALL"
                                   ELSE op = "HMSET" \/ (op = "EXPIRE" /\ "GONE" = "WAIT")
    BY <2>1
  <2>5. /\ Shape' /\ at'[s] = "GONE"
        /\ \A t \in Submits \ {s} : at'[t] = at[t] /\ \A op : Has(op, t)' <=> Has(op, t)
        /\ \A op \in Ops : Has(op, s)' <=> op = "HMSET"
    BY <1>10, <2>1, <2>3, <2>4
  <2>6. ~Has("HINCRBY", s)' /\ ~Has("DEL", s)' /\ Has("HMSET", s)' /\ ~Has("EXPIRE", s)'
    BY <2>5 DEF Ops
  <2>7. QED
    BY <1>1, <1>2, <1>3, <1>5, <1>13, <2>5, <2>6 DEF Ops
<1>14. QED
  BY <1>11, <1>12, <1>13

\* The session of s has its answer to HGETALL, and has posted a DEL or nothing.
Answered(s, w, del) ==
    /\ at'[s] = w
    /\ \A t \in Submits \ {s} : at'[t] = at[t] /\ \A op : Has(op, t)' <=> Has(op, t)
    /\ \A op \in Ops \ {"HGETALL", "DEL"} : Has(op, s)' <=> Has(op, s)
    /\ ~Has("HGETALL", s)' /\ (Has("DEL", s)' <=> del)
    /\ ~Has("DEL", s) /\ ~Has("EXPIRE", s)
    /\ at[s] = "READ" => ~Has("HMSET", s)

(* HGETALL is answered, or fails: nothing, or a DEL, is posted.            *)
LEMMA AnswerShape ==
    ASSUME Shape, NEW n \in Nodes, cmdQ[n] # <<>>, NEW s \in Submits,
           Head(cmdQ[n]).op = "HGETALL", Head(cmdQ[n]).sms = s, at[s] \in {"READ", "LATE"},
           NEW w \in {"GONE", "KEPT", "RETRY"}, at' = [at EXCEPT ![s] = w],
           NEW del \in BOOLEAN, w = "RETRY" => at[s] = "READ" /\ ~del,
           Then(n, Tail(cmdQ[n]), IF del THEN Delete(s) ELSE <<>>),
           message' = message, node' = node, hash' = hash,
           faults' \in 0 .. MaxFaults, faults <= faults', log' \in LogType
    PROVE  Shape' /\ Answered(s, w, del)
<1> USE DEF Shape
<1>1. Has("HGETALL", s) /\ node[s] = n /\ cmdQ[n][1] = Cmd("HGETALL", s) /\ 1 \in DOMAIN cmdQ[n]
  BY HeadCmd
<1>2. ~Has("HINCRBY", s) /\ ~Has("DEL", s) /\ (at[s] = "READ" => ~Has("HMSET", s) /\ s \notin Stored(hash))
      /\ (Has("HMSET", s) => s \notin Stored(hash))
  BY DEF StageInv, StageOK, Parted
<1>3. ~Has("EXPIRE", s)
  <2> SUFFICES ASSUME Has("EXPIRE", s)
               PROVE  FALSE
    OBVIOUS
  <2>1. PICK k \in Nodes : \E i \in DOMAIN cmdQ[k] : cmdQ[k][i] = Cmd("EXPIRE", s)
    BY DEF Has
  <2>2. PICK i \in DOMAIN cmdQ[k] : cmdQ[k][i] = Cmd("EXPIRE", s)
    BY <2>1
  <2>3. Cmd("EXPIRE", s).sms = s /\ Cmd("HGETALL", s).sms = s /\ Cmd("HGETALL", s).op = "HGETALL"
    BY DEF Cmd
  <2>4. k = n
    BY <1>1, <2>2, <2>3 DEF QueueInv, QPlaced
  <2>5. i < 1
    BY <1>1, <2>2, <2>3, <2>4 DEF QueueInv, QOrder
  <2>6. i \in 1 .. Len(cmdQ[k]) /\ Len(cmdQ[k]) \in Nat
    BY <2>2, LenProperties DEF TypeInv
  <2>7. QED
    BY <2>5, <2>6
<1> DEFINE r == IF del THEN Delete(s) ELSE <<>>
<1>4. /\ r \in Seq(CmdType) /\ \A k \in DOMAIN r : r[k].sms = s
      /\ \A k, l \in DOMAIN r : r[k] = r[l] => k = l
      /\ \A op : Adds(r, op, s) <=> del /\ op = "DEL"
  <2>1. CASE del
    <3>1. r = <<Cmd("DEL", s)>>
      BY <2>1 DEF Delete
    <3> DEFINE q == <<Cmd("DEL", s)>>
    <3>2. /\ q \in Seq(CmdType) /\ DOMAIN q = {1} /\ q[1].sms = s
          /\ \A op : Adds(q, op, s) <=> op = "DEL"
      BY OneCmd DEF Ops
    <3>3. r = q
      BY <3>1
    <3> HIDE DEF q, r
    <3>4. QED
      BY <2>1, <3>2, <3>3
  <2>2. CASE ~del
    <3>1. r = <<>>
      BY <2>2
    <3> HIDE DEF r
    <3>2. QED
      BY <2>2, <3>1, NoCmds
  <2>3. QED
    BY <2>1, <2>2
<1>5. Then(n, Tail(cmdQ[n]), r)
  OBVIOUS
<1> HIDE DEF r
<1>6. /\ at \in [Submits -> Waits] /\ hash \in HashType /\ node \in [Submits -> Nodes \cup {Nobody}]
      /\ hash' = hash /\ node' = node /\ message' = message /\ hash.count \in Nat /\ faults \in Int /\ faults' \in Int
  BY LongAssumption DEF TypeInv, HashType
<1>7. at' \in [Submits -> Waits] /\ at'[s] = w /\ \A t \in Submits \ {s} : at'[t] = at[t]
  BY <1>6 DEF Waits
<1>8. Stored(hash)' = Stored(hash) /\ HashInv'
  BY <1>6, HashSame
<1>9. Popped(n, "HGETALL", s, r)
  BY <1>4, <1>5, <1>6, <1>7, PopTurn DEF Ops
<1>10. /\ \A op \in Ops \ {"HGETALL", "DEL"} : Has(op, s)' <=> Has(op, s)
       /\ ~Has("HGETALL", s)' /\ (Has("DEL", s)' <=> del)
       /\ \A t \in Submits \ {s} : at'[t] = at[t] /\ \A op : Has(op, t)' <=> Has(op, t)
  BY <1>2, <1>4, <1>9 DEF Popped
<1>11. ~Has("HINCRBY", s)' /\ ~Has("EXPIRE", s)' /\ (Has("HMSET", s)' <=> Has("HMSET", s))
  BY <1>2, <1>3, <1>10 DEF Ops
<1>12. s \in Stored(hash) => at[s] = "LATE"
  BY <1>2
<1>13. StageOK(s)'
  BY <1>1, <1>2, <1>6, <1>7, <1>8, <1>10, <1>11, <1>12 DEF StageOK, Parted
<1>14. at'[s] \notin Uncounted /\ hash'.count <= hash.count + (faults' - faults)
  BY <1>6, <1>7 DEF Uncounted
<1>15. Turn(n, 1, r, s)
  BY <1>9 DEF Popped
<1>16. \A op \in Ops : Adds(r, op, s) => ~Has(op, s)
  BY <1>2, <1>4
<1>17. ~Adds(r, "EXPIRE", s)
  BY <1>4
<1>18. hash' \in HashType /\ 1 \in {0, 1} /\ node' \in [Submits -> Nodes \cup {Nobody}]
  BY <1>6
<1>19. Shape'
  BY <1>4, <1>6, <1>7, <1>8, <1>13, <1>14, <1>15, <1>16, <1>17, <1>18, TurnShape
<1>20. QED
  BY <1>2, <1>3, <1>7, <1>10, <1>19 DEF Answered

(* A command that gets no answer runs, or any command fails.               *)
LEMMA DoneShape ==
    ASSUME Shape, NEW n \in Nodes, cmdQ[n] # <<>>, NEW o \in Ops, NEW s \in Submits,
           Head(cmdQ[n]).op = o, Head(cmdQ[n]).sms = s, NEW w \in Waits, at' = [at EXCEPT ![s] = w],
           \/ o = "HINCRBY" /\ w = "KEPT" /\ Stored(hash)' = Stored(hash)
              /\ hash'.count <= hash.count + 1 + (faults' - faults)
           \/ o \in {"HMSET", "EXPIRE", "DEL"} /\ w = at[s]
              /\ hash'.count <= hash.count + (faults' - faults),
           Then(n, Tail(cmdQ[n]), <<>>), message' = message, node' = node,
           faults' \in 0 .. MaxFaults, log' \in LogType, hash' \in HashType, HashInv',
           \A t \in Stored(hash)' : t \in Stored(hash) \/ (t = s /\ o = "HMSET")
    PROVE  /\ Shape' /\ at'[s] = w
           /\ \A t \in Submits \ {s} : at'[t] = at[t] /\ \A op : Has(op, t)' <=> Has(op, t)
           /\ \A op : Has(op, s)' <=> Has(op, s) /\ op # o
<1> USE DEF Shape
<1>1. Has(o, s) /\ node[s] = n
  BY HeadCmd
<1>2. StageOK(s)
  BY DEF StageInv
<1>3. <<>> \in Seq(CmdType) /\ DOMAIN <<>> = {} /\ \A op : ~Adds(<<>>, op, s)
  BY NoCmds
<1>4. /\ at \in [Submits -> Waits] /\ node \in [Submits -> Nodes \cup {Nobody}] /\ node' = node /\ message' = message
  BY DEF TypeInv
<1>5. at' \in [Submits -> Waits] /\ at'[s] = w /\ \A t \in Submits \ {s} : at'[t] = at[t]
  BY <1>4
<1> DEFINE r == <<>>
<1>6. /\ r \in Seq(CmdType) /\ DOMAIN r = {} /\ \A op : ~Adds(r, op, s)
      /\ Then(n, Tail(cmdQ[n]), r)
  BY <1>3
<1> HIDE DEF r
<1>7. Popped(n, o, s, r)
  BY <1>4, <1>5, <1>6, PopTurn
<1>8. /\ \A op : Has(op, s)' <=> Has(op, s) /\ op # o
      /\ \A t \in Submits \ {s} : at'[t] = at[t] /\ \A op : Has(op, t)' <=> Has(op, t)
      /\ Turn(n, 1, r, s)
  BY <1>6, <1>7 DEF Popped
<1>9. \A t \in Submits \ {s} : t \in Stored(hash)' => t \in Stored(hash)
  OBVIOUS
<1>10. StageOK(s)' /\ (\/ /\ at'[s] \in Uncounted => at[s] \in Uncounted
                          /\ hash'.count <= hash.count + (faults' - faults)
                       \/ /\ at[s] = "COUNT" /\ at'[s] \notin Uncounted
                          /\ hash'.count <= hash.count + 1 + (faults' - faults))
  <2>1. CASE o = "HINCRBY" /\ w = "KEPT" /\ Stored(hash)' = Stored(hash)
             /\ hash'.count <= hash.count + 1 + (faults' - faults)
    <3>1. at[s] = "COUNT" /\ s \notin Stored(hash) /\ \A op \in Ops \ {"HINCRBY"} : ~Has(op, s)
      BY <1>1, <1>2, <2>1 DEF StageOK, Ops, Parted
    <3>2. \A op \in Ops : ~Has(op, s)'
      BY <1>8, <2>1, <3>1
    <3>3. StageOK(s)'
      BY <1>1, <1>4, <1>5, <2>1, <3>1, <3>2 DEF StageOK, Ops, Parted
    <3>4. QED
      BY <1>5, <2>1, <3>1, <3>3 DEF Uncounted
  <2>2. CASE o \in {"HMSET", "EXPIRE", "DEL"} /\ w = at[s]
             /\ hash'.count <= hash.count + (faults' - faults)
    <3>1. at'[s] = at[s] /\ node'[s] = node[s] /\ (s \in Stored(hash)' => s \in Stored(hash) \/ o = "HMSET")
      BY <1>4, <1>5, <2>2
    <3>2. \A op : Has(op, s)' => Has(op, s)
      BY <1>8
    <3>3. Has("HGETALL", s)' <=> Has("HGETALL", s)
      BY <1>8, <2>2
    <3>4. Has("HMSET", s)' => o # "HMSET"
      BY <1>8
    <3>5. StageOK(s)'
      BY <1>1, <1>2, <3>1, <3>2, <3>3, <3>4 DEF StageOK
    <3>6. QED
      BY <2>2, <3>1, <3>5
  <2>3. QED
    BY <2>1, <2>2
<1>11. 1 \in {0, 1} /\ node' \in [Submits -> Nodes \cup {Nobody}]
  BY <1>4
<1>12. Shape'
  BY <1>4, <1>5, <1>6, <1>8, <1>9, <1>10, <1>11, TurnShape
<1>13. QED
  BY <1>5, <1>8, <1>12

(* The same, of a command that changes no session.                        *)
LEMMA DoneOnly ==
    ASSUME Shape, NEW n \in Nodes, cmdQ[n] # <<>>, NEW o \in {"HMSET", "EXPIRE", "DEL"}, NEW s \in Submits,
           Head(cmdQ[n]).op = o, Head(cmdQ[n]).sms = s, at' = at,
           hash'.count <= hash.count, faults' = faults,
           Then(n, Tail(cmdQ[n]), <<>>), message' = message, node' = node,
           log' \in LogType, hash' \in HashType, HashInv',
           \A t \in Stored(hash)' : t \in Stored(hash) \/ (t = s /\ o = "HMSET")
    PROVE  /\ Shape'
           /\ \A t \in Submits \ {s} : at'[t] = at[t] /\ \A op : Has(op, t)' <=> Has(op, t)
           /\ \A op : Has(op, s)' <=> Has(op, s) /\ op # o
<1>1. at \in [Submits -> Waits] /\ faults \in 0 .. MaxFaults /\ faults \in Int /\ hash.count \in Nat
  BY LongAssumption DEF Shape, TypeInv, HashType
<1>2. PICK w \in Waits : w = at[s]
  BY <1>1
<1>3. at' = [at EXCEPT ![s] = w] /\ o \in Ops
  BY <1>1, <1>2 DEF Ops
<1>5. hash'.count \in Nat
  BY DEF HashType
<1>4. faults' \in 0 .. MaxFaults /\ hash'.count <= hash.count + (faults' - faults)
  BY <1>1, <1>5
<1>6. \/ o = "HINCRBY" /\ w = "KEPT" /\ Stored(hash)' = Stored(hash)
         /\ hash'.count <= hash.count + 1 + (faults' - faults)
      \/ o \in {"HMSET", "EXPIRE", "DEL"} /\ w = at[s]
         /\ hash'.count <= hash.count + (faults' - faults)
  BY <1>2, <1>4
<1>8. /\ Shape /\ n \in Nodes /\ cmdQ[n] # <<>> /\ o \in Ops /\ s \in Submits
      /\ Head(cmdQ[n]).op = o /\ Head(cmdQ[n]).sms = s /\ w \in Waits /\ at' = [at EXCEPT ![s] = w]
  BY <1>3, <1>4, <1>6
<1>9. /\ Then(n, Tail(cmdQ[n]), <<>>) /\ message' = message /\ node' = node
      /\ faults' \in 0 .. MaxFaults /\ log' \in LogType /\ hash' \in HashType /\ HashInv'
      /\ \A t \in Stored(hash)' : t \in Stored(hash) \/ (t = s /\ o = "HMSET")
  BY <1>3, <1>4, <1>6
<1>10. Shape'
  BY <1>8, <1>6, <1>9, DoneShape
<1>11. \A t \in Submits \ {s} : at'[t] = at[t] /\ \A op : Has(op, t)' <=> Has(op, t)
  BY <1>8, <1>6, <1>9, DoneShape
<1>12. \A op : Has(op, s)' <=> Has(op, s) /\ op # o
  BY <1>8, <1>6, <1>9, DoneShape
<1>13. QED
  BY <1>10, <1>11, <1>12

(* A timer fires: HGETALL is posted.                                       *)
LEMMA TimerShape ==
    ASSUME Shape, NEW s \in Submits, NEW w \in {"READ", "LATE"},
           at[s] = (IF w = "READ" THEN "RETRY" ELSE "WAIT"), at' = [at EXCEPT ![s] = w],
           Post(node[s], <<Cmd("HGETALL", s)>>), UNCHANGED <<message, node, hash, faults, log>>
    PROVE  /\ Shape' /\ at'[s] = w
           /\ \A t \in Submits \ {s} : at'[t] = at[t] /\ \A op : Has(op, t)' <=> Has(op, t)
           /\ \A op \in Ops \ {"HGETALL"} : Has(op, s)' <=> Has(op, s)
<1> USE DEF Shape
<1>1. StageOK(s)
  BY DEF StageInv
<1>2. PICK n \in Nodes : n = node[s]
  BY <1>1 DEF StageOK
<1> DEFINE r == <<Cmd("HGETALL", s)>>
<1>3. /\ r \in Seq(CmdType) /\ DOMAIN r = {1} /\ r[1].sms = s
      /\ \A op : Adds(r, op, s) <=> op = "HGETALL"
  BY OneCmd DEF Ops
<1>4. Post(n, r)
  BY <1>2
<1> HIDE DEF r
<1>5. QueueMoves(n, 0, r)
  BY <1>3, <1>4, PostMoves
<1>6. /\ at \in [Submits -> Waits] /\ node \in [Submits -> Nodes \cup {Nobody}] /\ node' = node /\ message' = message
      /\ hash' = hash /\ hash \in HashType /\ hash.count \in Nat /\ faults' = faults /\ faults \in 0 .. MaxFaults
      /\ log' \in LogType /\ faults \in Int
  BY LongAssumption DEF TypeInv, HashType
<1>7. at' \in [Submits -> Waits] /\ at'[s] = w /\ \A t \in Submits \ {s} : at'[t] = at[t]
  BY <1>6 DEF Waits
<1>8. Turn(n, 0, r, s)
  BY <1>2, <1>3, <1>5, <1>6, <1>7 DEF Turn
<1>9. \A op : Has(op, s)' <=> Adds(r, op, s) \/ Has(op, s)
  <2> SUFFICES ASSUME NEW op
               PROVE  Has(op, s)' <=> Adds(r, op, s) \/ Has(op, s)
    OBVIOUS
  <2>1. Has(op, s)' <=> Adds(r, op, s) \/ (Has(op, s) /\ ~(0 = 1 /\ cmdQ[n][1] = Cmd(op, s)))
    BY <1>8, TurnSelf
  <2>2. QED
    BY <2>1
<1>10. \A t \in Submits \ {s} : \A op : Has(op, t)' <=> Has(op, t)
  BY <1>8, TurnOthers
<1>11. Stored(hash)' = Stored(hash) /\ HashInv'
  BY <1>6, HashSame
<1>12. ~Has("HGETALL", s) /\ ~Has("HINCRBY", s) /\ ~Has("DEL", s)
  BY <1>1 DEF StageOK
<1>13. Has("HGETALL", s)' /\ ~Has("HINCRBY", s)' /\ ~Has("DEL", s)'
       /\ (Has("HMSET", s)' <=> Has("HMSET", s)) /\ (Has("EXPIRE", s)' <=> Has("EXPIRE", s))
  BY <1>3, <1>9, <1>12
<1>14. node'[s] \in Nodes
  BY <1>2, <1>6
<1>15. w = "READ" => ~Has("HMSET", s) /\ ~Has("EXPIRE", s) /\ s \notin Stored(hash)
  BY <1>1 DEF StageOK, Parted
<1>16. StageOK(s)'
  BY <1>1, <1>7, <1>11, <1>13, <1>14, <1>15 DEF StageOK, Parted
<1>17. at'[s] \notin Uncounted /\ hash'.count <= hash.count + (faults' - faults)
  BY <1>6, <1>7 DEF Uncounted
<1>18. \A op \in Ops : Adds(r, op, s) => ~Has(op, s)
  BY <1>3, <1>12
<1>19. ~Adds(r, "EXPIRE", s) /\ 0 \in {0, 1} /\ \A k, l \in DOMAIN r : r[k] = r[l] => k = l
  BY <1>3
<1>20. Shape'
  BY <1>3, <1>6, <1>7, <1>8, <1>11, <1>16, <1>17, <1>18, <1>19, TurnShape
<1>21. QED
  BY <1>7, <1>9, <1>10, <1>3, <1>20

-----------------------------------------------------------------------------
(* What the other invariants need.                                         *)

LEMMA Pendings ==
    ASSUME TypeInv, NEW op
    PROVE  Pending(op) <=> \E s \in Submits : Has(op, s)
<1>1. ASSUME Pending(op)
      PROVE  \E s \in Submits : Has(op, s)
  <2>1. PICK n \in Nodes : \E i \in DOMAIN cmdQ[n] : cmdQ[n][i].op = op
    BY <1>1 DEF Pending
  <2>2. PICK i \in DOMAIN cmdQ[n] : cmdQ[n][i].op = op
    BY <2>1
  <2>3. cmdQ[n][i] \in CmdType
    BY ElementOfSeq, LenProperties DEF TypeInv
  <2>4. cmdQ[n][i] = Cmd(op, cmdQ[n][i].sms) /\ cmdQ[n][i].sms \in Submits
    BY <2>2, <2>3 DEF CmdType, Cmd
  <2>5. Has(op, cmdQ[n][i].sms)
    BY <2>4 DEF Has
  <2>6. QED
    BY <2>4, <2>5
<1>2. ASSUME NEW s \in Submits, Has(op, s)
      PROVE  Pending(op)
  <2>1. Cmd(op, s).op = op
    BY DEF Cmd
  <2>2. QED
    BY <1>2, <2>1 DEF Has, Pending
<1>3. QED
  BY <1>1, <1>2

LEMMA PendingsImply ==
    TypeInv => \A op \in Ops : Pending(op) <=> \E s \in Submits : Has(op, s)
BY Pendings

LEMMA PendingsNext ==
    TypeInv' => (\A op \in Ops : Pending(op) <=> \E s \in Submits : Has(op, s))'
BY PendingsImply, PTL

LEMMA RoundFinite ==
    ASSUME TypeInv
    PROVE  /\ Round \subseteq Submits /\ IsFiniteSet(Round) /\ Cardinality(Round) \in Nat
           /\ \A S \in SUBSET Round : IsFiniteSet(S) /\ Cardinality(S) \in Nat
                                      /\ Cardinality(S) <= Cardinality(Round)
                                      /\ (Cardinality(S) = Cardinality(Round) => S = Round)
<1>1. Round \subseteq Submits
  BY StoredIn DEF Round, Posted, Reading
<1> HIDE DEF Round
<1>2. IsFiniteSet(Round) /\ Cardinality(Round) \in Nat
  BY <1>1, LongAssumption, FS_Subset, FS_CardinalityType
<1>3. ASSUME NEW S \in SUBSET Round
      PROVE  IsFiniteSet(S) /\ Cardinality(S) \in Nat
             /\ Cardinality(S) <= Cardinality(Round)
             /\ (Cardinality(S) = Cardinality(Round) => S = Round)
  BY <1>2, FS_Subset, FS_CardinalityType
<1>4. QED
  BY <1>1, <1>2, <1>3

(* Of the sets a round is made of, the step of s changes only what is said *)
(* of s.                                                                   *)
LEMMA SetsNext ==
    ASSUME TypeInv, TypeInv', NEW s \in Submits,
           \A t \in Submits \ {s} : at'[t] = at[t] /\ \A op : Has(op, t)' <=> Has(op, t)
    PROVE  /\ Posted' = (Posted \ {s}) \cup (IF Has("HMSET", s)' THEN {s} ELSE {})
           /\ Reading' = (Reading \ {s}) \cup (IF at'[s] \in {"READ", "RETRY"} THEN {s} ELSE {})
           /\ Timed' = (Timed \ {s}) \cup (IF at'[s] \in {"WAIT", "LATE"} THEN {s} ELSE {})
           /\ \A op \in Ops : Pending(op)' <=> Has(op, s)' \/ \E t \in Submits \ {s} : Has(op, t)
           /\ \A op \in Ops : Pending(op) <=> Has(op, s) \/ \E t \in Submits \ {s} : Has(op, t)
<1>1. Posted' = (Posted \ {s}) \cup (IF Has("HMSET", s)' THEN {s} ELSE {})
  BY DEF Posted
<1>2. Reading' = (Reading \ {s}) \cup (IF at'[s] \in {"READ", "RETRY"} THEN {s} ELSE {})
  BY DEF Reading
<1>3. Timed' = (Timed \ {s}) \cup (IF at'[s] \in {"WAIT", "LATE"} THEN {s} ELSE {})
  BY DEF Timed
<1>4. ASSUME NEW op \in Ops
      PROVE  Pending(op)' <=> Has(op, s)' \/ \E t \in Submits \ {s} : Has(op, t)
  <2>1. Pending(op)' <=> \E t \in Submits : Has(op, t)'
    BY PendingsNext
  <2>2. QED
    BY <2>1
<1>5. ASSUME NEW op \in Ops
      PROVE  Pending(op) <=> Has(op, s) \/ \E t \in Submits \ {s} : Has(op, t)
  BY Pendings
<1>6. QED
  BY <1>1, <1>2, <1>3, <1>4, <1>5

(* The next state.                                                         *)

LEMMA FieldsSame ==
    ASSUME Stored(hash)' = Stored(hash), hash'.count = hash.count
    PROVE  Fields(hash)' = Fields(hash)
BY DEF Fields

LEMMA EndedSame ==
    ASSUME log'.failed = log.failed, log'.merged = log.merged
    PROVE  \A t : Ended(t)' <=> Ended(t)
BY DEF Ended

LEMMA MergedSame ==
    ASSUME MergedWhole, message' = message, log'.merged = log.merged, Disturbed => Disturbed'
    PROVE  MergedWhole'
BY DEF MergedWhole, Total

(* Two accepted parts of the same number stay so.                          *)
LEMMA RepeatsStay ==
    ASSUME message' = message,
           \A t \in Submits : at[t] \notin {"NEW", "REFUSED"} => at'[t] \notin {"NEW", "REFUSED"}
    PROVE  Repeats => Repeats'
BY DEF Repeats

(* Where the round and the verdicts are the same.                          *)
LEMMA QuietRound ==
    ASSUME RoundInv, VerdictInv, Total' = Total, Stored(hash)' = Stored(hash), hash'.count = hash.count,
           Posted' = Posted, Reading' = Reading, Timed' \subseteq Timed,
           Pending("DEL")' <=> Pending("DEL"),
           log'.failed = log.failed, log'.merged = log.merged,
           \A t \in Submits : at[t] \in Parted => at'[t] \in Parted
    PROVE  RoundInv' /\ VerdictInv'
<1>1. Round' = Round
  BY DEF Round
<1>2. \A t : Ended(t)' <=> Ended(t)
  BY EndedSame
<1>3. AtMostOne(Timed)'
  BY DEF RoundInv, AtMostOne
<1>4. RoundInv'
  BY <1>1, <1>3 DEF RoundInv, AtMostOne
<1>5. VerdictInv'
  BY <1>2 DEF VerdictInv
<1>6. QED
  BY <1>4, <1>5

LEMMA QuietForget ==
    ASSUME ForgetInv, Total' = Total, Stored(hash)' = Stored(hash), hash'.count = hash.count,
           Posted' = Posted, Reading' = Reading,
           Pending("DEL")' <=> Pending("DEL"),
           log'.failed = log.failed, log'.merged = log.merged,
           \A t \in Submits : at'[t] # "REFUSED" => at[t] # "REFUSED" /\ (InHand(t) => InHand(t)'),
           hash'.ttl # Nobody => hash'.ttl \in Timed' \/ Pending("DEL")' \/ hash'.count = Total
    PROVE  ForgetInv'
<1>1. Round' = Round
  BY DEF Round
<1>2. \A t : Ended(t)' <=> Ended(t)
  BY EndedSame
<1>3. QED
  BY <1>1, <1>2 DEF ForgetInv

LEMMA InHandIs ==
    TypeInv => \A s \in Submits :
       InHand(s) <=> at[s] \in {"NEW", "COUNT", "READ", "RETRY"} \/ s \in Stored(hash) \/ s \in Posted
<1> SUFFICES ASSUME TypeInv, NEW s \in Submits
             PROVE  InHand(s) <=> at[s] \in {"NEW", "COUNT", "READ", "RETRY"}
                                  \/ s \in Stored(hash) \/ s \in Posted
  OBVIOUS
<1>1. ASSUME NEW n \in Nodes, NEW i \in DOMAIN cmdQ[n]
      PROVE  cmdQ[n][i].op = "HMSET" /\ cmdQ[n][i].sms = s <=> cmdQ[n][i] = Cmd("HMSET", s)
  <2>1. cmdQ[n][i] \in CmdType
    BY ElementOfSeq, LenProperties DEF TypeInv
  <2>2. QED
    BY <2>1 DEF CmdType, Cmd
<1>2. (\E n \in Nodes : \E i \in DOMAIN cmdQ[n] : cmdQ[n][i].op = "HMSET" /\ cmdQ[n][i].sms = s)
         <=> Has("HMSET", s)
  BY <1>1 DEF Has
<1>3. s \in Posted <=> Has("HMSET", s)
  BY DEF Posted
<1>4. QED
  BY <1>2, <1>3 DEF InHand

LEMMA InHandNext ==
    TypeInv' => (\A s \in Submits :
       InHand(s) <=> at[s] \in {"NEW", "COUNT", "READ", "RETRY"} \/ s \in Stored(hash) \/ s \in Posted)'
BY InHandIs, PTL

LEMMA DisturbedStays ==
    ASSUME TypeInv, TypeInv', faults' \in {faults, faults + 1}, log.crossed => log'.crossed
    PROVE  Disturbed => Disturbed'
BY LongAssumption DEF Disturbed, TypeInv

(* A step that redis fails in.                                             *)
LEMMA FailedStep ==
    ASSUME LongInv, Shape', faults' = faults + 1, message' = message, log'.merged = log.merged,
           log.crossed => log'.crossed
    PROVE  LongInv'
<1>1. Disturbed'
  BY LongAssumption DEF Disturbed, Shape, LongInv, TypeInv
<1>2. MergedWhole'
  BY <1>1, MergedSame DEF LongInv
<1>3. QED
  BY <1>1, <1>2 DEF LongInv

-----------------------------------------------------------------------------
(* One lemma for each action.                                              *)

LEMMA SubmitKeeps ==
    ASSUME LongInv, NEW s \in Submits, NEW n \in Nodes, Submit(s, n)
    PROVE  LongInv'
<1>1. /\ Shape /\ Shape' /\ TypeInv /\ TypeInv'
      /\ \A t \in Submits \ {s} : at'[t] = at[t] /\ \A op : Has(op, t)' <=> Has(op, t)
      /\ at'[s] \in {"REFUSED", "COUNT"} /\ \A op \in Ops \ {"HINCRBY"} : ~Has(op, s)'
  BY SubmitShape DEF LongInv, Shape
<1>2. at[s] = "NEW" /\ UNCHANGED <<message, hash, faults, log>>
  BY DEF Submit
<1>3. \A op \in Ops : ~Has(op, s)
  BY <1>1, <1>2 DEF Shape, StageInv, StageOK, Ops, Parted
<1>4. /\ Posted' = Posted /\ Reading' = Reading /\ Timed' = Timed
      /\ \A op \in {"DEL", "EXPIRE"} : Pending(op)' <=> Pending(op)
  <2>1. /\ ~Has("HMSET", s) /\ ~Has("HMSET", s)' /\ ~Has("DEL", s) /\ ~Has("DEL", s)'
        /\ ~Has("EXPIRE", s) /\ ~Has("EXPIRE", s)'
    BY <1>1, <1>3 DEF Ops
  <2>2. s \notin Posted /\ s \notin Reading /\ s \notin Timed
    BY <1>2, <2>1 DEF Posted, Reading, Timed
  <2>3. /\ Posted' = (Posted \ {s}) \cup (IF Has("HMSET", s)' THEN {s} ELSE {})
        /\ Reading' = (Reading \ {s}) \cup (IF at'[s] \in {"READ", "RETRY"} THEN {s} ELSE {})
        /\ Timed' = (Timed \ {s}) \cup (IF at'[s] \in {"WAIT", "LATE"} THEN {s} ELSE {})
        /\ \A op \in Ops : Pending(op)' <=> Has(op, s)' \/ \E t \in Submits \ {s} : Has(op, t)
        /\ \A op \in Ops : Pending(op) <=> Has(op, s) \/ \E t \in Submits \ {s} : Has(op, t)
    BY <1>1, SetsNext
  <2>4. \A op \in {"DEL", "EXPIRE"} : Pending(op)' <=> Pending(op)
    BY <2>1, <2>3 DEF Ops
  <2>5. QED
    BY <1>1, <2>1, <2>2, <2>3, <2>4
<1>5. /\ Stored(hash)' = Stored(hash) /\ hash' = hash /\ Fields(hash)' = Fields(hash) /\ Total' = Total
      /\ Disturbed' <=> Disturbed
  BY <1>2, HashSame, FieldsSame DEF Total, Disturbed
<1>6. \A t \in Submits : at[t] \in Parted => at'[t] \in Parted
  BY <1>1, <1>2 DEF Parted
<1>7. MergedWhole'
  BY <1>2, <1>5, MergedSame DEF LongInv
<1>8. ASSUME ~Disturbed'
      PROVE  RoundInv' /\ VerdictInv' /\ KeyExpiresSometime'
  <2>1. RoundInv /\ VerdictInv /\ KeyExpiresSometime
    BY <1>5, <1>8 DEF LongInv
  <2>2. RoundInv' /\ VerdictInv'
    BY <1>2, <1>4, <1>5, <1>6, <2>1, QuietRound
  <2>3. KeyExpiresSometime'
    BY <1>4, <1>5, <2>1 DEF KeyExpiresSometime
  <2>4. QED
    BY <2>2, <2>3
<1>9. ASSUME ~Disturbed', ~Repeats'
      PROVE  ForgetInv'
  <2>1. \A t \in Submits : at[t] \notin {"NEW", "REFUSED"} => at'[t] \notin {"NEW", "REFUSED"}
    BY <1>1, <1>2
  <2>2. ForgetInv
    BY <1>2, <1>5, <1>9, <2>1, RepeatsStay DEF LongInv
  <2>3. \A t \in Submits : at'[t] # "REFUSED" => at[t] # "REFUSED" /\ (InHand(t) => InHand(t)')
    BY <1>1, <1>2, <1>4, <1>5, InHandIs, InHandNext
  <2>4. QED
    BY <1>2, <1>4, <1>5, <2>2, <2>3, QuietForget DEF ForgetInv
<1>10. QED
  BY <1>1, <1>7, <1>8, <1>9 DEF LongInv

\* A timer of s: the first part's, or that of the last part.
LEMMA TimerKeeps ==
    ASSUME LongInv, NEW s \in Submits, NEW w \in {"READ", "LATE"},
           at[s] = (IF w = "READ" THEN "RETRY" ELSE "WAIT"), at' = [at EXCEPT ![s] = w],
           Post(node[s], <<Cmd("HGETALL", s)>>), UNCHANGED <<message, node, hash, faults, log>>
    PROVE  LongInv'
<1>1. /\ Shape /\ Shape' /\ TypeInv /\ TypeInv' /\ at'[s] = w
      /\ \A t \in Submits \ {s} : at'[t] = at[t] /\ \A op : Has(op, t)' <=> Has(op, t)
      /\ \A op \in Ops \ {"HGETALL"} : Has(op, s)' <=> Has(op, s)
  BY TimerShape DEF LongInv, Shape
<1>2. /\ Posted' = Posted /\ Reading' = Reading /\ Timed' = Timed
      /\ \A op \in {"DEL", "EXPIRE"} : Pending(op)' <=> Pending(op)
  <2>1. /\ Has("HMSET", s)' <=> Has("HMSET", s)
        /\ Has("DEL", s)' <=> Has("DEL", s)
        /\ Has("EXPIRE", s)' <=> Has("EXPIRE", s)
    BY <1>1 DEF Ops
  <2>2. /\ s \in Posted <=> Has("HMSET", s)
        /\ s \in Reading <=> at[s] \in {"READ", "RETRY"}
        /\ s \in Timed <=> at[s] \in {"WAIT", "LATE"}
    BY DEF Posted, Reading, Timed
  <2>3. /\ Posted' = (Posted \ {s}) \cup (IF Has("HMSET", s)' THEN {s} ELSE {})
        /\ Reading' = (Reading \ {s}) \cup (IF at'[s] \in {"READ", "RETRY"} THEN {s} ELSE {})
        /\ Timed' = (Timed \ {s}) \cup (IF at'[s] \in {"WAIT", "LATE"} THEN {s} ELSE {})
        /\ \A op \in Ops : Pending(op)' <=> Has(op, s)' \/ \E t \in Submits \ {s} : Has(op, t)
        /\ \A op \in Ops : Pending(op) <=> Has(op, s) \/ \E t \in Submits \ {s} : Has(op, t)
    BY <1>1, SetsNext
  <2>4. \A op \in {"DEL", "EXPIRE"} : Pending(op)' <=> Pending(op)
    BY <2>1, <2>3 DEF Ops
  <2>5. at[s] \in {"READ", "RETRY"} <=> at'[s] \in {"READ", "RETRY"}
    BY <1>1
  <2>6. at[s] \in {"WAIT", "LATE"} <=> at'[s] \in {"WAIT", "LATE"}
    BY <1>1
  <2>7. QED
    BY <2>1, <2>2, <2>3, <2>4, <2>5, <2>6
<1>3. /\ Stored(hash)' = Stored(hash) /\ hash' = hash /\ Fields(hash)' = Fields(hash) /\ Total' = Total
      /\ Disturbed' <=> Disturbed
  BY HashSame, FieldsSame DEF Total, Disturbed
<1>4. \A t \in Submits : at[t] \in Parted => at'[t] \in Parted
  BY <1>1 DEF Parted
<1>5. MergedWhole'
  BY <1>3, MergedSame DEF LongInv
<1>6. ASSUME ~Disturbed'
      PROVE  RoundInv' /\ VerdictInv' /\ KeyExpiresSometime'
  <2>1. RoundInv /\ VerdictInv /\ KeyExpiresSometime
    BY <1>3, <1>6 DEF LongInv
  <2>2. RoundInv' /\ VerdictInv'
    BY <1>2, <1>3, <1>4, <2>1, QuietRound
  <2>3. KeyExpiresSometime'
    BY <1>2, <1>3, <2>1 DEF KeyExpiresSometime
  <2>4. QED
    BY <2>2, <2>3
<1>7. ASSUME ~Disturbed', ~Repeats'
      PROVE  ForgetInv'
  <2>1. \A t \in Submits : at[t] \notin {"NEW", "REFUSED"} => at'[t] \notin {"NEW", "REFUSED"}
    BY <1>1
  <2>2. ForgetInv
    BY <1>3, <1>7, <2>1, RepeatsStay DEF LongInv
  <2>3. \A t \in Submits : at'[t] # "REFUSED" => at[t] # "REFUSED" /\ (InHand(t) => InHand(t)')
    BY <1>1, <1>2, <1>3, InHandIs, InHandNext
  <2>4. QED
    BY <1>2, <1>3, <2>2, <2>3, QuietForget DEF ForgetInv
<1>8. QED
  BY <1>1, <1>5, <1>6, <1>7 DEF LongInv

(* The key expires: what it had has a verdict.                             *)
LEMMA ExpiresKeeps ==
    ASSUME LongInv, KeyExpires
    PROVE  LongInv'
<1>1. /\ hash.ttl # Nobody /\ at[hash.ttl] \notin {"WAIT", "LATE"}
      /\ \A n \in Nodes : cmdQ[n] = <<>>
      /\ \A s \in Submits : at[s] = "RETRY" => Fields(hash) # Total
      /\ hash' = NoHash /\ UNCHANGED <<message, node, at, cmdQ, faults, log>>
  BY DEF KeyExpires
<1>2. Shape /\ TypeInv /\ QueueInv /\ StageInv
  BY DEF LongInv, Shape
<1>3. NoHash \in HashType /\ Stored(NoHash) = {} /\ Fields(NoHash) = 0 /\ NoHash.count = 0 /\ NoHash.ttl = Nobody
  BY <1>2, NoneStored DEF NoHash
<1>4. Total' = Total /\ Stored(hash)' = {} /\ Fields(hash)' = 0
  BY <1>1, <1>3 DEF Total, Stored, Fields
<1>5. \A op, s : ~Has(op, s)
  <2>1. \A n \in Nodes : DOMAIN cmdQ[n] = {}
    BY <1>1
  <2>2. QED
    BY <2>1 DEF Has
<1>6. \A op, s : ~Has(op, s)'
  BY <1>1, <1>5 DEF Has
<1>7. Shape'
  <2>1. TypeInv'
    BY <1>1, <1>2, <1>3, TypeNext DEF TypeInv
  <2>2. CountInv'
    <3>1. CountedSet' = CountedSet
      BY <1>1 DEF CountedSet
    <3>2. hash'.count <= hash.count + (faults' - faults)
      BY <1>1, <1>2, <1>3, LongAssumption DEF TypeInv, HashType
    <3>3. QED
      BY <1>2, <2>1, <3>1, <3>2, CountNext DEF Shape, LongInv
  <2>3. QueueInv'
    BY <1>1, <1>2 DEF QueueInv, QPlaced, QOnce, QOrder
  <2>4. StageInv'
    BY <1>1, <1>2, <1>4, <1>5, <1>6 DEF StageInv, StageOK
  <2>5. HashInv'
    <3>1. \A k \in 1 .. Total : NoHash.short[k] = Nobody
      BY DEF NoHash
    <3>2. QED
      BY <1>1, <1>4, <3>1 DEF HashInv
  <2>6. QED
    BY <2>1, <2>2, <2>3, <2>4, <2>5 DEF Shape
<1>8. /\ Posted = {} /\ Posted' = {} /\ Reading' = Reading /\ Timed' = Timed
      /\ ~Pending("DEL") /\ ~Pending("DEL")'
  <2>1. ~Pending("DEL")
    BY <1>2, <1>5, Pendings
  <2>2. Pending("DEL")' <=> Pending("DEL")
    BY <1>1 DEF Pending
  <2>3. QED
    BY <1>1, <1>5, <1>6, <2>1, <2>2 DEF Posted, Reading, Timed
<1>9. Disturbed' <=> Disturbed
  BY <1>1 DEF Disturbed
<1>10. MergedWhole'
  BY <1>1, <1>9, MergedSame DEF LongInv
<1>11. \A t : Ended(t)' <=> Ended(t)
  BY <1>1, EndedSame
<1>12. Total \in Nat \ {0, 1} /\ hash.count \in Nat
  BY <1>2, Totals DEF TypeInv, HashType
<1>13. ASSUME ~Disturbed'
       PROVE  RoundInv' /\ VerdictInv' /\ KeyExpiresSometime'
  <2>1. RoundInv /\ VerdictInv
    BY <1>9, <1>13 DEF LongInv
  <2>2. RoundInv'
    BY <1>1, <1>3, <1>4, <1>8, <1>12, <2>1 DEF RoundInv, AtMostOne
  <2>3. VerdictInv'
    BY <1>1, <1>4, <1>8, <1>11, <2>1 DEF VerdictInv
  <2>4. KeyExpiresSometime'
    BY <1>4 DEF KeyExpiresSometime
  <2>5. QED
    BY <2>2, <2>3, <2>4
<1>14. ASSUME ~Disturbed', ~Repeats'
       PROVE  ForgetInv'
  <2>1. RoundInv /\ ForgetInv
    BY <1>1, <1>9, <1>14 DEF LongInv, Repeats
  <2>2. hash.count = Total
    <3>1. hash.ttl \in Submits
      BY <1>1, <1>2 DEF TypeInv, HashType
    <3>2. hash.ttl \notin Timed
      BY <1>1 DEF Timed
    <3>3. QED
      BY <1>1, <1>8, <2>1, <3>2 DEF ForgetInv
  <2>3. Reading = {}
    <3> SUFFICES ASSUME NEW r \in Reading
                 PROVE  FALSE
      OBVIOUS
    <3>1. at[r] = "RETRY" /\ r \in Submits /\ r \notin Stored(hash)
      BY <1>2, <1>5 DEF Reading, StageInv, StageOK, Parted
    <3>2. Reading = {r}
      BY <2>1 DEF RoundInv, AtMostOne
    <3>3. Round = Stored(hash) \cup {r}
      BY <1>8, <3>2 DEF Round
    <3>4. Cardinality(Round) = hash.count
      BY <1>8, <1>12, <2>1, <2>2, <3>2 DEF ForgetInv
    <3>5. IsFiniteSet(Stored(hash)) /\ Cardinality(Stored(hash)) \in Nat
      BY <1>2, StoredIn
    <3>6. Cardinality(Stored(hash) \cup {r}) = Cardinality(Stored(hash)) + 1
      BY <3>1, <3>5, FS_AddElement
    <3>7. Fields(hash) = Cardinality(Stored(hash)) + 1
      BY <1>2, <1>12, <2>2, FieldsAre
    <3>8. QED
      BY <1>1, <2>2, <3>1, <3>3, <3>4, <3>6, <3>7
  <2>4. \A s \in Stored(hash) : Ended(s)
    BY <2>1, <2>2, <2>3 DEF ForgetInv
  <2>5. \A s \in Submits : at'[s] # "REFUSED" => Ended(s)' \/ InHand(s)'
    <3>1. \A s \in Submits : InHand(s) <=> at[s] \in {"NEW", "COUNT", "READ", "RETRY"}
                                           \/ s \in Stored(hash) \/ s \in Posted
      BY <1>2, InHandIs
    <3>2. \A s \in Submits : InHand(s)' <=> at'[s] \in {"NEW", "COUNT", "READ", "RETRY"}
                                            \/ s \in Stored(hash)' \/ s \in Posted'
      BY <1>7, InHandNext DEF Shape
    <3>3. \A s \in Submits : at[s] # "REFUSED" => Ended(s) \/ InHand(s)
      BY <2>1 DEF ForgetInv
    <3>4. QED
      BY <1>1, <1>8, <1>11, <2>4, <3>1, <3>2, <3>3
  <2>6. hash'.count = 0 /\ hash'.ttl = Nobody
    BY <1>1, <1>3
  <2>7. QED
    BY <1>4, <1>8, <1>12, <2>3, <2>5, <2>6 DEF ForgetInv
<1>15. QED
  BY <1>7, <1>10, <1>13, <1>14 DEF LongInv

(* HMSET of s: its content takes the place of what was there.              *)
LEMMA StoredAdds ==
    ASSUME TypeInv, NEW s \in Submits, hash' = [hash EXCEPT !.short[message.pk[s]] = s], message' = message
    PROVE  /\ hash' \in HashType /\ hash'.count = hash.count /\ hash'.ttl = hash.ttl
           /\ HashInv => HashInv'
           /\ s \in Stored(hash)' /\ Stored(hash)' \subseteq Stored(hash) \cup {s}
           /\ \A t \in Stored(hash) : t \in Stored(hash)' \/ t = hash.short[message.pk[s]]
<1> DEFINE k == message.pk[s]
<1>1. k \in 1 .. Total /\ Total' = Total
  BY Totals, TotalSame
<1>2. hash \in HashType /\ hash.short \in [1 .. Total -> Submits \cup {Nobody}]
  BY DEF TypeInv, HashType
<1>3. hash' = [hash EXCEPT !.short[k] = s]
  OBVIOUS
<1> HIDE DEF k
<1>a. [hash.short EXCEPT ![k] = s] \in [1 .. Total -> Submits \cup {Nobody}]
  BY <1>1, <1>2
<1> DEFINE f == [hash.short EXCEPT ![k] = s]
<1>b. hash' = [hash EXCEPT !.short = f]
  BY <1>2, <1>3 DEF HashType
<1>c. f \in [1 .. Total -> Submits \cup {Nobody}] /\ f = [hash.short EXCEPT ![k] = s]
  BY <1>a
<1> HIDE DEF f
<1>d. /\ hash'.count = hash.count /\ hash'.ttl = hash.ttl /\ hash'.short = f
      /\ hash' \in HashType
  BY <1>2, <1>b, <1>c DEF HashType
<1>4. /\ hash'.count = hash.count /\ hash'.ttl = hash.ttl
      /\ hash'.short = [hash.short EXCEPT ![k] = s]
      /\ hash' \in HashType
  BY <1>c, <1>d
<1>5. /\ hash'.short[k] = s /\ \A j \in 1 .. Total : j # k => hash'.short[j] = hash.short[j]
  BY <1>1, <1>2, <1>4
<1>6. s # Nobody
  BY LongAssumption
<1>7. s \in Stored(hash)' /\ Stored(hash)' \subseteq Stored(hash) \cup {s}
  BY <1>1, <1>5, <1>6 DEF Stored
<1>8. \A t \in Stored(hash) : t \in Stored(hash)' \/ t = hash.short[k]
  BY <1>1, <1>5 DEF Stored
<1>9. HashInv => HashInv'
  <2>1. message.pk[s] = k
    BY DEF k
  <2>2. QED
    BY <1>1, <1>5, <2>1 DEF HashInv
<1>10. QED
  BY <1>4, <1>7, <1>8, <1>9 DEF k

LEMMA StoreKeeps ==
    ASSUME LongInv, NEW n \in Nodes, cmdQ[n] # <<>>, NEW s \in Submits,
           Head(cmdQ[n]).op = "HMSET", Head(cmdQ[n]).sms = s,
           hash' = [hash EXCEPT !.short[message.pk[s]] = s],
           log' = [log EXCEPT !.crossed = @ \/ Pending("DEL")],
           Then(n, Tail(cmdQ[n]), <<>>), UNCHANGED <<message, node, at, faults>>
    PROVE  LongInv'
<1>1. Shape /\ TypeInv /\ StageInv /\ HashInv
  BY DEF LongInv, Shape
<1>2. /\ hash' \in HashType /\ hash'.count = hash.count /\ hash'.ttl = hash.ttl
      /\ HashInv'
      /\ s \in Stored(hash)' /\ Stored(hash)' \subseteq Stored(hash) \cup {s}
      /\ \A t \in Stored(hash) : t \in Stored(hash)' \/ t = hash.short[message.pk[s]]
  BY <1>1, StoredAdds
<1>3. /\ Total \in Nat \ {0, 1} /\ Total' = Total /\ hash.count \in Nat /\ message.pk[s] \in 1 .. Total
      /\ faults \in Int /\ faults \in 0 .. MaxFaults /\ at \in [Submits -> Waits] /\ log \in LogType
  BY <1>1, Totals, TotalSame, LongAssumption DEF TypeInv, HashType
<1>4. /\ log'.failed = log.failed /\ log'.merged = log.merged /\ (log'.crossed <=> log.crossed \/ Pending("DEL"))
      /\ log' \in LogType
  BY <1>3 DEF LogType, Pending
<1>5. /\ Shape'
      /\ \A t \in Submits \ {s} : at'[t] = at[t] /\ \A op : Has(op, t)' <=> Has(op, t)
      /\ \A op : Has(op, s)' <=> Has(op, s) /\ op # "HMSET"
  <2>2. hash'.count <= hash.count /\ faults' = faults /\ at' = at
    BY <1>2, <1>3
  <2>a. /\ "HMSET" \in {"HMSET", "EXPIRE", "DEL"}
        /\ message' = message /\ node' = node /\ hash' \in HashType /\ log' \in LogType /\ HashInv'
        /\ \A t \in Stored(hash)' : t \in Stored(hash) \/ (t = s /\ "HMSET" = "HMSET")
    BY <1>1, <1>2, <1>4
  <2>3. QED
    BY <1>1, <2>2, <2>a, DoneOnly
<1>6. Has("HMSET", s) /\ s \in Posted /\ s \notin Stored(hash) /\ at[s] \in Parted
  BY <1>1, HeadCmd DEF Shape, StageInv, StageOK, Posted
<1>7. /\ Posted' = Posted \ {s} /\ Reading' = Reading /\ Timed' = Timed
      /\ \A op \in {"DEL", "EXPIRE"} : Pending(op)' <=> Pending(op)
  <2>1. /\ Posted' = (Posted \ {s}) \cup (IF Has("HMSET", s)' THEN {s} ELSE {})
        /\ \A op \in Ops : Pending(op)' <=> Has(op, s)' \/ \E t \in Submits \ {s} : Has(op, t)
        /\ \A op \in Ops : Pending(op) <=> Has(op, s) \/ \E t \in Submits \ {s} : Has(op, t)
    BY <1>1, <1>5, SetsNext DEF Shape
  <2>2. Reading' = Reading /\ Timed' = Timed
    BY DEF Reading, Timed
  <2>3. QED
    BY <1>5, <2>1, <2>2 DEF Ops
<1>8. Disturbed' <=> Disturbed \/ Pending("DEL")
  BY <1>4 DEF Disturbed
<1>9. MergedWhole'
  BY <1>4, <1>8, MergedSame DEF LongInv
<1>10. \A t : Ended(t)' <=> Ended(t)
  BY <1>4, EndedSame
<1>11. Round' \subseteq Round
  BY <1>2, <1>6, <1>7 DEF Round
<1>12. ASSUME ~Disturbed'
       PROVE  RoundInv' /\ VerdictInv' /\ KeyExpiresSometime'
  <2>1. RoundInv /\ VerdictInv /\ KeyExpiresSometime /\ ~Pending("DEL")
    BY <1>8, <1>12 DEF LongInv
  <2>2. hash.count > 0
    BY <1>3, <1>6, <2>1 DEF RoundInv
  <2>3. Cardinality(Round') <= Cardinality(Round) /\ Cardinality(Round') \in Nat /\ Cardinality(Round) \in Nat
    BY <1>1, <1>11, RoundFinite
  <2>4. RoundInv'
    <3>1. Cardinality(Round') <= hash.count
      BY <1>3, <2>1, <2>2, <2>3 DEF RoundInv
    <3>2. QED
      BY <1>2, <1>3, <1>7, <2>1, <2>2, <3>1 DEF RoundInv, AtMostOne
  <2>5. ~Ended(s)
    BY <1>6, <2>1 DEF VerdictInv
  <2>6. (\E t \in Stored(hash)' : Ended(t)') => (\E t \in Stored(hash) : Ended(t))
    BY <1>2, <1>10, <2>5
  <2>7. VerdictInv'
    BY <1>2, <1>3, <1>4, <1>7, <1>10, <2>1, <2>6 DEF VerdictInv
  <2>8. Fields(hash) > 0
    <3>1. Cardinality(Stored(hash)) \in Nat
      BY <1>1, StoredIn
    <3>2. QED
      BY <1>1, <2>2, <3>1, FieldsAre
  <2>9. KeyExpiresSometime'
    BY <1>2, <1>7, <1>8, <1>12, <2>1, <2>8 DEF KeyExpiresSometime
  <2>10. QED
    BY <2>4, <2>7, <2>9
<1>13. ASSUME ~Disturbed', ~Repeats'
       PROVE  ForgetInv'
  <2>1. RoundInv /\ ForgetInv /\ ~Pending("DEL") /\ ~Repeats
    BY <1>8, <1>13 DEF LongInv, Repeats
  <2>2. hash.short[message.pk[s]] = Nobody
    <3> SUFFICES ASSUME hash.short[message.pk[s]] # Nobody
                 PROVE  FALSE
      OBVIOUS
    <3> DEFINE t == hash.short[message.pk[s]]
    <3>1. t \in Submits /\ t \in Stored(hash)
      BY <1>1, <1>3 DEF TypeInv, HashType, Stored
    <3>2. message.pk[t] = message.pk[s]
      BY <1>1, <1>3 DEF HashInv
    <3> HIDE DEF t
    <3>3. at[t] \in Parted /\ t # s
      BY <1>1, <1>6, <3>1 DEF StageInv, StageOK
    <3>4. Repeats
      BY <1>6, <3>1, <3>2, <3>3 DEF Repeats, Parted
    <3>5. QED
      BY <2>1, <3>4
  <2>3. Stored(hash)' = Stored(hash) \cup {s}
    <3>1. Nobody \notin Stored(hash)
      BY DEF Stored
    <3>2. QED
      BY <1>2, <2>2, <3>1
  <2>4. Round' = Round
    BY <1>6, <1>7, <2>3 DEF Round
  <2>5. \A t \in Submits : at'[t] # "REFUSED" => Ended(t)' \/ InHand(t)'
    <3>1. \A t \in Submits : InHand(t) <=> at[t] \in {"NEW", "COUNT", "READ", "RETRY"}
                                           \/ t \in Stored(hash) \/ t \in Posted
      BY <1>1, InHandIs
    <3>2. \A t \in Submits : InHand(t)' <=> at'[t] \in {"NEW", "COUNT", "READ", "RETRY"}
                                            \/ t \in Stored(hash)' \/ t \in Posted'
      BY <1>5, InHandNext DEF Shape
    <3>3. \A t \in Submits : at[t] # "REFUSED" => Ended(t) \/ InHand(t)
      BY <2>1 DEF ForgetInv
    <3>4. QED
      BY <1>7, <1>10, <2>3, <3>1, <3>2, <3>3
  <2>6. ~(hash.count = Total /\ Reading = {})
    BY <1>6, <2>1 DEF ForgetInv
  <2>7. QED
    BY <1>2, <1>3, <1>7, <2>1, <2>4, <2>5, <2>6 DEF ForgetInv
<1>14. QED
  BY <1>5, <1>9, <1>12, <1>13 DEF LongInv

(* EXPIRE of s, which still has its timer.                                 *)
LEMMA ExpireKeeps ==
    ASSUME LongInv, NEW n \in Nodes, cmdQ[n] # <<>>, NEW s \in Submits,
           Head(cmdQ[n]).op = "EXPIRE", Head(cmdQ[n]).sms = s,
           hash' = IF Fields(hash) > 0 THEN [hash EXCEPT !.ttl = s] ELSE hash,
           log' = log, Then(n, Tail(cmdQ[n]), <<>>), UNCHANGED <<message, node, at, faults>>
    PROVE  LongInv'
<1>1. Shape /\ TypeInv /\ StageInv /\ HashInv
  BY DEF LongInv, Shape
<1>2. /\ Total' = Total /\ hash.count \in Nat
      /\ faults \in Int /\ faults \in 0 .. MaxFaults /\ at \in [Submits -> Waits] /\ log \in LogType /\ hash \in HashType
  BY <1>1, TotalSame, LongAssumption DEF TypeInv, HashType
<1>3. /\ hash' \in HashType /\ hash'.count = hash.count /\ hash'.short = hash.short
      /\ hash'.ttl = IF Fields(hash) > 0 THEN s ELSE hash.ttl
  BY <1>2 DEF HashType
<1>4. /\ Stored(hash)' = Stored(hash) /\ HashInv' /\ Fields(hash)' = Fields(hash)
  BY <1>1, <1>3, HashSame, FieldsSame
<1>5. /\ Shape'
      /\ \A t \in Submits \ {s} : at'[t] = at[t] /\ \A op : Has(op, t)' <=> Has(op, t)
      /\ \A op : Has(op, s)' <=> Has(op, s) /\ op # "EXPIRE"
  <2>2. hash'.count <= hash.count /\ faults' = faults /\ at' = at
    BY <1>2, <1>3
  <2>a. /\ "EXPIRE" \in {"HMSET", "EXPIRE", "DEL"}
        /\ message' = message /\ node' = node /\ hash' \in HashType /\ log' \in LogType /\ HashInv'
        /\ \A t \in Stored(hash)' : t \in Stored(hash) \/ (t = s /\ "EXPIRE" = "HMSET")
    BY <1>1, <1>2, <1>3, <1>4
  <2>3. QED
    BY <1>1, <2>2, <2>a, DoneOnly
<1>6. s \in Timed
  BY <1>1, HeadCmd DEF Shape, StageInv, StageOK, Timed
<1>7. /\ Posted' = Posted /\ Reading' = Reading /\ Timed' = Timed
      /\ Pending("DEL")' <=> Pending("DEL")
  <2>1. /\ Posted' = (Posted \ {s}) \cup (IF Has("HMSET", s)' THEN {s} ELSE {})
        /\ \A op \in Ops : Pending(op)' <=> Has(op, s)' \/ \E t \in Submits \ {s} : Has(op, t)
        /\ \A op \in Ops : Pending(op) <=> Has(op, s) \/ \E t \in Submits \ {s} : Has(op, t)
    BY <1>1, <1>5, SetsNext DEF Shape
  <2>2. Reading' = Reading /\ Timed' = Timed
    BY DEF Reading, Timed
  <2>3. Posted' = Posted
    BY <1>5, <2>1 DEF Posted
  <2>4. QED
    BY <1>5, <2>1, <2>2, <2>3 DEF Ops
<1>8. Disturbed' <=> Disturbed
  BY DEF Disturbed
<1>9. MergedWhole'
  BY <1>8, MergedSame DEF LongInv
<1>10. s # Nobody
  BY LongAssumption
<1>11. ASSUME ~Disturbed'
       PROVE  RoundInv' /\ VerdictInv' /\ KeyExpiresSometime'
  <2>1. RoundInv /\ VerdictInv
    BY <1>8, <1>11 DEF LongInv
  <2>2. RoundInv' /\ VerdictInv'
    BY <1>2, <1>3, <1>4, <1>7, <2>1, QuietRound
  <2>3. KeyExpiresSometime'
    BY <1>3, <1>4, <1>10 DEF KeyExpiresSometime
  <2>4. QED
    BY <2>2, <2>3
<1>12. ASSUME ~Disturbed', ~Repeats'
       PROVE  ForgetInv'
  <2>1. ForgetInv
    BY <1>8, <1>12 DEF LongInv, Repeats
  <2>2. \A t \in Submits : at'[t] # "REFUSED" => at[t] # "REFUSED" /\ (InHand(t) => InHand(t)')
    BY <1>1, <1>4, <1>5, <1>7, InHandIs, InHandNext DEF Shape
  <2>3. hash'.ttl # Nobody => hash'.ttl \in Timed' \/ Pending("DEL")' \/ hash'.count = Total
    BY <1>3, <1>6, <1>7, <2>1 DEF ForgetInv
  <2>4. QED
    BY <1>2, <1>3, <1>4, <1>7, <2>1, <2>2, <2>3, QuietForget
<1>13. QED
  BY <1>5, <1>9, <1>11, <1>12 DEF LongInv

(* DEL: nothing is left, and nothing was on its way.                       *)
LEMMA DeleteKeeps ==
    ASSUME LongInv, NEW n \in Nodes, cmdQ[n] # <<>>, NEW s \in Submits,
           Head(cmdQ[n]).op = "DEL", Head(cmdQ[n]).sms = s, hash' = NoHash,
           log' = log, Then(n, Tail(cmdQ[n]), <<>>), UNCHANGED <<message, node, at, faults>>
    PROVE  LongInv'
<1>1. Shape /\ TypeInv
  BY DEF LongInv, Shape
<1>2. /\ Total' = Total /\ hash.count \in Nat /\ Total \in Nat \ {0, 1}
      /\ faults \in Int /\ faults \in 0 .. MaxFaults /\ at \in [Submits -> Waits] /\ log \in LogType
  BY <1>1, Totals, TotalSame, LongAssumption DEF TypeInv, HashType
<1>3. NoHash \in HashType /\ Stored(NoHash) = {} /\ Fields(NoHash) = 0 /\ NoHash.count = 0 /\ NoHash.ttl = Nobody
  BY <1>1, NoneStored DEF NoHash
<1>4. Stored(hash)' = {} /\ Fields(hash)' = 0
  BY <1>2, <1>3 DEF Stored, Fields
<1>5. HashInv'
  <2>1. \A k \in 1 .. Total : NoHash.short[k] = Nobody
    BY DEF NoHash
  <2>2. QED
    BY <1>2, <2>1 DEF HashInv
<1>6. /\ Shape'
      /\ \A t \in Submits \ {s} : at'[t] = at[t] /\ \A op : Has(op, t)' <=> Has(op, t)
      /\ \A op : Has(op, s)' <=> Has(op, s) /\ op # "DEL"
  <2>2. hash'.count <= hash.count /\ faults' = faults /\ at' = at
    BY <1>2, <1>3
  <2>a. /\ "DEL" \in {"HMSET", "EXPIRE", "DEL"}
        /\ message' = message /\ node' = node /\ hash' \in HashType /\ log' \in LogType /\ HashInv'
        /\ \A t \in Stored(hash)' : t \in Stored(hash) \/ (t = s /\ "DEL" = "HMSET")
    BY <1>1, <1>2, <1>3, <1>4, <1>5
  <2>3. QED
    BY <1>1, <2>2, <2>a, DoneOnly
<1>7. Pending("DEL") /\ (Posted' = Posted) /\ Reading' = Reading /\ Timed' = Timed
  <2>1. /\ Posted' = (Posted \ {s}) \cup (IF Has("HMSET", s)' THEN {s} ELSE {})
        /\ \A op \in Ops : Pending(op) <=> Has(op, s) \/ \E t \in Submits \ {s} : Has(op, t)
    BY <1>1, <1>6, SetsNext DEF Shape
  <2>2. Has("DEL", s)
    BY <1>1, HeadCmd DEF Shape
  <2>3. Reading' = Reading /\ Timed' = Timed
    BY DEF Reading, Timed
  <2>4. Posted' = Posted
    BY <1>6, <2>1 DEF Posted
  <2>5. QED
    BY <2>1, <2>2, <2>3, <2>4 DEF Ops
<1>8. Disturbed' <=> Disturbed
  BY DEF Disturbed
<1>9. MergedWhole'
  BY <1>8, MergedSame DEF LongInv
<1>10. \A t : Ended(t)' <=> Ended(t)
  BY EndedSame
<1>11. ASSUME ~Disturbed'
       PROVE  RoundInv' /\ VerdictInv' /\ KeyExpiresSometime'
  <2>1. RoundInv /\ VerdictInv
    BY <1>8, <1>11 DEF LongInv
  <2>2. RoundInv'
    BY <1>2, <1>3, <1>4, <1>7, <2>1 DEF RoundInv, AtMostOne
  <2>3. VerdictInv'
    BY <1>4, <1>7, <1>10, <2>1 DEF VerdictInv
  <2>4. KeyExpiresSometime'
    BY <1>4 DEF KeyExpiresSometime
  <2>5. QED
    BY <2>2, <2>3, <2>4
<1>12. ASSUME ~Disturbed', ~Repeats'
       PROVE  ForgetInv'
  <2>1. ForgetInv /\ RoundInv
    BY <1>8, <1>12 DEF LongInv, Repeats
  <2>2. Reading = {}
    BY <1>2, <1>7, <2>1 DEF ForgetInv, RoundInv
  <2>3. \A t \in Submits : at'[t] # "REFUSED" => Ended(t)' \/ InHand(t)'
    <3>1. \A t \in Submits : InHand(t) <=> at[t] \in {"NEW", "COUNT", "READ", "RETRY"}
                                           \/ t \in Stored(hash) \/ t \in Posted
      BY <1>1, InHandIs
    <3>2. \A t \in Submits : InHand(t)' <=> at'[t] \in {"NEW", "COUNT", "READ", "RETRY"}
                                            \/ t \in Stored(hash)' \/ t \in Posted'
      BY <1>6, InHandNext DEF Shape
    <3>3. /\ \A t \in Submits : at[t] # "REFUSED" => Ended(t) \/ InHand(t)
          /\ \A t \in Stored(hash) : Ended(t)
      BY <1>7, <2>1 DEF ForgetInv
    <3>4. QED
      BY <1>7, <1>10, <3>1, <3>2, <3>3
  <2>4. hash'.count = 0 /\ hash'.ttl = Nobody
    BY <1>3
  <2>5. QED
    BY <1>2, <1>4, <1>7, <2>2, <2>3, <2>4 DEF ForgetInv
<1>13. QED
  BY <1>6, <1>9, <1>11, <1>12 DEF LongInv

(* HINCRBY: s joins the round.                                             *)
LEMMA CountKeeps ==
    ASSUME LongInv, NEW n \in Nodes, cmdQ[n] # <<>>, NEW s \in Submits,
           Head(cmdQ[n]).op = "HINCRBY", Head(cmdQ[n]).sms = s,
           RspCount(n, s, Tail(cmdQ[n]), Counted(hash)), message' = message, node' = node, faults' = faults
    PROVE  LongInv'
<1>1. Shape /\ TypeInv
  BY DEF LongInv, Shape
<1>2. /\ Total \in Nat \ {0, 1} /\ Total' = Total /\ hash.count \in Nat
      /\ faults \in Int /\ faults \in 0 .. MaxFaults /\ log \in LogType
  BY <1>1, Totals, TotalSame, LongAssumption DEF TypeInv, HashType
<1>3. /\ Shape' /\ at[s] = "COUNT"
      /\ hash'.count = hash.count + 1 /\ hash'.short = hash.short /\ hash'.ttl = hash.ttl
      /\ \A t \in Submits \ {s} : at'[t] = at[t] /\ \A op : Has(op, t)' <=> Has(op, t)
      /\ ~Has("HINCRBY", s)' /\ ~Has("DEL", s)' /\ ~Has("DEL", s)
      /\ \/ hash'.count = Total /\ at'[s] = "READ" /\ ~Has("HMSET", s)' /\ ~Has("EXPIRE", s)'
         \/ /\ hash'.count # Total /\ at'[s] = (IF hash'.count = 1 THEN "WAIT" ELSE "GONE")
            /\ Has("HMSET", s)' /\ (Has("EXPIRE", s)' <=> hash'.count = 1)
  <2>1. PICK x \in {1, 2} : x = 1
    OBVIOUS
  <2>2. PICK h : h = Counted(hash)
    OBVIOUS
  <2>3. /\ h = (IF x = 1 THEN Counted(hash) ELSE Counted(Counted(hash)))
        /\ RspCount(n, s, Tail(cmdQ[n]), h) /\ UNCHANGED <<message, node>>
        /\ faults' = faults + (x - 1) /\ faults' \in 0 .. MaxFaults
    BY <1>2, <2>1, <2>2
  <2>4. /\ Shape' /\ at[s] = "COUNT"
        /\ hash'.count = hash.count + x /\ hash'.short = hash.short /\ hash'.ttl = hash.ttl
        /\ \A t \in Submits \ {s} : at'[t] = at[t] /\ \A op : Has(op, t)' <=> Has(op, t)
        /\ ~Has("HINCRBY", s)' /\ ~Has("DEL", s)' /\ ~Has("DEL", s)
        /\ \/ hash'.count = Total /\ at'[s] = "READ" /\ ~Has("HMSET", s)' /\ ~Has("EXPIRE", s)'
           \/ /\ hash'.count # Total /\ at'[s] = (IF hash'.count = 1 THEN "WAIT" ELSE "GONE")
              /\ Has("HMSET", s)' /\ (Has("EXPIRE", s)' <=> hash'.count = 1)
    BY <1>1, <2>3, CountShape
  <2>5. QED
    BY <2>1, <2>4
<1>4. /\ log'.failed = log.failed /\ log'.merged = log.merged
      /\ log'.crossed <=> log.crossed \/ hash'.count > Total \/ Pending("DEL") \/ (hash'.count = 1 /\ EarlierRound)
  BY <1>2 DEF RspCount, LogType, Pending, EarlierRound
<1>5. /\ ~Has("HMSET", s) /\ ~Has("EXPIRE", s) /\ s \notin Stored(hash) /\ s \notin Posted /\ s \notin Reading
      /\ s \notin Timed
  BY <1>1, <1>3 DEF Shape, StageInv, StageOK, Parted, Posted, Reading, Timed
<1>6. /\ Posted' = Posted \cup (IF Has("HMSET", s)' THEN {s} ELSE {})
      /\ Reading' = Reading \cup (IF at'[s] = "READ" THEN {s} ELSE {})
      /\ Timed' = Timed \cup (IF at'[s] = "WAIT" THEN {s} ELSE {})
      /\ Pending("DEL")' <=> Pending("DEL")
      /\ Pending("EXPIRE") \/ Has("EXPIRE", s)' => Pending("EXPIRE")'
  <2>1. /\ Posted' = (Posted \ {s}) \cup (IF Has("HMSET", s)' THEN {s} ELSE {})
        /\ Reading' = (Reading \ {s}) \cup (IF at'[s] \in {"READ", "RETRY"} THEN {s} ELSE {})
        /\ Timed' = (Timed \ {s}) \cup (IF at'[s] \in {"WAIT", "LATE"} THEN {s} ELSE {})
        /\ \A op \in Ops : Pending(op)' <=> Has(op, s)' \/ \E t \in Submits \ {s} : Has(op, t)
        /\ \A op \in Ops : Pending(op) <=> Has(op, s) \/ \E t \in Submits \ {s} : Has(op, t)
    BY <1>1, <1>3, SetsNext DEF Shape
  <2>2. at'[s] \in {"READ", "WAIT", "GONE"}
    BY <1>3
  <2>3. Pending("DEL")' <=> Pending("DEL")
    BY <1>3, <2>1 DEF Ops
  <2>4. Pending("EXPIRE") \/ Has("EXPIRE", s)' => Pending("EXPIRE")'
    BY <1>5, <2>1 DEF Ops
  <2>5. QED
    BY <1>5, <2>1, <2>2, <2>3, <2>4
<1>7. Stored(hash)' = Stored(hash)
  BY <1>3, HashSame
<1>8. Disturbed => Disturbed'
  BY <1>4 DEF Disturbed
<1>9. MergedWhole'
  BY <1>4, <1>8, MergedSame DEF LongInv
<1>10. \A t : Ended(t)' <=> Ended(t)
  BY <1>4, EndedSame
<1>11. Round' = Round \cup {s} /\ s \notin Round
  BY <1>3, <1>5, <1>6, <1>7 DEF Round
<1>12. /\ Cardinality(Round') = Cardinality(Round) + 1 /\ Cardinality(Round) \in Nat
       /\ (Round = {} => Cardinality(Round) = 0)
  BY <1>1, <1>11, RoundFinite, FS_AddElement, FS_EmptySet
<1>13. at'[s] \in Parted \/ at'[s] = "READ"
  BY <1>3 DEF Parted
<1>14. ASSUME ~Disturbed'
       PROVE  /\ RoundInv /\ VerdictInv /\ KeyExpiresSometime /\ ~Pending("DEL") /\ ~Disturbed
              /\ hash'.count <= Total /\ Reading = {} /\ (hash'.count = 1 => Timed = {} /\ Round = {})
              /\ ~\E t \in Stored(hash) : Ended(t)
  <2>1. RoundInv /\ VerdictInv /\ KeyExpiresSometime /\ ~Disturbed
    BY <1>8, <1>14 DEF LongInv
  <2>2. ~Pending("DEL") /\ hash'.count <= Total /\ (hash'.count = 1 => ~EarlierRound)
    BY <1>2, <1>3, <1>4, <1>14 DEF Disturbed
  <2>3. hash'.count = 1 => Timed = {} /\ Reading = {}
    BY <2>2 DEF EarlierRound, Timed, Reading
  <2>4. Reading = {}
    BY <1>2, <1>3, <2>1, <2>2, <2>3 DEF RoundInv
  <2>5. hash'.count = 1 => Round = {}
    BY <1>2, <1>3, <2>1, <2>4 DEF RoundInv, Round
  <2>6. ~\E t \in Stored(hash) : Ended(t)
    BY <1>2, <1>3, <2>1, <2>2 DEF VerdictInv
  <2>7. QED
    BY <2>1, <2>2, <2>3, <2>4, <2>5, <2>6
<1>15. ASSUME ~Disturbed'
       PROVE  RoundInv' /\ VerdictInv' /\ KeyExpiresSometime'
  <2> /\ RoundInv /\ VerdictInv /\ KeyExpiresSometime /\ ~Pending("DEL") /\ ~Disturbed
      /\ hash'.count <= Total /\ Reading = {} /\ (hash'.count = 1 => Timed = {} /\ Round = {})
      /\ ~\E t \in Stored(hash) : Ended(t)
    BY <1>14, <1>15
  <2>1. RoundInv'
    <3>1. hash'.count > 0 /\ hash'.count <= Total' /\ hash'.count # 0
      BY <1>2, <1>3
    <3>2. Cardinality(Round') <= hash'.count
      BY <1>2, <1>3, <1>12 DEF RoundInv
    <3>3. Reading' # {} => hash'.count \in {0, Total'}
      BY <1>2, <1>3, <1>6
    <3>4. AtMostOne(Reading)' /\ AtMostOne(Timed)'
      BY <1>3, <1>6 DEF RoundInv, AtMostOne
    <3>5. ~Pending("DEL")'
      BY <1>6
    <3>6. QED
      BY <3>1, <3>2, <3>3, <3>4, <3>5 DEF RoundInv
  <2>2. VerdictInv'
    <3>1. ~Ended(s)
      BY <1>3 DEF VerdictInv, Parted
    <3>2. \A t \in Submits : Ended(t)' => t \notin Posted' /\ at'[t] \in Parted
      BY <1>3, <1>6, <1>10, <3>1 DEF VerdictInv
    <3>3. ~\E t \in Stored(hash)' : Ended(t)'
      BY <1>7, <1>10
    <3>4. QED
      BY <1>4, <3>2, <3>3 DEF VerdictInv
  <2>3. KeyExpiresSometime'
    <3>1. CASE hash'.count = 1
      <4>1. hash'.count # Total
        BY <1>2, <3>1
      <4>2. Has("EXPIRE", s)'
        BY <1>3, <3>1, <4>1
      <4>3. QED
        BY <1>6, <4>2 DEF KeyExpiresSometime
    <3>2. CASE hash'.count # 1
      <4>1. hash.count > 0
        BY <1>2, <1>3, <3>2
      <4>2. Fields(hash) > 0
        <5>1. Cardinality(Stored(hash)) \in Nat
          BY <1>1, StoredIn
        <5>2. QED
          BY <1>1, <1>2, <4>1, <5>1, FieldsAre
      <4>3. hash.ttl = Nobody => Pending("EXPIRE")
        BY <4>2 DEF KeyExpiresSometime
      <4>4. QED
        BY <1>3, <1>6, <4>3 DEF KeyExpiresSometime
    <3>3. QED
      BY <3>1, <3>2
  <2>4. QED
    BY <2>1, <2>2, <2>3
<1>16. ASSUME ~Disturbed', ~Repeats'
       PROVE  ForgetInv'
  <2> /\ RoundInv /\ VerdictInv /\ ~Pending("DEL") /\ ~Disturbed
      /\ hash'.count <= Total /\ Reading = {} /\ (hash'.count = 1 => Timed = {} /\ Round = {})
    BY <1>14, <1>16
  <2>1. \A t \in Submits : at[t] \notin {"NEW", "REFUSED"} => at'[t] \notin {"NEW", "REFUSED"}
    BY <1>3
  <2>2. ForgetInv
    BY <1>16, <2>1, RepeatsStay DEF LongInv
  <2>3. \A t \in Submits : at'[t] # "REFUSED" => Ended(t)' \/ InHand(t)'
    <3>1. \A t \in Submits : InHand(t) <=> at[t] \in {"NEW", "COUNT", "READ", "RETRY"}
                                           \/ t \in Stored(hash) \/ t \in Posted
      BY <1>1, InHandIs
    <3>2. \A t \in Submits : InHand(t)' <=> at'[t] \in {"NEW", "COUNT", "READ", "RETRY"}
                                            \/ t \in Stored(hash)' \/ t \in Posted'
      BY <1>3, InHandNext DEF Shape
    <3>3. \A t \in Submits : at[t] # "REFUSED" => Ended(t) \/ InHand(t)
      BY <2>2 DEF ForgetInv
    <3>4. at'[s] = "READ" \/ s \in Posted'
      BY <1>3, <1>6
    <3>5. \A t \in Submits \ {s} : at'[t] # "REFUSED" => Ended(t)' \/ InHand(t)'
      BY <1>3, <1>6, <1>7, <1>10, <3>1, <3>2, <3>3
    <3>6. QED
      BY <3>2, <3>4, <3>5
  <2>4. hash.count # Total /\ hash'.count > 0
    BY <1>2, <1>3
  <2>5. Cardinality(Round') = hash'.count
    BY <1>2, <1>3, <1>12, <2>2, <2>4 DEF ForgetInv
  <2>6. /\ Reading' # {} => hash'.count = Total'
        /\ ~(hash'.count = Total' /\ Reading' = {})
    BY <1>2, <1>3, <1>6
  <2>7. hash'.ttl # Nobody => hash'.ttl \in Timed' \/ hash'.count = Total'
    BY <1>3, <1>6, <2>2, <2>4 DEF ForgetInv
  <2>8. QED
    BY <1>6, <2>3, <2>5, <2>6, <2>7 DEF ForgetInv
<1>17. QED
  BY <1>3, <1>9, <1>15, <1>16 DEF LongInv

\* One more report of each of S.
LEMMA ReportedIs ==
    ASSUME TypeInv, NEW S \in SUBSET Submits
    PROVE  /\ Reported(S) \in [Submits -> Nat]
           /\ \A t \in Submits : Reported(S)[t] = log.failed[t] + IF t \in S THEN 1 ELSE 0
BY DEF TypeInv, LogType, Reported

(* The last part has read the hash.                                        *)
LEMMA ReadKeeps ==
    ASSUME LongInv, NEW n \in Nodes, cmdQ[n] # <<>>, NEW s \in Submits,
           Head(cmdQ[n]).op = "HGETALL", Head(cmdQ[n]).sms = s, at[s] = "READ",
           RspGetShorts(n, s, Tail(cmdQ[n])),
           message' = message, node' = node, hash' = hash, faults' = faults
    PROVE  LongInv'
<1> DEFINE all == Stored(hash) \cup {s}
           Full == Fields(hash) = Total
<1>1. Shape /\ TypeInv
  BY DEF LongInv, Shape
<1>2. /\ Total \in Nat \ {0, 1} /\ Total' = Total /\ hash.count \in Nat
      /\ faults \in Int /\ faults \in 0 .. MaxFaults /\ log \in LogType /\ at \in [Submits -> Waits]
      /\ log.failed \in [Submits -> Nat]
  BY <1>1, Totals, TotalSame, LongAssumption DEF TypeInv, HashType, LogType
<1>3. /\ Stored(hash) \subseteq Submits /\ IsFiniteSet(Stored(hash)) /\ Cardinality(Stored(hash)) \in Nat
      /\ Fields(hash) = Cardinality(Stored(hash)) + (IF hash.count > 0 THEN 1 ELSE 0)
  BY <1>1, StoredIn, FieldsAre
<1>4. /\ s \notin Stored(hash) /\ s \in Reading /\ all \subseteq Submits /\ s \in all
      /\ Cardinality(all) = Cardinality(Stored(hash)) + 1
  <2>1. s \notin Stored(hash) /\ s \in Reading
    BY <1>1 DEF Shape, StageInv, StageOK, Parted, Reading
  <2>2. QED
    BY <1>3, <2>1, FS_AddElement
\* The outcomes: an error, ask again, merged, reported.
<1>5. PICK w \in {"GONE", "KEPT", "RETRY"}, del \in BOOLEAN :
         /\ at' = [at EXCEPT ![s] = w] /\ (w = "RETRY" => at[s] = "READ" /\ ~del)
         /\ Then(n, Tail(cmdQ[n]), IF del THEN Delete(s) ELSE <<>>)
         /\ \/ GivenUp(Fields(hash)) /\ w = "GONE" /\ del /\ log' = log
            \/ w = "RETRY" /\ log' = log
            \/ Full /\ Whole(all) /\ w = "GONE" /\ del /\ log' = [log EXCEPT !.merged = @ \cup {all}]
            \/ Full /\ w = "KEPT" /\ ~del /\ log' = [log EXCEPT !.failed = Reported(all)]
  <2>1. CASE GivenUp(Fields(hash)) /\ at' = [at EXCEPT ![s] = "GONE"] /\ Then(n, Tail(cmdQ[n]), Delete(s)) /\ log' = log
    BY <2>1
  <2>2. CASE at' = [at EXCEPT ![s] = "RETRY"] /\ Then(n, Tail(cmdQ[n]), <<>>) /\ log' = log
    BY <2>2
  <2>3. CASE /\ Full /\ Whole(all) /\ at' = [at EXCEPT ![s] = "GONE"] /\ Then(n, Tail(cmdQ[n]), Delete(s))
             /\ log' = [log EXCEPT !.merged = @ \cup {all}]
    BY <2>3
  <2>4. CASE /\ Full /\ at' = [at EXCEPT ![s] = "KEPT"] /\ Then(n, Tail(cmdQ[n]), <<>>)
             /\ log' = [log EXCEPT !.failed = Reported(all)]
    BY <2>4
  <2>5. QED
    BY <2>1, <2>2, <2>3, <2>4 DEF RspGetShorts
<1>6. /\ Reported(all) \in [Submits -> Nat]
      /\ \A t \in Submits : Reported(all)[t] = log.failed[t] + IF t \in all THEN 1 ELSE 0
  BY <1>1, <1>4, ReportedIs
<1> HIDE DEF all, Full
<1>7. log' \in LogType /\ (log'.crossed <=> log.crossed)
  <2>1. CASE log' = log
    BY <1>2, <2>1
  <2>2. CASE log' = [log EXCEPT !.merged = @ \cup {all}]
    BY <1>2, <1>4, <2>2 DEF LogType
  <2>3. CASE log' = [log EXCEPT !.failed = Reported(all)]
    BY <1>2, <1>6, <2>3 DEF LogType
  <2>4. QED
    BY <1>5, <2>1, <2>2, <2>3
<1>8. /\ Shape' /\ at'[s] = w
      /\ \A t \in Submits \ {s} : at'[t] = at[t] /\ \A op : Has(op, t)' <=> Has(op, t)
      /\ \A op \in Ops \ {"HGETALL", "DEL"} : Has(op, s)' <=> Has(op, s)
      /\ ~Has("HGETALL", s)' /\ (Has("DEL", s)' <=> del)
      /\ ~Has("DEL", s) /\ ~Has("EXPIRE", s)
      /\ at[s] = "READ" => ~Has("HMSET", s)
  <2>1. at[s] \in {"READ", "LATE"} /\ faults' \in 0 .. MaxFaults /\ faults <= faults'
    BY <1>2
  <2>2. Shape' /\ Answered(s, w, del)
    BY <1>1, <1>5, <1>7, <2>1, AnswerShape
  <2>3. QED
    BY <2>2 DEF Answered
<1>9. /\ Posted' = Posted /\ s \notin Posted
      /\ Reading' = (Reading \ {s}) \cup (IF w = "RETRY" THEN {s} ELSE {})
      /\ Timed' = Timed
      /\ Pending("DEL")' <=> Pending("DEL") \/ del
      /\ Pending("EXPIRE") => Pending("EXPIRE")'
  <2>1. /\ Posted' = (Posted \ {s}) \cup (IF Has("HMSET", s)' THEN {s} ELSE {})
        /\ Reading' = (Reading \ {s}) \cup (IF at'[s] \in {"READ", "RETRY"} THEN {s} ELSE {})
        /\ Timed' = (Timed \ {s}) \cup (IF at'[s] \in {"WAIT", "LATE"} THEN {s} ELSE {})
        /\ \A op \in Ops : Pending(op)' <=> Has(op, s)' \/ \E t \in Submits \ {s} : Has(op, t)
        /\ \A op \in Ops : Pending(op) <=> Has(op, s) \/ \E t \in Submits \ {s} : Has(op, t)
    BY <1>1, <1>8, SetsNext DEF Shape
  <2>2. ~Has("HMSET", s) /\ ~Has("HMSET", s)'
    BY <1>8 DEF Ops
  <2>3. s \notin Posted /\ s \notin Timed
    BY <2>2 DEF Posted, Timed
  <2>4. /\ Pending("DEL")' <=> Pending("DEL") \/ del
        /\ Pending("EXPIRE") => Pending("EXPIRE")'
    BY <1>8, <2>1 DEF Ops
  <2>5. at'[s] \in {"READ", "RETRY"} <=> w = "RETRY"
    BY <1>8
  <2>6. at'[s] \notin {"WAIT", "LATE"}
    BY <1>8
  <2>7. QED
    BY <2>1, <2>2, <2>3, <2>4, <2>5, <2>6
<1>10. Stored(hash)' = Stored(hash) /\ Fields(hash)' = Fields(hash) /\ (Disturbed' <=> Disturbed)
  BY <1>7, HashSame, FieldsSame DEF Disturbed
<1>11. ASSUME ~Disturbed
       PROVE  /\ RoundInv /\ VerdictInv /\ KeyExpiresSometime
              /\ Reading = {s} /\ ~Ended(s) /\ \A t \in Stored(hash) : ~Ended(t)
              /\ hash.count \in {0, Total} /\ (hash.count = 0 => Stored(hash) = {} /\ Posted = {} /\ ~Full)
              /\ (Full => hash.count = Total /\ Cardinality(all) = Total /\ Round = all /\ Posted = {})
              /\ (GivenUp(Fields(hash)) => hash.count = 0)
  <2>1. RoundInv /\ VerdictInv /\ KeyExpiresSometime
    BY <1>11 DEF LongInv
  <2>2. Reading = {s} /\ hash.count \in {0, Total}
    BY <1>4, <2>1 DEF RoundInv, AtMostOne
  <2>3. ~Ended(s) /\ \A t \in Stored(hash) : ~Ended(t)
    BY <1>4, <2>1, <2>2 DEF VerdictInv, Parted
  <2>4. ASSUME hash.count = 0
        PROVE  Stored(hash) = {} /\ Posted = {} /\ ~Full
    <3>1. Stored(hash) = {} /\ Posted = {}
      BY <2>1, <2>4 DEF RoundInv
    <3>2. Cardinality(Stored(hash)) = 0
      BY <3>1, FS_EmptySet
    <3>3. QED
      BY <1>2, <1>3, <2>4, <3>1, <3>2 DEF Full
  <2>5. ASSUME hash.count = Total
        PROVE  /\ all \subseteq Round /\ Cardinality(all) <= Total /\ ~GivenUp(Fields(hash))
               /\ Cardinality(all) = Fields(hash)
    <3>1. all \subseteq Round
      BY <1>4 DEF Round, all
    <3>2. Cardinality(all) <= Cardinality(Round) /\ Cardinality(Round) \in Nat /\ Cardinality(all) \in Nat
      BY <1>1, <3>1, RoundFinite
    <3>3. Cardinality(Round) <= Total
      BY <1>2, <2>1, <2>5 DEF RoundInv
    <3>4. Cardinality(all) = Fields(hash)
      BY <1>2, <1>3, <1>4, <2>5
    <3>5. QED
      BY <1>2, <1>3, <1>4, <3>1, <3>2, <3>3, <3>4 DEF GivenUp
  <2>6. ASSUME Full
        PROVE  hash.count = Total /\ Cardinality(all) = Total /\ Round = all /\ Posted = {}
    <3>1. hash.count = Total
      BY <2>2, <2>4, <2>6
    <3>2. Cardinality(all) = Total
      BY <2>5, <2>6, <3>1 DEF Full
    <3>3. Cardinality(Round) <= Total /\ Cardinality(Round) \in Nat
      BY <1>1, <1>2, <2>1, <3>1, RoundFinite DEF RoundInv
    <3>4. Round = all
      <4>1. all \in SUBSET Round
        BY <2>5, <3>1
      <4>2. Cardinality(all) <= Cardinality(Round) /\ (Cardinality(all) = Cardinality(Round) => all = Round)
        BY <1>1, <4>1, RoundFinite
      <4>3. QED
        BY <1>2, <3>2, <3>3, <4>2
    <3>5. Posted = {}
      <4> SUFFICES ASSUME NEW t \in Posted
                   PROVE  FALSE
        OBVIOUS
      <4>1. t \in all
        BY <3>4 DEF Round
      <4>2. t \in Stored(hash)
        BY <1>9, <4>1 DEF all
      <4>3. QED
        BY <1>1, <4>2 DEF Posted, Shape, StageInv, StageOK
    <3>6. QED
      BY <3>1, <3>2, <3>4, <3>5
  <2>7. GivenUp(Fields(hash)) => hash.count = 0
    BY <2>2, <2>5
  <2>8. QED
    BY <2>1, <2>2, <2>3, <2>4, <2>6, <2>7
<1>12. MergedWhole'
  <2>1. CASE log'.merged = log.merged
    BY <1>10, <2>1, MergedSame DEF LongInv
  <2>2. CASE Full /\ Whole(all) /\ log'.merged = log.merged \cup {all}
    <3> SUFFICES ASSUME NEW S \in log'.merged
                 PROVE  /\ {message.pk[t] : t \in S} = 1 .. Total
                        /\ Cardinality(S) = Total \/ Disturbed
      BY <1>2, <1>10 DEF MergedWhole
    <3>1. CASE S \in log.merged
      BY <3>1 DEF LongInv, MergedWhole
    <3>2. CASE S = all
      BY <1>11, <2>2, <3>2 DEF Whole
    <3>3. QED
      BY <2>2, <3>1, <3>2
  <2>3. log'.merged = log.merged \/ (Full /\ Whole(all) /\ log'.merged = log.merged \cup {all})
    BY <1>2, <1>5 DEF LogType
  <2>4. QED
    BY <2>1, <2>2, <2>3

<1>13. ASSUME ~Disturbed'
       PROVE  RoundInv' /\ VerdictInv' /\ KeyExpiresSometime'
  <2> /\ RoundInv /\ VerdictInv /\ KeyExpiresSometime /\ ~Disturbed
      /\ Reading = {s} /\ ~Ended(s) /\ \A t \in Stored(hash) : ~Ended(t)
      /\ hash.count \in {0, Total} /\ (hash.count = 0 => Stored(hash) = {} /\ Posted = {} /\ ~Full)
      /\ (Full => hash.count = Total /\ Cardinality(all) = Total /\ Round = all /\ Posted = {})
      /\ (GivenUp(Fields(hash)) => hash.count = 0)
    BY <1>10, <1>11, <1>13
  <2>1. CASE w = "RETRY" /\ log' = log
    <3>1. Reading' = Reading /\ (Pending("DEL")' <=> Pending("DEL"))
      BY <1>5, <1>9, <2>1
    <3>2. \A t \in Submits : at[t] \in Parted => at'[t] \in Parted
      BY <1>8 DEF Parted
    <3>3. RoundInv' /\ VerdictInv'
      BY <1>2, <1>9, <1>10, <2>1, <3>1, <3>2, QuietRound
    <3>4. KeyExpiresSometime'
      BY <1>9, <1>10, <3>1 DEF KeyExpiresSometime
    <3>5. QED
      BY <3>3, <3>4
  <2>2. CASE w # "RETRY" /\ (GivenUp(Fields(hash)) \/ Full)
    <3>1. Reading' = {} /\ Posted' = {} /\ at'[s] \in Parted
      BY <1>5, <1>8, <1>9, <2>2 DEF Parted
    <3>2. RoundInv'
      <4>1. Round' \subseteq Round
        BY <1>9, <1>10, <3>1 DEF Round
      <4>2. Cardinality(Round') <= Cardinality(Round) /\ Cardinality(Round') \in Nat /\ Cardinality(Round) \in Nat
        BY <1>1, <4>1, RoundFinite
      <4>3. hash.count > 0 => Cardinality(Round') <= hash'.count
        BY <1>2, <4>2 DEF RoundInv
      <4>4. AtMostOne(Reading)' /\ AtMostOne(Timed)'
        BY <1>9, <3>1 DEF RoundInv, AtMostOne
      <4>5. QED
        BY <1>2, <1>10, <3>1, <4>3, <4>4 DEF RoundInv
    <3>3. \A t \in Submits : Ended(t)' => Ended(t) \/ (Full /\ t \in all)
      <4>1. CASE log' = log
        BY <4>1 DEF Ended
      <4>2. CASE Full /\ log' = [log EXCEPT !.merged = @ \cup {all}]
        <5>1. log'.failed = log.failed /\ log'.merged = log.merged \cup {all}
          BY <1>2, <4>2 DEF LogType
        <5>2. QED
          BY <4>2, <5>1 DEF Ended
      <4>3. CASE Full /\ log' = [log EXCEPT !.failed = Reported(all)]
        <5>1. log'.failed = Reported(all) /\ log'.merged = log.merged
          BY <1>2, <4>3 DEF LogType
        <5> SUFFICES ASSUME NEW t \in Submits, Ended(t)', ~(t \in all)
                     PROVE  Ended(t)
          BY <4>3
        <5>2. log'.failed[t] = log.failed[t] + 0
          BY <1>6, <5>1
        <5>3. log'.failed[t] = log.failed[t]
          BY <1>2, <5>2
        <5>4. QED
          BY <5>1, <5>3 DEF Ended
      <4>4. QED
        BY <1>5, <2>2, <4>1, <4>2, <4>3
    <3>4. VerdictInv'
      <4>1. \A t \in all : t = s \/ t \in Stored(hash)
        BY DEF all
      <4>2. \A t \in Submits : Ended(t)' => t \notin Posted' /\ at'[t] \in Parted
        BY <1>1, <1>8, <3>1, <3>3, <4>1 DEF VerdictInv, Shape, StageInv, StageOK
      <4>3. (\E t \in Stored(hash)' : Ended(t)') => Reading' = {} /\ hash'.count = Total'
        BY <1>2, <1>10, <3>1
      <4>4. /\ \A t \in Submits : log'.failed[t] <= 1 /\ (log'.failed[t] > 0 => t \notin UNION log'.merged)
            /\ \A S, T \in log'.merged : S \cap T # {} => S = T
        <5>1. CASE log' = log
          BY <5>1 DEF VerdictInv
        <5>2. CASE Full /\ log' = [log EXCEPT !.merged = @ \cup {all}]
          <6>1. log'.failed = log.failed /\ log'.merged = log.merged \cup {all}
            BY <1>2, <5>2 DEF LogType
          <6>2. \A t \in all : ~(log.failed[t] > 0) /\ \A S \in log.merged : t \notin S
            BY <4>1 DEF Ended
          <6>3. \A S \in log.merged : S \cap all = {}
            BY <6>2
          <6>4. \A t \in Submits : log'.failed[t] <= 1 /\ (log'.failed[t] > 0 => t \notin UNION log'.merged)
            BY <6>1, <6>2 DEF VerdictInv
          <6>5. \A S, T \in log'.merged : S \cap T # {} => S = T
            BY <6>1, <6>3 DEF VerdictInv
          <6>6. QED
            BY <6>4, <6>5
        <5>3. CASE Full /\ log' = [log EXCEPT !.failed = Reported(all)]
          <6>1. log'.failed = Reported(all) /\ log'.merged = log.merged
            BY <1>2, <5>3 DEF LogType
          <6>2. \A t \in all : ~(log.failed[t] > 0) /\ t \notin UNION log.merged
            BY <4>1 DEF Ended
          <6>3. ASSUME NEW t \in Submits
                PROVE  log'.failed[t] <= 1 /\ (log'.failed[t] > 0 => t \notin UNION log'.merged)
            <7>1. log.failed[t] \in Nat
              BY <1>2
            <7>2. CASE t \in all
              BY <1>6, <6>1, <6>2, <7>1, <7>2
            <7>3. CASE t \notin all
              BY <1>6, <6>1, <7>1, <7>3 DEF VerdictInv
            <7>4. QED
              BY <7>2, <7>3
          <6>4. QED
            BY <6>1, <6>3 DEF VerdictInv
        <5>4. QED
          BY <1>5, <2>2, <5>1, <5>2, <5>3
      <4>5. QED
        BY <4>2, <4>3, <4>4 DEF VerdictInv
    <3>5. KeyExpiresSometime'
      BY <1>9, <1>10 DEF KeyExpiresSometime
    <3>6. QED
      BY <3>2, <3>4, <3>5
  <2>3. QED
    BY <1>5, <2>1, <2>2
<1>14. ASSUME ~Disturbed', ~Repeats'
       PROVE  ForgetInv'
  <2> /\ RoundInv /\ VerdictInv /\ ~Disturbed /\ Reading = {s}
      /\ hash.count \in {0, Total} /\ (hash.count = 0 => Stored(hash) = {} /\ Posted = {} /\ ~Full)
      /\ (Full => hash.count = Total /\ Cardinality(all) = Total /\ Round = all /\ Posted = {})
      /\ (GivenUp(Fields(hash)) => hash.count = 0)
    BY <1>10, <1>11, <1>14
  <2>1. \A t \in Submits : at[t] \notin {"NEW", "REFUSED"} => at'[t] \notin {"NEW", "REFUSED"}
    BY <1>8
  <2>2. ForgetInv
    BY <1>14, <2>1, RepeatsStay DEF LongInv
  <2>3. hash.count = Total /\ hash.count > 0
    BY <1>2, <2>2 DEF ForgetInv
  <2>4. CASE w = "RETRY" /\ log' = log
    <3>1. Reading' = Reading /\ (Pending("DEL")' <=> Pending("DEL"))
      BY <1>5, <1>9, <2>4
    <3>2. \A t \in Submits : at'[t] # "REFUSED" => at[t] # "REFUSED" /\ (InHand(t) => InHand(t)')
      BY <1>1, <1>8, <1>9, <1>10, <2>4, InHandIs, InHandNext DEF Shape
    <3>3. hash'.ttl # Nobody => hash'.ttl \in Timed' \/ Pending("DEL")' \/ hash'.count = Total
      BY <2>3
    <3>4. QED
      BY <1>2, <1>9, <1>10, <2>2, <2>4, <3>1, <3>2, <3>3, QuietForget
  <2>5. CASE Full /\ w # "RETRY" /\ \A t \in Submits : Ended(t)' <=> Ended(t) \/ t \in all
    <3>1. Reading' = {} /\ Posted' = {}
      BY <1>5, <1>9, <2>5
    <3>2. \A t \in Stored(hash)' : Ended(t)'
      BY <1>3, <1>10, <2>5 DEF all
    <3>3. \A t \in Submits : at'[t] # "REFUSED" => Ended(t)' \/ InHand(t)'
      <4>1. \A t \in Submits : InHand(t) <=> at[t] \in {"NEW", "COUNT", "READ", "RETRY"}
                                             \/ t \in Stored(hash) \/ t \in Posted
        BY <1>1, InHandIs
      <4>2. \A t \in Submits : InHand(t)' <=> at'[t] \in {"NEW", "COUNT", "READ", "RETRY"}
                                              \/ t \in Stored(hash)' \/ t \in Posted'
        BY <1>8, InHandNext DEF Shape
      <4>3. \A t \in Submits : at[t] # "REFUSED" => Ended(t) \/ InHand(t)
        BY <2>2 DEF ForgetInv
      <4>4. Ended(s)'
        BY <1>4, <2>5
      <4>5. \A t \in Submits \ {s} : at'[t] # "REFUSED" => Ended(t)' \/ InHand(t)'
        BY <1>8, <1>9, <1>10, <2>5, <4>1, <4>2, <4>3
      <4>6. QED
        BY <4>4, <4>5
    <3>4. QED
      BY <1>2, <2>3, <3>1, <3>2, <3>3 DEF ForgetInv
  <2>6. Full /\ w # "RETRY" => \A t \in Submits : Ended(t)' <=> Ended(t) \/ t \in all
    <3> SUFFICES ASSUME Full, w # "RETRY", NEW t \in Submits
                 PROVE  Ended(t)' <=> Ended(t) \/ t \in all
      OBVIOUS
    <3>1. CASE log' = [log EXCEPT !.merged = @ \cup {all}]
      <4>1. log'.failed = log.failed /\ log'.merged = log.merged \cup {all}
        BY <1>2, <3>1 DEF LogType
      <4>2. QED
        BY <4>1 DEF Ended
    <3>2. CASE log' = [log EXCEPT !.failed = Reported(all)]
      <4>1. log'.failed = Reported(all) /\ log'.merged = log.merged /\ log.failed[t] \in Nat
        BY <1>2, <3>2 DEF LogType
      <4>2. log'.failed[t] > 0 <=> log.failed[t] > 0 \/ t \in all
        BY <1>6, <4>1
      <4>3. QED
        BY <4>1, <4>2 DEF Ended
    <3>3. ~GivenUp(Fields(hash))
      BY <1>2, <2>3
    <3>4. QED
      BY <1>5, <3>1, <3>2, <3>3
  <2>7. QED
    BY <1>2, <1>5, <2>3, <2>4, <2>5, <2>6
<1>15. QED
  BY <1>8, <1>12, <1>13, <1>14 DEF LongInv

(* The timer of the first part has read the hash.                          *)
LEMMA LateKeeps ==
    ASSUME LongInv, NEW n \in Nodes, cmdQ[n] # <<>>, NEW s \in Submits,
           Head(cmdQ[n]).op = "HGETALL", Head(cmdQ[n]).sms = s, at[s] = "LATE",
           RspLate(n, s, Tail(cmdQ[n])),
           message' = message, node' = node, hash' = hash, faults' = faults
    PROVE  LongInv'
<1> DEFINE S == Stored(hash)
           ended == [log EXCEPT !.failed = Reported(S),
                                !.crossed = @ \/ hash.count \notin {Cardinality(S), Total}]
<1>1. Shape /\ TypeInv
  BY DEF LongInv, Shape
<1>2. /\ Total \in Nat \ {0, 1} /\ Total' = Total /\ hash.count \in Nat
      /\ faults \in Int /\ faults \in 0 .. MaxFaults /\ log \in LogType /\ at \in [Submits -> Waits]
      /\ log.failed \in [Submits -> Nat]
  BY <1>1, Totals, TotalSame, LongAssumption DEF TypeInv, HashType, LogType
<1>3. /\ S \subseteq Submits /\ IsFiniteSet(S) /\ Cardinality(S) \in Nat
      /\ Fields(hash) = Cardinality(S) + (IF hash.count > 0 THEN 1 ELSE 0)
  BY <1>1, StoredIn, FieldsAre
\* The outcomes: nothing to read, the last part is merging, reported.
<1>4. PICK w \in {"GONE", "KEPT", "RETRY"}, del \in BOOLEAN :
         /\ at' = [at EXCEPT ![s] = w] /\ w # "RETRY"
         /\ Then(n, Tail(cmdQ[n]), IF del THEN Delete(s) ELSE <<>>)
         /\ \/ Fields(hash) \notin 1 .. Total + 1 /\ del /\ log' = log
            \/ Merging(hash) /\ ~del /\ log' = log
            \/ Fields(hash) \in 1 .. Total + 1 /\ ~Merging(hash) /\ del /\ log' = ended
  <2>1. CASE /\ Fields(hash) \notin 1 .. Total + 1 /\ at' = [at EXCEPT ![s] = "GONE"]
             /\ Then(n, Tail(cmdQ[n]), Delete(s)) /\ log' = log
    BY <2>1
  <2>2. CASE /\ at' = [at EXCEPT ![s] = "KEPT"] /\ Merging(hash) /\ Then(n, Tail(cmdQ[n]), <<>>) /\ log' = log
    BY <2>2
  <2>3. CASE /\ Fields(hash) \in 1 .. Total + 1 /\ at' = [at EXCEPT ![s] = "KEPT"] /\ ~Merging(hash)
             /\ Then(n, Tail(cmdQ[n]), Delete(s)) /\ log' = ended
    BY <2>3
  <2>4. QED
    BY <2>1, <2>2, <2>3 DEF RspLate
<1>5. /\ Reported(S) \in [Submits -> Nat]
      /\ \A t \in Submits : Reported(S)[t] = log.failed[t] + IF t \in S THEN 1 ELSE 0
  BY <1>1, <1>3, ReportedIs
<1>6. /\ ended.failed = Reported(S) /\ ended.merged = log.merged
      /\ ended.crossed <=> log.crossed \/ hash.count \notin {Cardinality(S), Total}
      /\ ended \in LogType
  <2> DEFINE b == hash.count \notin {Cardinality(S), Total}
             f == Reported(S)
  <2>1. b \in BOOLEAN /\ f \in [Submits -> Nat] /\ ended = [log EXCEPT !.failed = f, !.crossed = @ \/ b]
    BY <1>5
  <2> HIDE DEF b, f, ended, S
  <2>2. ended.failed = f /\ ended.merged = log.merged
    BY <1>2, <2>1 DEF LogType
  <2>3. ended.crossed <=> log.crossed \/ b
    BY <1>2, <2>1 DEF LogType
  <2>4. ended \in LogType
    BY <1>2, <2>1 DEF LogType
  <2>5. QED
    BY <2>2, <2>3, <2>4 DEF b, f
<1> HIDE DEF ended
<1>7. /\ log' \in LogType /\ log'.merged = log.merged /\ (log.crossed => log'.crossed)
      /\ log' = log \/ log' = ended
  BY <1>2, <1>4, <1>6
<1>8. Shape' /\ Answered(s, w, del)
  <2>1. at[s] \in {"READ", "LATE"} /\ faults' \in 0 .. MaxFaults /\ faults <= faults'
    BY <1>2
  <2>2. QED
    BY <1>1, <1>4, <1>7, <2>1, AnswerShape
<1>9. /\ Posted' = Posted
      /\ Reading' = Reading
      /\ Timed' = Timed \ {s} /\ s \in Timed
      /\ Pending("DEL")' <=> Pending("DEL") \/ del
      /\ Pending("EXPIRE") => Pending("EXPIRE")'
      /\ \A t \in Submits \ {s} : at'[t] = at[t]
      /\ at'[s] \in {"GONE", "KEPT"}
  <2>0. /\ at'[s] = w
        /\ \A t \in Submits \ {s} : at'[t] = at[t] /\ \A op : Has(op, t)' <=> Has(op, t)
        /\ Has("HMSET", s)' <=> Has("HMSET", s)
        /\ Has("DEL", s)' <=> del
        /\ ~Has("DEL", s) /\ ~Has("EXPIRE", s)
    BY <1>8 DEF Answered, Ops
  <2>1. /\ Posted' = (Posted \ {s}) \cup (IF Has("HMSET", s)' THEN {s} ELSE {})
        /\ Reading' = (Reading \ {s}) \cup (IF at'[s] \in {"READ", "RETRY"} THEN {s} ELSE {})
        /\ Timed' = (Timed \ {s}) \cup (IF at'[s] \in {"WAIT", "LATE"} THEN {s} ELSE {})
        /\ \A op \in Ops : Pending(op)' <=> Has(op, s)' \/ \E t \in Submits \ {s} : Has(op, t)
        /\ \A op \in Ops : Pending(op) <=> Has(op, s) \/ \E t \in Submits \ {s} : Has(op, t)
    BY <1>1, <1>8, <2>0, SetsNext DEF Shape
  <2>2. (s \in Posted <=> Has("HMSET", s)) /\ s \notin Reading /\ s \in Timed
    BY DEF Posted, Reading, Timed
  <2>3. /\ Pending("DEL")' <=> Pending("DEL") \/ del
        /\ Pending("EXPIRE") => Pending("EXPIRE")'
    BY <2>0, <2>1 DEF Ops
  <2>4. at'[s] \in {"GONE", "KEPT"}
    BY <1>4, <2>0
  <2>5. QED
    BY <2>0, <2>1, <2>2, <2>3, <2>4
<1>10. Stored(hash)' = S /\ Fields(hash)' = Fields(hash)
  BY HashSame, FieldsSame
<1> HIDE DEF S
<1>11. Disturbed => Disturbed'
  BY <1>7 DEF Disturbed
<1>12. MergedWhole'
  BY <1>7, <1>11, MergedSame DEF LongInv
<1>13. \A t \in Submits : at[t] \in Parted => at'[t] \in Parted
  BY <1>9 DEF Parted
<1>14. ASSUME ~Disturbed'
       PROVE  /\ RoundInv /\ VerdictInv /\ KeyExpiresSometime /\ ~Disturbed /\ Timed' = {}
              /\ Fields(hash) \notin 1 .. Total + 1 => hash.count = 0 /\ S = {} /\ Posted = {}
              /\ Merging(hash) => hash.count = Total
              /\ Fields(hash) \in 1 .. Total + 1 /\ ~Merging(hash) /\ log' = ended =>
                    /\ hash.count > 0 /\ hash.count # Total /\ Round = S /\ Posted = {} /\ Reading = {}
                    /\ \A t \in S : ~Ended(t)
  <2>1. RoundInv /\ VerdictInv /\ KeyExpiresSometime /\ ~Disturbed
    BY <1>11, <1>14 DEF LongInv
  <2>2. Timed = {s}
    BY <1>9, <2>1 DEF RoundInv, AtMostOne
  <2>3. S \subseteq Round /\ Cardinality(Round) \in Nat /\ Cardinality(S) <= Cardinality(Round)
        /\ (Cardinality(S) = Cardinality(Round) => S = Round)
    <3>1. S \in SUBSET Round
      BY DEF Round, S
    <3>2. QED
      BY <1>1, <3>1, RoundFinite
  <2>4. hash.count = 0 => S = {} /\ Posted = {} /\ Cardinality(S) = 0
    BY <2>1, FS_EmptySet DEF RoundInv, S
  <2>5. ASSUME Fields(hash) \notin 1 .. Total + 1
        PROVE  hash.count = 0 /\ S = {} /\ Posted = {}
    <3>1. hash.count > 0 => Fields(hash) \in 1 .. Total + 1
      BY <1>2, <1>3, <2>1, <2>3 DEF RoundInv
    <3>2. QED
      BY <1>2, <2>4, <2>5, <3>1
  <2>6. Merging(hash) => hash.count = Total
    BY <1>2 DEF Merging, CountRead
  <2>7. ASSUME Fields(hash) \in 1 .. Total + 1, ~Merging(hash), log' = ended
        PROVE  /\ hash.count > 0 /\ hash.count # Total /\ Round = S /\ Posted = {} /\ Reading = {}
               /\ \A t \in S : ~Ended(t)
    <3>1. hash.count > 0
      BY <1>2, <1>3, <2>4, <2>7
    <3>2. hash.count # Total
      BY <1>2, <2>7, <3>1 DEF Merging, CountRead
    <3>3. hash.count = Cardinality(S)
      BY <1>6, <1>14, <2>7, <3>2 DEF Disturbed
    <3>4. Round = S
      BY <1>2, <1>3, <2>1, <2>3, <3>1, <3>3 DEF RoundInv
    <3>5. Posted = {} /\ Reading = {}
      <4>1. \A t \in Posted : t \notin S
        BY <1>1 DEF Posted, S, Shape, StageInv, StageOK
      <4>2. \A t \in Reading : t \notin S
        BY <1>1 DEF Reading, S, Shape, StageInv, StageOK, Parted
      <4>3. QED
        BY <3>4, <4>1, <4>2 DEF Round
    <3>6. \A t \in S : ~Ended(t)
      BY <2>1, <2>2, <3>2 DEF VerdictInv, S
    <3>7. QED
      BY <3>1, <3>2, <3>4, <3>5, <3>6
  <2>8. QED
    BY <1>9, <2>1, <2>2, <2>5, <2>6, <2>7
<1>15. /\ log' = log => \A t \in Submits : Ended(t)' <=> Ended(t)
       /\ log' = ended => \A t \in Submits : Ended(t)' <=> Ended(t) \/ t \in S
  <2>1. log' = log => \A t \in Submits : Ended(t)' <=> Ended(t)
    BY DEF Ended
  <2>2. ASSUME log' = ended, NEW t \in Submits
        PROVE  Ended(t)' <=> Ended(t) \/ t \in S
    <3>1. log'.failed[t] > 0 <=> log.failed[t] > 0 \/ t \in S
      BY <1>2, <1>5, <1>6, <2>2
    <3>2. QED
      BY <1>6, <2>2, <3>1 DEF Ended
  <2>3. QED
    BY <2>1, <2>2
<1>16. ASSUME ~Disturbed'
       PROVE  RoundInv' /\ VerdictInv' /\ KeyExpiresSometime'
  <2> /\ RoundInv /\ VerdictInv /\ KeyExpiresSometime /\ ~Disturbed /\ Timed' = {}
      /\ Fields(hash) \notin 1 .. Total + 1 => hash.count = 0 /\ S = {} /\ Posted = {}
      /\ Merging(hash) => hash.count = Total
      /\ Fields(hash) \in 1 .. Total + 1 /\ ~Merging(hash) /\ log' = ended =>
            /\ hash.count > 0 /\ hash.count # Total /\ Round = S /\ Posted = {} /\ Reading = {}
            /\ \A t \in S : ~Ended(t)
    BY <1>14, <1>16
  <2>1. RoundInv'
    <3>1. Round' = Round
      BY <1>9, <1>10 DEF Round, S
    <3>2. del => Posted = {} /\ (hash.count > 0 => Reading = {})
      BY <1>2, <1>4
    <3>3. AtMostOne(Reading)' /\ AtMostOne(Timed)'
      BY <1>9 DEF RoundInv, AtMostOne
    <3>4. QED
      BY <1>2, <1>9, <1>10, <3>1, <3>2, <3>3 DEF RoundInv, S
  <2>2. VerdictInv'
    <3>1. CASE log' = log
      <4>1. \A t \in Submits : Ended(t)' => t \notin Posted' /\ at'[t] \in Parted
        BY <1>9, <1>13, <1>15, <3>1 DEF VerdictInv
      <4>2. (\E t \in Stored(hash)' : Ended(t)') =>
               Reading' = {} /\ (hash'.count = Total' \/ (Pending("DEL")' /\ Timed' = {}))
        BY <1>2, <1>3, <1>9, <1>10, <1>15, <3>1 DEF VerdictInv, S
      <4>3. QED
        BY <3>1, <4>1, <4>2 DEF VerdictInv
    <3>2. CASE log' # log
      <4>1. /\ Fields(hash) \in 1 .. Total + 1 /\ ~Merging(hash) /\ del /\ log' = ended
            /\ Posted = {} /\ Reading = {} /\ \A t \in S : ~Ended(t)
        BY <1>4, <3>2
      <4>2. \A t \in Submits : Ended(t)' => t \notin Posted' /\ at'[t] \in Parted
        <5>1. \A t \in S : at[t] \in Parted
          BY <1>1, <1>3 DEF Shape, StageInv, StageOK, S
        <5>2. QED
          BY <1>9, <1>13, <1>15, <4>1, <5>1 DEF VerdictInv
      <4>3. Reading' = {} /\ Pending("DEL")'
        BY <1>9, <4>1
      <4>4. ASSUME NEW t \in Submits
            PROVE  log'.failed[t] <= 1 /\ (log'.failed[t] > 0 => t \notin UNION log'.merged)
        <5>1. log.failed[t] \in Nat /\ log'.failed[t] = log.failed[t] + IF t \in S THEN 1 ELSE 0
          BY <1>2, <1>5, <1>6, <4>1
        <5>2. CASE t \in S
          BY <1>6, <4>1, <5>1, <5>2 DEF Ended
        <5>3. CASE t \notin S
          BY <1>6, <4>1, <5>1, <5>3 DEF VerdictInv
        <5>4. QED
          BY <5>2, <5>3
      <4>5. \A X, Y \in log'.merged : X \cap Y # {} => X = Y
        BY <1>7 DEF VerdictInv
      <4>6. QED
        BY <4>2, <4>3, <4>4, <4>5 DEF VerdictInv
    <3>3. QED
      BY <3>1, <3>2
  <2>3. KeyExpiresSometime'
    BY <1>9, <1>10 DEF KeyExpiresSometime
  <2>4. QED
    BY <2>1, <2>2, <2>3
<1>17. ASSUME ~Disturbed', ~Repeats'
       PROVE  ForgetInv'
  <2> /\ RoundInv /\ VerdictInv /\ KeyExpiresSometime /\ ~Disturbed /\ Timed' = {}
      /\ Fields(hash) \notin 1 .. Total + 1 => hash.count = 0 /\ S = {} /\ Posted = {}
      /\ Merging(hash) => hash.count = Total
      /\ Fields(hash) \in 1 .. Total + 1 /\ ~Merging(hash) /\ log' = ended =>
            /\ hash.count > 0 /\ hash.count # Total /\ Round = S /\ Posted = {} /\ Reading = {}
            /\ \A t \in S : ~Ended(t)
    BY <1>14, <1>17
  <2>1. \A t \in Submits : at[t] \notin {"NEW", "REFUSED"} => at'[t] \notin {"NEW", "REFUSED"}
    BY <1>9
  <2>2. ForgetInv
    BY <1>17, <2>1, RepeatsStay DEF LongInv
  <2>3. \A t \in Submits : at'[t] # "REFUSED" => Ended(t)' \/ InHand(t)'
    <3>1. \A t \in Submits : InHand(t) <=> at[t] \in {"NEW", "COUNT", "READ", "RETRY"}
                                           \/ t \in S \/ t \in Posted
      BY <1>1, InHandIs DEF S
    <3>2. \A t \in Submits : InHand(t)' <=> at'[t] \in {"NEW", "COUNT", "READ", "RETRY"}
                                            \/ t \in S \/ t \in Posted'
      BY <1>8, <1>10, InHandNext DEF Shape
    <3>3. \A t \in Submits : at[t] # "REFUSED" => Ended(t) \/ InHand(t)
      BY <2>2 DEF ForgetInv
    <3>4. \A t \in Submits : Ended(t) => Ended(t)'
      BY <1>7, <1>15
    <3>5. QED
      BY <1>9, <3>1, <3>2, <3>3, <3>4
  <2>4. /\ Stored(hash)' = S /\ Total' = Total /\ hash'.count = hash.count /\ hash'.ttl = hash.ttl
        /\ Posted' = Posted /\ Reading' = Reading /\ Round' = Round
    BY <1>2, <1>9, <1>10 DEF Round, S
  <2>5. CASE Merging(hash) /\ ~del /\ log' = log
    <3>1. \A t \in Submits : Ended(t)' <=> Ended(t)
      BY <1>15, <2>5
    <3>2. Pending("DEL")' <=> Pending("DEL")
      BY <1>9, <2>5
    <3>3. hash.count = Total
      BY <2>5
    <3>4. (Pending("DEL") => \A t \in S : Ended(t)) /\ (Reading = {} => Posted = {} /\ \A t \in S : Ended(t))
          /\ (~Pending("DEL") => Cardinality(Round) = hash.count \/ Reading = {})
      <4>1. hash.count > 0
        BY <1>2, <3>3
      <4>2. QED
        BY <2>2, <3>3, <4>1 DEF ForgetInv, S
    <3>5. QED
      BY <1>3, <2>3, <2>4, <3>1, <3>2, <3>3, <3>4 DEF ForgetInv
  <2>6. CASE del
    <3>1. Pending("DEL")' /\ \A t \in S : Ended(t)'
      BY <1>3, <1>4, <1>9, <1>15, <2>6
    <3>2. (hash.count = Total => Posted = {}) /\ (Reading # {} => hash.count = Total)
      BY <1>2, <1>4, <2>2, <2>6 DEF ForgetInv
    <3>3. QED
      BY <2>3, <2>4, <3>1, <3>2 DEF ForgetInv
  <2>7. QED
    BY <1>4, <2>5, <2>6
<1>18. QED
  BY <1>8, <1>12, <1>16, <1>17 DEF LongInv

(* Redis fails: only the shape is left to keep.                            *)
LEMMA RepeatsKeeps ==
    ASSUME LongInv, NEW n \in Nodes, RedisRepeats(n)
    PROVE  LongInv'
<1>1. Shape /\ TypeInv /\ QueueInv
  BY DEF LongInv, Shape
<1>2. /\ cmdQ[n] # <<>> /\ faults < MaxFaults /\ faults' = faults + 1
      /\ Head(cmdQ[n]).op = "HINCRBY"
      /\ RspCount(n, Head(cmdQ[n]).sms, Tail(cmdQ[n]), Counted(Counted(hash)))
      /\ message' = message /\ node' = node
  BY DEF RedisRepeats
<1>3. PICK s \in Submits : Head(cmdQ[n]).sms = s
  BY <1>1, <1>2, HeadCmd
<1>4. PICK x \in {1, 2} : x = 2
  OBVIOUS
<1>5. PICK h : h = Counted(Counted(hash))
  OBVIOUS
<1>6. /\ h = (IF x = 1 THEN Counted(hash) ELSE Counted(Counted(hash)))
      /\ RspCount(n, s, Tail(cmdQ[n]), h) /\ UNCHANGED <<message, node>>
      /\ faults' = faults + (x - 1) /\ faults' \in 0 .. MaxFaults
  BY <1>1, <1>2, <1>3, <1>4, <1>5, LongAssumption DEF TypeInv
<1>7. Shape'
  BY <1>1, <1>2, <1>3, <1>6, CountShape
<1>8. log'.merged = log.merged /\ (log.crossed => log'.crossed)
  BY <1>1, <1>2 DEF RspCount, TypeInv, LogType
<1>9. QED
  BY <1>2, <1>7, <1>8, FailedStep

LEMMA FailsKeeps ==
    ASSUME LongInv, NEW n \in Nodes, RedisFails(n)
    PROVE  LongInv'
<1>1. Shape /\ TypeInv /\ QueueInv
  BY DEF LongInv, Shape
<1>2. /\ cmdQ[n] # <<>> /\ faults < MaxFaults /\ faults' = faults + 1
      /\ Then(n, Tail(cmdQ[n]), <<>>)
      /\ at' = IF Head(cmdQ[n]).op \in {"HINCRBY", "HGETALL"}
               THEN [at EXCEPT ![Head(cmdQ[n]).sms] = "KEPT"] ELSE at
      /\ hash' \in {hash} \cup (IF Head(cmdQ[n]).op = "HINCRBY" THEN {Counted(hash)} ELSE {})
      /\ message' = message /\ node' = node /\ log' = log
  BY DEF RedisFails
<1>3. PICK s \in Submits : Head(cmdQ[n]).sms = s
  BY <1>1, <1>2, HeadCmd
<1>4. PICK o \in Ops : Head(cmdQ[n]).op = o
  BY <1>1, <1>2, HeadCmd
<1>5. /\ faults' \in 0 .. MaxFaults /\ faults <= faults' /\ faults' - faults = 1 /\ log' \in LogType
      /\ hash \in HashType /\ hash.count \in Nat /\ at \in [Submits -> Waits]
  BY <1>1, <1>2, LongAssumption DEF TypeInv, HashType
<1>6. /\ Counted(hash) \in HashType
      /\ Counted(hash).count = hash.count + 1 /\ Counted(hash).short = hash.short
  BY <1>1, CountedIs
<1>7. /\ hash' \in HashType /\ hash'.short = hash.short /\ hash'.count <= hash.count + (faults' - faults)
      /\ o # "HINCRBY" => hash' = hash
  BY <1>2, <1>4, <1>5, <1>6
<1>8. Stored(hash)' = Stored(hash) /\ HashInv'
  BY <1>1, <1>2, <1>7, HashSame DEF Shape
<1>9. Shape'
  <2>1. CASE o = "HGETALL"
    <3>1. at[s] \in {"READ", "LATE"}
      BY <1>1, <1>2, <1>3, <1>4, <2>1, HeadCmd DEF Shape, StageInv, StageOK
    <3>2. PICK w \in {"GONE", "KEPT", "RETRY"} : w = "KEPT"
      OBVIOUS
    <3>3. PICK del \in BOOLEAN : ~del
      OBVIOUS
    <3>4. /\ at' = [at EXCEPT ![s] = w] /\ (w = "RETRY" => at[s] = "READ" /\ ~del)
          /\ Then(n, Tail(cmdQ[n]), IF del THEN Delete(s) ELSE <<>>) /\ hash' = hash
      BY <1>2, <1>3, <1>4, <1>7, <2>1, <3>2, <3>3
    <3>5. QED
      BY <1>1, <1>2, <1>3, <1>4, <1>5, <2>1, <3>1, <3>4, AnswerShape
  <2>2. CASE o = "HINCRBY"
    <3>1. PICK w \in Waits : w = "KEPT"
      BY DEF Waits
    <3>2. at' = [at EXCEPT ![s] = w]
      BY <1>2, <1>3, <1>4, <2>2, <3>1
    <3>3. hash'.count <= hash.count + 1 + (faults' - faults)
      BY <1>5, <1>7 DEF HashType
    <3>4. \A t \in Stored(hash)' : t \in Stored(hash) \/ (t = s /\ o = "HMSET")
      BY <1>8
    <3>5. QED
      BY <1>1, <1>2, <1>3, <1>4, <1>5, <1>7, <1>8, <2>2, <3>1, <3>2, <3>3, <3>4, DoneShape
  <2>3. CASE o \in {"HMSET", "EXPIRE", "DEL"}
    <3>1. PICK w \in Waits : w = at[s]
      BY <1>5
    <3>2. at' = [at EXCEPT ![s] = w]
      BY <1>2, <1>4, <1>5, <2>3, <3>1
    <3>3. \A t \in Stored(hash)' : t \in Stored(hash) \/ (t = s /\ o = "HMSET")
      BY <1>8
    <3>4. QED
      BY <1>1, <1>2, <1>3, <1>4, <1>5, <1>7, <1>8, <2>3, <3>1, <3>2, <3>3, DoneShape
  <2>4. QED
    BY <2>1, <2>2, <2>3 DEF Ops
<1>10. QED
  BY <1>2, <1>9, FailedStep

(* A command runs and is answered.                                         *)
LEMMA RedisKeeps ==
    ASSUME LongInv, NEW n \in Nodes, Redis(n)
    PROVE  LongInv'
<1>1. TypeInv /\ QueueInv
  BY DEF LongInv, Shape
<1>2. /\ cmdQ[n] # <<>> /\ message' = message /\ node' = node /\ faults' = faults
      /\ \/ Head(cmdQ[n]).op = "HINCRBY" /\ RspCount(n, Head(cmdQ[n]).sms, Tail(cmdQ[n]), Counted(hash))
         \/ Head(cmdQ[n]).op = "HGETALL" /\ at[Head(cmdQ[n]).sms] = "READ"
            /\ RspGetShorts(n, Head(cmdQ[n]).sms, Tail(cmdQ[n])) /\ UNCHANGED hash
         \/ Head(cmdQ[n]).op = "HGETALL" /\ at[Head(cmdQ[n]).sms] = "LATE"
            /\ RspLate(n, Head(cmdQ[n]).sms, Tail(cmdQ[n])) /\ UNCHANGED hash
         \/ Head(cmdQ[n]).op \in {"HMSET", "EXPIRE", "DEL"} /\ RunOnly(n, Head(cmdQ[n]), Tail(cmdQ[n]))
  BY DEF Redis
<1>3. PICK s \in Submits : Head(cmdQ[n]).sms = s
  BY <1>1, <1>2, HeadCmd
<1>4. CASE Head(cmdQ[n]).op = "HINCRBY" /\ RspCount(n, s, Tail(cmdQ[n]), Counted(hash))
  BY <1>2, <1>3, <1>4, CountKeeps
<1>5. CASE /\ Head(cmdQ[n]).op = "HGETALL" /\ at[s] = "READ"
           /\ RspGetShorts(n, s, Tail(cmdQ[n])) /\ hash' = hash
  BY <1>2, <1>3, <1>5, ReadKeeps
<1>6. CASE /\ Head(cmdQ[n]).op = "HGETALL" /\ at[s] = "LATE"
           /\ RspLate(n, s, Tail(cmdQ[n])) /\ hash' = hash
  BY <1>2, <1>3, <1>6, LateKeeps
<1>7. CASE Head(cmdQ[n]).op \in {"HMSET", "EXPIRE", "DEL"} /\ RunOnly(n, Head(cmdQ[n]), Tail(cmdQ[n]))
  <2>1. /\ hash' = Run(Head(cmdQ[n]))
        /\ log' = [log EXCEPT !.crossed = @ \/ (Head(cmdQ[n]).op = "HMSET" /\ Pending("DEL"))]
        /\ Then(n, Tail(cmdQ[n]), <<>>) /\ at' = at
    BY <1>7 DEF RunOnly
  <2>2. log \in LogType
    BY <1>1 DEF TypeInv
  <2>3. CASE Head(cmdQ[n]).op = "HMSET"
    <3>1. hash' = [hash EXCEPT !.short[message.pk[s]] = s]
      BY <1>3, <2>1, <2>3 DEF Run
    <3>2. log' = [log EXCEPT !.crossed = @ \/ Pending("DEL")]
      BY <2>1, <2>3
    <3>3. QED
      BY <1>2, <1>3, <2>1, <2>3, <3>1, <3>2, StoreKeeps
  <2>4. ASSUME Head(cmdQ[n]).op # "HMSET"
        PROVE  log' = log
    <3>1. log' = [log EXCEPT !.crossed = @ \/ FALSE]
      BY <2>1, <2>4
    <3>2. log.crossed \in BOOLEAN
      BY <2>2 DEF LogType
    <3>3. (log.crossed \/ FALSE) = log.crossed
      BY <3>2
    <3>4. QED
      BY <2>2, <3>1, <3>3 DEF LogType
  <2>5. CASE Head(cmdQ[n]).op = "EXPIRE"
    <3>1. hash' = IF Fields(hash) > 0 THEN [hash EXCEPT !.ttl = s] ELSE hash
      BY <1>3, <2>1, <2>5 DEF Run
    <3>2. QED
      BY <1>2, <1>3, <2>1, <2>4, <2>5, <3>1, ExpireKeeps
  <2>6. CASE Head(cmdQ[n]).op = "DEL"
    <3>1. hash' = NoHash
      BY <2>1, <2>6 DEF Run
    <3>2. QED
      BY <1>2, <1>3, <2>1, <2>4, <2>6, <3>1, DeleteKeeps
  <2>7. QED
    BY <1>7, <2>3, <2>5, <2>6
<1>8. QED
  BY <1>2, <1>3, <1>4, <1>5, <1>6, <1>7

-----------------------------------------------------------------------------
LEMMA LongStart == LongInit => LongInv
<1> SUFFICES ASSUME LongInit
             PROVE  LongInv
  OBVIOUS
<1>1. /\ message \in Messages /\ node = [s \in Submits |-> Nobody] /\ at = [s \in Submits |-> "NEW"]
      /\ cmdQ = [n \in Nodes |-> <<>>] /\ hash = NoHash /\ faults = 0 /\ log = NewLog
  BY DEF LongInit
<1>2. /\ NewLog \in LogType /\ NewLog.merged = {} /\ \A s \in Submits : NewLog.failed[s] = 0
      /\ ~NewLog.crossed
  BY DEF NewLog, LogType
<1>3. NoHash \in HashType /\ NoHash.count = 0 /\ \A k \in 1 .. Total : NoHash.short[k] = Nobody
  BY DEF NoHash, HashType
<1>4. TypeInv
  <2>1. cmdQ \in [Nodes -> Seq(CmdType)]
    BY <1>1, NoCmds
  <2>2. faults \in 0 .. MaxFaults
    BY <1>1, LongAssumption
  <2>3. QED
    BY <1>1, <1>2, <1>3, <2>1, <2>2 DEF TypeInv, Waits
<1>5. Stored(hash) = {} /\ Fields(hash) = 0
  BY <1>1, <1>4, NoneStored
<1>6. /\ \A n \in Nodes : DOMAIN cmdQ[n] = {}
      /\ \A op, s : ~Has(op, s)
      /\ \A op : ~Pending(op)
  <2>1. \A n \in Nodes : DOMAIN cmdQ[n] = {}
    BY <1>1, NoCmds
  <2>2. QED
    BY <2>1 DEF Has, Pending
<1>7. Posted = {} /\ Reading = {} /\ Timed = {}
  BY <1>1, <1>6 DEF Posted, Reading, Timed
<1>8. CountInv
  <2>1. CountedSet = {}
    BY <1>1 DEF CountedSet
  <2>2. Cardinality(CountedSet) = 0
    BY <2>1, FS_EmptySet
  <2>3. QED
    BY <1>1, <1>3, <2>2 DEF CountInv
<1>9. Shape
  <2>1. QueueInv
    BY <1>6 DEF QueueInv, QPlaced, QOnce, QOrder
  <2>2. StageInv
    BY <1>1, <1>5, <1>6 DEF StageInv, StageOK
  <2>3. HashInv
    BY <1>1, <1>3 DEF HashInv
  <2>4. QED
    BY <1>4, <1>8, <2>1, <2>2, <2>3 DEF Shape
<1>10. /\ MergedWhole /\ \A s \in Submits : ~Ended(s)
  BY <1>1, <1>2 DEF MergedWhole, Ended
<1>11. Total \in Nat \ {0, 1}
  BY <1>4, Totals
<1>12. RoundInv
  BY <1>1, <1>3, <1>5, <1>6, <1>7, <1>11 DEF RoundInv, AtMostOne
<1>13. VerdictInv
  BY <1>1, <1>2, <1>5, <1>10 DEF VerdictInv
<1>14. KeyExpiresSometime
  BY <1>5 DEF KeyExpiresSometime
<1>15. ForgetInv
  <2>1. \A s \in Submits : InHand(s)
    BY <1>1 DEF InHand
  <2>2. hash.count = 0 /\ hash.ttl = Nobody
    BY <1>1, <1>3 DEF NoHash
  <2>3. QED
    BY <1>5, <1>6, <1>7, <1>11, <2>1, <2>2 DEF ForgetInv
<1>16. QED
  BY <1>9, <1>10, <1>12, <1>13, <1>14, <1>15 DEF LongInv

LEMMA LongStep == LongInv /\ [LongNext]_long_vars => LongInv'
<1> SUFFICES ASSUME LongInv, [LongNext]_long_vars
             PROVE  LongInv'
  OBVIOUS
<1>1. CASE \E s \in Submits : \E n \in Nodes : Submit(s, n)
  BY <1>1, SubmitKeeps
<1>2. ASSUME NEW s \in Submits, MergeTimeOut(s)
      PROVE  LongInv'
  <2>1. PICK w \in {"READ", "LATE"} : w = "LATE"
    OBVIOUS
  <2>2. /\ at[s] = (IF w = "READ" THEN "RETRY" ELSE "WAIT") /\ at' = [at EXCEPT ![s] = w]
        /\ Post(node[s], <<Cmd("HGETALL", s)>>) /\ UNCHANGED <<message, node, hash, faults, log>>
    BY <1>2, <2>1 DEF MergeTimeOut
  <2>3. QED
    BY <2>2, TimerKeeps
<1>3. ASSUME NEW s \in Submits, GetAllTimeOut(s)
      PROVE  LongInv'
  <2>1. PICK w \in {"READ", "LATE"} : w = "READ"
    OBVIOUS
  <2>2. /\ at[s] = (IF w = "READ" THEN "RETRY" ELSE "WAIT") /\ at' = [at EXCEPT ![s] = w]
        /\ Post(node[s], <<Cmd("HGETALL", s)>>) /\ UNCHANGED <<message, node, hash, faults, log>>
    BY <1>3, <2>1 DEF GetAllTimeOut
  <2>3. QED
    BY <2>2, TimerKeeps
<1>4. CASE \E n \in Nodes : Redis(n)
  BY <1>4, RedisKeeps
<1>5. CASE \E n \in Nodes : RedisRepeats(n)
  BY <1>5, RepeatsKeeps
<1>6. CASE \E n \in Nodes : RedisFails(n)
  BY <1>6, FailsKeeps
<1>7. CASE KeyExpires
  BY <1>7, ExpiresKeeps
<1>8. CASE UNCHANGED long_vars
  <2>1. /\ message' = message /\ node' = node /\ at' = at /\ cmdQ' = cmdQ /\ hash' = hash
        /\ faults' = faults /\ log' = log
    BY <1>8 DEF long_vars
  <2>2. /\ Total' = Total /\ Stored(hash)' = Stored(hash) /\ Fields(hash)' = Fields(hash)
        /\ (Disturbed' <=> Disturbed) /\ (Repeats' <=> Repeats)
        /\ \A op, s : Has(op, s)' <=> Has(op, s)
        /\ \A op : Pending(op)' <=> Pending(op)
        /\ \A s : Ended(s)' <=> Ended(s)
    BY <2>1 DEF Total, Stored, Fields, Disturbed, Repeats, Has, Pending, Ended
  <2>3. /\ Posted' = Posted /\ Reading' = Reading /\ Timed' = Timed
        /\ \A s \in Submits : InHand(s)' <=> InHand(s)
    BY <2>1, <2>2 DEF Posted, Reading, Timed, InHand
  <2>4. Shape'
    <3>1. TypeInv'
      BY <2>1, TypeNext DEF LongInv, Shape, TypeInv
    <3>2. CountInv' /\ QueueInv'
      BY <2>1 DEF LongInv, Shape, CountInv, CountedSet, QueueInv, QPlaced, QOnce, QOrder
    <3>3. StageInv' /\ HashInv'
      BY <2>1, <2>2 DEF LongInv, Shape, StageInv, StageOK, HashInv
    <3>4. QED
      BY <3>1, <3>2, <3>3 DEF Shape
  <2>5. MergedWhole'
    BY <2>1, <2>2, MergedSame DEF LongInv
  <2>6. RoundInv /\ VerdictInv => RoundInv' /\ VerdictInv'
    BY <2>1, <2>2, <2>3, QuietRound
  <2>7. KeyExpiresSometime => KeyExpiresSometime'
    BY <2>1, <2>2 DEF KeyExpiresSometime
  <2>8. ForgetInv => ForgetInv'
    BY <2>1, <2>2, <2>3, QuietForget DEF ForgetInv
  <2>9. QED
    BY <2>2, <2>4, <2>5, <2>6, <2>7, <2>8 DEF LongInv
<1>9. QED
  BY <1>1, <1>2, <1>3, <1>4, <1>5, <1>6, <1>7, <1>8 DEF LongNext

(* The invariant of a long message: the queues and sessions agree, and     *)
(* undisturbed a round of the key, its verdicts and its end (mergeLong,    *)
(* handleRedisRsp, HandleTimeOut).                                         *)
THEOREM LongInductive == LongSpec => []LongInv
<1>1. LongInv /\ UNCHANGED long_vars => LongInv'
  BY LongStep
<1>2. QED
  BY LongStart, LongStep, PTL DEF LongSpec

(* The types; a part is counted once unless redis failed.                  *)
THEOREM LongTypeCorrect == LongSpec => []LongTypeOK
<1>1. ASSUME LongInv
      PROVE  LongTypeOK
  <2>1. TypeInv /\ CountInv
    BY <1>1 DEF LongInv, Shape
  <2>2. hash.count \in 0 .. Cardinality(Submits) + faults
    <3>1. Cardinality(CountedSet) <= Cardinality(Submits)
          /\ Cardinality(CountedSet) \in Nat /\ Cardinality(Submits) \in Nat
      <4>1. CountedSet \subseteq Submits
        BY DEF CountedSet
      <4> HIDE DEF CountedSet
      <4>2. QED
        BY <4>1, LongAssumption, FS_Subset, FS_CardinalityType
    <3> HIDE DEF CountedSet
    <3>2. hash.count \in Nat /\ faults \in Int
      BY <2>1, LongAssumption DEF TypeInv, HashType
    <3>3. hash.count <= Cardinality(CountedSet) + faults
      BY <2>1 DEF CountInv
    <3> DEFINE x == Cardinality(CountedSet)
               y == Cardinality(Submits)
    <3>4. x <= y /\ x \in Nat /\ y \in Nat /\ hash.count <= x + faults
      BY <3>1, <3>3
    <3> HIDE DEF x, y
    <3>5. hash.count \in 0 .. y + faults
      BY <3>2, <3>4
    <3>6. QED
      BY <3>5 DEF y
  <2>3. QED
    BY <2>1, <2>2 DEF LongTypeOK, TypeInv, HashType, LogType, CmdType, Ops
<1>2. QED
  BY LongInductive, <1>1, PTL

(* What is pushed on is a whole message (mergeLongRedisRspGetShorts,       *)
(* mergeLongSmsEx).                                                        *)
THEOREM OnlyWholeMerged == LongSpec => []MergedWhole
<1>1. LongInv => MergedWhole
  BY DEF LongInv
<1>2. QED
  BY LongInductive, <1>1, PTL

(* A part has one verdict (mergeLongTimeout and                            *)
(* mergeLongRedisRspGetShorts agree through the count).                    *)
THEOREM OneVerdictPerPart == LongSpec => []PartVerdict
<1>1. ASSUME LongInv
      PROVE  PartVerdict
  <2> SUFFICES ASSUME NEW s \in Submits, ~Disturbed
               PROVE  log.failed[s] + Cardinality({S \in log.merged : s \in S}) <= 1
    BY DEF PartVerdict
  <2>1. VerdictInv /\ log.failed[s] \in Nat
    BY <1>1 DEF LongInv, Shape, TypeInv, LogType
  <2> DEFINE M == {S \in log.merged : s \in S}
  <2>2. CASE M = {}
    <3>1. Cardinality(M) = 0
      BY <2>2, FS_EmptySet
    <3> HIDE DEF M
    <3>2. log.failed[s] + Cardinality(M) <= 1
      BY <2>1, <3>1 DEF VerdictInv
    <3>3. QED
      BY <3>2 DEF M
  <2>3. CASE M # {}
    <3>1. PICK S \in M : TRUE
      BY <2>3
    <3>2. M = {S}
      BY <2>1, <3>1 DEF VerdictInv
    <3>3. Cardinality(M) = 1
      BY <3>2, FS_Singleton, Zenon
    <3>4. s \in UNION log.merged
      BY <3>1
    <3> HIDE DEF M
    <3>5. log.failed[s] + Cardinality(M) <= 1
      BY <2>1, <3>3, <3>4 DEF VerdictInv
    <3>6. QED
      BY <3>5 DEF M
  <2>4. QED
    BY <2>2, <2>3
<1>2. QED
  BY LongInductive, <1>1, PTL

(* No part accepted is forgotten (handleRedisRsp, mergeLongReleaseResource,*)
(* mergeLongSetTimeout).                                                   *)
THEOREM NoPartForgotten == LongSpec => []PartNotForgotten
<1>1. LongInv => PartNotForgotten
  BY DEF LongInv, PartNotForgotten, ForgetInv
<1>2. QED
  BY LongInductive, <1>1, PTL

(* A key of redis gets a time to live or is deleted (mergeLongSetTimeout). *)
THEOREM EveryKeyExpires == LongSpec => []KeyExpiresSometime
<1>1. LongInv => KeyExpiresSometime
  BY DEF LongInv, KeyExpiresSometime
<1>2. QED
  BY LongInductive, <1>1, PTL

=============================================================================
