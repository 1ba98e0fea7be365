----------------------- MODULE ThreadWheelTimerProofs -----------------------
(***************************************************************************)
(* Proofs about ThreadWheelTimer: type correctness, that a timer is in one *)
(* list at a time, that no tick is lost while nothing overlaps, and that a *)
(* timer fires on its tick.  They hold for every number of slots, timers   *)
(* and alarm threads, every length of a tick and every delay two wheels    *)
(* hold.                                                                   *)
(***************************************************************************)
EXTENDS ThreadWheelTimer, TLAPS

(* The span of a slot is a positive number of ms.                          *)
LEMMA MinTimePositive ==
    ASSUME NEW i \in Wheels
    PROVE  GetMinTime(i) \in Nat \ {0}
<1>1. TimeUnit \in Nat \ {0} /\ Slots \in Nat \ {0}
  BY WheelAssumption
<1>2. Slots * TimeUnit \in Nat \ {0}
  <2>1. \A a, b \in Nat \ {0} : a * b \in Nat \ {0}
    OBVIOUS
  <2>2. QED
    BY <1>1, <2>1
<1>3. QED
  BY <1>1, <1>2 DEF GetMinTime

(* A timer is placed in a slot that exists.                                *)
LEMMA SlotForInWheel ==
    ASSUME TypeOK, NEW i \in Wheels, NEW place \in Nat
    PROVE  SlotFor(i, place) \in Pos
<1>1. m_iCursor[i] \in Nat
  BY DEF TypeOK, Pos
<1>2. \A x \in Nat : x % Slots \in Pos
  BY WheelAssumption DEF Pos
<1>3. m_iCursor[i] + (IF place % Slots = 0 THEN 1 ELSE place) \in Nat
  BY <1>1
<1>4. QED
  BY <1>2, <1>3 DEF SlotFor

(* PlaceTimer keeps the types of what it changes.  slots is the array it   *)
(* finds, which Click has changed already.                                 *)
LEMMA PlaceTimerType ==
    ASSUME TypeOK, NEW t \in Timers, NEW r \in Nat,
           NEW slots \in [Wheels -> [Pos -> SUBSET Timers]],
           PlaceTimer(t, r, slots)
    PROVE  /\ slot' \in [Wheels -> [Pos -> SUBSET Timers]]
           /\ m_iRemain' \in [Timers -> Nat]
           /\ made' \in {0, 1, 2}
<1> DEFINE i == IF r < GetMaxTime(1) THEN 1 ELSE 2
           rest == IF i = 1 THEN r ELSE r + GetPassedTime(1)
           place == rest \div GetMinTime(i)
           p == SlotFor(i, place)
<1>1. i \in Wheels
  BY DEF Wheels
<1>2. GetPassedTime(1) \in Nat
  <2>1. m_iCursor[1] \in Nat /\ GetMinTime(1) \in Nat
    BY MinTimePositive DEF TypeOK, Pos, Wheels
  <2>2. QED
    BY <2>1 DEF GetPassedTime
<1>3. rest \in Nat
  BY <1>2
<1>4. place \in Nat
  <2>1. \A x \in Nat, y \in Nat \ {0} : x \div y \in Nat
    OBVIOUS
  <2>2. QED
    BY <1>1, <1>3, <2>1, MinTimePositive
<1>5. p \in Pos
  BY <1>1, <1>4, SlotForInWheel
<1>6. /\ slot' = [slots EXCEPT ![i][p] = @ \cup {t}]
      /\ m_iRemain' = [m_iRemain EXCEPT ![t] = rest]
      /\ made' = IF made < i THEN i ELSE made
  BY DEF PlaceTimer
<1> HIDE DEF i, rest, place, p
<1>7. QED
  BY <1>1, <1>3, <1>5, <1>6 DEF TypeOK, Wheels

(* While a slot is being emptied there is a tick left to apply, so that     *)
(* click -= 1 in Click does not fall below zero.                           *)
ClickCounts == pc = "pop" => click > 0

TypeInv == TypeOK /\ ClickCounts

LEMMA TypeInvInit == Init => TypeInv
<1> SUFFICES ASSUME Init
             PROVE  TypeInv
  OBVIOUS
<1>1. m_iCursor \in [Wheels -> Pos]
  BY WheelAssumption DEF Init, Pos
<1>2. slot \in [Wheels -> [Pos -> SUBSET Timers]]
  BY DEF Init
<1>3. wheel \in Wheels
  BY DEF Init, Wheels
<1>4. alarm \in [Alarms -> Nat \cup {Idle}] /\ m_iRemain \in [Timers -> Nat]
  BY DEF Init
<1>5. life \in [Timers -> {"free", "armed", "fired"}] /\ left \in [Timers -> Int]
  BY DEF Init
<1>6. QED
  <2>1. m_iTick \in Nat /\ click \in Nat /\ debt \in Int
    BY DEF Init
  <2>2. m_pItem \in SUBSET Timers /\ msgQueue \in SUBSET Timers
    BY DEF Init
  <2>3. pc \in {"main", "clear", "tick", "pop"} /\ made \in {0, 1, 2}
    BY DEF Init
  <2>4. ClickCounts /\ raced \in BOOLEAN
    BY DEF Init, ClickCounts
  <2>5. QED
    BY <1>1, <1>2, <1>3, <1>4, <1>5, <2>1, <2>2, <2>3, <2>4 DEF TypeInv, TypeOK

(* A timer of the emptied slot fires with what is left of its delay, or    *)
(* is placed again.                                                        *)
LEMMA PopTimerType ==
    ASSUME TypeInv, NEW t \in Timers, PopTimer(t)
    PROVE  TypeInv'
<1> DEFINE r == m_iRemain[t] % GetMinTime(wheel)
<1>1. r \in Nat
  <2>1. \A x \in Nat, y \in Nat \ {0} : x % y \in Nat
    OBVIOUS
  <2>2. m_iRemain[t] \in Nat /\ wheel \in Wheels
    BY DEF TypeInv, TypeOK
  <2>3. QED
    BY <2>1, <2>2, MinTimePositive
<1> HIDE DEF r
<1>2. CASE /\ m_iRemain' = [m_iRemain EXCEPT ![t] = r]
           /\ life' = [life EXCEPT ![t] = "fired"]
           /\ msgQueue' = msgQueue \cup {t}
           /\ UNCHANGED wheels
  BY <1>1, <1>2 DEF PopTimer, TypeInv, TypeOK, ClickCounts, wheels, ticks
<1>3. CASE /\ PlaceTimer(t, r, slot)
           /\ UNCHANGED <<m_iCursor, life, msgQueue>>
  <2>1. slot \in [Wheels -> [Pos -> SUBSET Timers]] /\ TypeOK
    BY DEF TypeInv, TypeOK
  <2>2. /\ slot' \in [Wheels -> [Pos -> SUBSET Timers]]
        /\ m_iRemain' \in [Timers -> Nat]
        /\ made' \in {0, 1, 2}
    BY <1>1, <1>3, <2>1, PlaceTimerType
  <2>3. QED
    BY <1>3, <2>2 DEF PopTimer, TypeInv, TypeOK, ClickCounts, ticks
<1>4. QED
  BY <1>2, <1>3 DEF PopTimer, r

LEMMA SetTimerType ==
    ASSUME TypeInv, NEW t \in Timers, NEW d \in Delays, SetTimer(t, d)
    PROVE  TypeInv'
<1>1. d \in Nat
  BY WheelAssumption
<1>2. slot \in [Wheels -> [Pos -> SUBSET Timers]] /\ TypeOK
  BY DEF TypeInv, TypeOK
<1>3. /\ slot' \in [Wheels -> [Pos -> SUBSET Timers]]
      /\ m_iRemain' \in [Timers -> Nat]
      /\ made' \in {0, 1, 2}
  BY <1>1, <1>2, PlaceTimerType DEF SetTimer
<1>4. DueIn(d) \in Int
  BY <1>1, WheelAssumption DEF DueIn
<1>5. QED
  BY <1>3, <1>4 DEF SetTimer, TypeInv, TypeOK, ClickCounts, ticks

LEMMA TypeInvStep == TypeInv /\ [Next]_vars => TypeInv'
<1> SUFFICES ASSUME TypeInv, [Next]_vars
             PROVE  TypeInv'
  OBVIOUS
<1> USE DEF TypeInv, TypeOK, ClickCounts
<1>1. ASSUME NEW a \in Alarms, OnAlarmLoad(a)
      PROVE  TypeInv'
  BY <1>1 DEF OnAlarmLoad, wheels, timers
<1>2. ASSUME NEW a \in Alarms, OnAlarmStore(a)
      PROVE  TypeInv'
  BY <1>2 DEF OnAlarmStore, wheels, timers, Idle
<1>3. CASE ReadTick
  BY <1>3 DEF ReadTick, ticks, wheels, timers
<1>4. CASE ClearTick
  BY <1>4 DEF ClearTick, wheels, timers, Wheels
<1>5. CASE WheelClick
  <2>1. (m_iCursor[wheel] + 1) % Slots \in Pos
    BY WheelAssumption DEF Pos
  <2>2. QED
    BY <1>5, <2>1 DEF WheelClick, ticks, timers
<1>6. ASSUME NEW t \in Timers, PopTimer(t)
      PROVE  TypeInv'
  BY <1>6, PopTimerType
<1>7. CASE WheelDone
  BY <1>7 DEF WheelDone, ticks, wheels, timers, Wheels
<1>8. CASE ClickDone
  BY <1>8 DEF ClickDone, ticks, wheels, timers
<1>9. ASSUME NEW t \in Timers, NEW d \in Delays, SetTimer(t, d)
      PROVE  TypeInv'
  BY <1>9, SetTimerType
<1>10. ASSUME NEW t \in Timers, Destroy(t)
       PROVE  TypeInv'
  BY <1>10 DEF Destroy, ticks
<1>11. ASSUME NEW t \in Timers, HandleMsg(t)
       PROVE  TypeInv'
  BY <1>11 DEF HandleMsg, ticks, wheels
<1>12. CASE UNCHANGED vars
  BY <1>12 DEF vars, ticks, wheels, timers
<1>13. QED
  BY <1>1, <1>2, <1>3, <1>4, <1>5, <1>6, <1>7, <1>8, <1>9, <1>10, <1>11, <1>12
     DEF Next, Click

LEMMA TypeInvariance == Spec => []TypeInv
BY TypeInvInit, TypeInvStep, PTL DEF Spec

(* Every variable keeps its type: the cursors of both wheels stay on a     *)
(* slot of the wheel (CThreadWheel::Click), the ticks and the remaining    *)
(* times never become negative.                                            *)
THEOREM TypeCorrect == Spec => []TypeOK
BY TypeInvariance, PTL DEF TypeInv

-----------------------------------------------------------------------------
(* No tick is lost.  The counter and the debt agree, and to keep them so   *)
(* the addition in flight must have loaded the current count, there is at  *)
(* most one of it, and the owner clears exactly the count it has read.     *)
TicksInv ==
    ~raced =>
        /\ debt = m_iTick
        /\ \A a \in Alarms : alarm[a] # Idle => alarm[a] = m_iTick
        /\ \A a, b \in Alarms : alarm[a] # Idle /\ alarm[b] # Idle => a = b
        /\ pc = "clear" => click = m_iTick /\ \A a \in Alarms : alarm[a] = Idle

LEMMA TicksInvStep == TypeInv /\ TicksInv /\ [Next]_vars => TicksInv'
<1> SUFFICES ASSUME TypeInv, TicksInv, [Next]_vars
             PROVE  TicksInv'
  OBVIOUS
<1> USE DEF TicksInv, TypeInv, TypeOK
<1>1. ASSUME NEW a \in Alarms, OnAlarmLoad(a)
      PROVE  TicksInv'
  BY <1>1 DEF OnAlarmLoad, InFlight
<1>2. ASSUME NEW a \in Alarms, OnAlarmStore(a)
      PROVE  TicksInv'
  BY <1>2 DEF OnAlarmStore, Idle
<1>3. CASE ReadTick
  BY <1>3 DEF ReadTick, ticks, InFlight
<1>4. CASE ClearTick
  BY <1>4 DEF ClearTick, Idle
<1>5. ASSUME \/ WheelClick \/ WheelDone \/ ClickDone
             \/ \E t \in Timers : PopTimer(t)
      PROVE  TicksInv'
  BY <1>5 DEF WheelClick, WheelDone, ClickDone, PopTimer, ticks
<1>6. ASSUME NEW t \in Timers,
             Destroy(t) \/ HandleMsg(t) \/ \E d \in Delays : SetTimer(t, d)
      PROVE  TicksInv'
  BY <1>6 DEF Destroy, HandleMsg, SetTimer, ticks
<1>7. CASE UNCHANGED vars
  BY <1>7 DEF vars, ticks
<1>8. QED
  BY <1>1, <1>2, <1>3, <1>4, <1>5, <1>6, <1>7 DEF Next, Click

(* As long as OnAlarm has overlapped neither another OnAlarm nor           *)
(* GetPassedTime, the ticks the alarms have added are the ticks Click has  *)
(* taken and those that wait in m_iTick.                                   *)
THEOREM NoTickLost == Spec => []TicksConserved
<1>1. Init => TicksInv
  BY DEF Init, TicksInv
<1>2. TicksInv => TicksConserved
  BY DEF TicksInv, TicksConserved
<1>3. QED
  BY <1>1, <1>2, TicksInvStep, TypeInvariance, PTL DEF Spec

-----------------------------------------------------------------------------
(* Where PlaceTimer has put t, and nothing else has moved.                 *)
LEMMA PlaceTimerLists ==
    ASSUME TypeOK, NEW t \in Timers, NEW r \in Nat, PlaceTimer(t, r, slot)
    PROVE  \E i \in Wheels, p \in Pos :
              /\ slot' = [slot EXCEPT ![i][p] = @ \cup {t}]
              /\ i <= made' /\ made <= made' /\ made' \in 0 .. 2
<1> DEFINE i == IF r < GetMaxTime(1) THEN 1 ELSE 2
           rest == IF i = 1 THEN r ELSE r + GetPassedTime(1)
           p == SlotFor(i, rest \div GetMinTime(i))
<1>1. i \in Wheels
  BY DEF Wheels
<1>2. rest \in Nat
  <2>1. m_iCursor[1] \in Nat /\ GetMinTime(1) \in Nat
    BY MinTimePositive DEF TypeOK, Pos, Wheels
  <2>2. QED
    BY <2>1 DEF GetPassedTime
<1>3. p \in Pos
  <2>1. \A x \in Nat, y \in Nat \ {0} : x \div y \in Nat
    OBVIOUS
  <2>2. rest \div GetMinTime(i) \in Nat
    BY <1>1, <1>2, <2>1, MinTimePositive
  <2>3. QED
    BY <1>1, <2>2, SlotForInWheel
<1>4. /\ slot' = [slot EXCEPT ![i][p] = @ \cup {t}]
      /\ made' = IF made < i THEN i ELSE made
  BY DEF PlaceTimer
<1> HIDE DEF i, rest, p
<1>5. i <= made' /\ made <= made' /\ made' \in 0 .. 2
  BY <1>1, <1>4 DEF TypeOK, Wheels
<1>6. QED
  BY <1>1, <1>3, <1>4, <1>5

LEMMA ListedOnceStep == TypeInv /\ ListedOnce /\ [Next]_vars => ListedOnce'
<1> SUFFICES ASSUME TypeInv, ListedOnce, [Next]_vars
             PROVE  ListedOnce'
  OBVIOUS
<1> USE DEF TypeInv, TypeOK, ListedOnce, Listed
<1>1. ASSUME NEW a \in Alarms, OnAlarmLoad(a) \/ OnAlarmStore(a)
      PROVE  ListedOnce'
  BY <1>1 DEF OnAlarmLoad, OnAlarmStore, wheels, timers
<1>2. ASSUME ReadTick \/ ClearTick \/ ClickDone \/ WheelDone
      PROVE  ListedOnce'
  BY <1>2 DEF ReadTick, ClearTick, ClickDone, WheelDone, wheels, timers
<1>3. CASE WheelClick
  <2> DEFINE cur == (m_iCursor[wheel] + 1) % Slots
  <2>1. cur \in Pos
    BY WheelAssumption DEF Pos
  <2>2. /\ m_pItem = {} /\ pc' = "pop"
        /\ m_pItem' = slot[wheel][cur]
        /\ slot' = [slot EXCEPT ![wheel][cur] = {}]
        /\ UNCHANGED <<made, life, msgQueue>>
    BY <1>3 DEF WheelClick, timers
  <2> HIDE DEF cur
  <2>3. QED
    BY <2>1, <2>2
<1>4. ASSUME NEW t \in Timers, PopTimer(t)
      PROVE  ListedOnce'
  <2> DEFINE r == m_iRemain[t] % GetMinTime(wheel)
  <2>1. r \in Nat
    <3>1. \A x \in Nat, y \in Nat \ {0} : x % y \in Nat
      OBVIOUS
    <3>2. QED
      BY <3>1, MinTimePositive
  <2>2. /\ t \in m_pItem /\ m_pItem' = m_pItem \ {t}
        /\ pc = "pop" /\ pc' = "pop"
    BY <1>4 DEF PopTimer
  <2>3. CASE /\ life' = [life EXCEPT ![t] = "fired"]
             /\ msgQueue' = msgQueue \cup {t}
             /\ UNCHANGED wheels
    BY <2>2, <2>3 DEF wheels
  <2>4. CASE /\ PlaceTimer(t, r, slot)
             /\ UNCHANGED <<m_iCursor, life, msgQueue>>
    <3>1. PICK i \in Wheels, p \in Pos :
             /\ slot' = [slot EXCEPT ![i][p] = @ \cup {t}]
             /\ i <= made' /\ made <= made' /\ made' \in 0 .. 2
      BY <2>1, <2>4, PlaceTimerLists
    <3>2. \A u \in Timers, j \in Wheels, q \in Pos :
             Listed(u, j, q)' <=> Listed(u, j, q) \/ (u = t /\ j = i /\ q = p)
      BY <3>1
    <3>3. \A j \in Wheels, q \in Pos : ~Listed(t, j, q)
      BY <2>2
    <3>4. i <= made' /\ \A j \in Wheels : j <= made => j <= made'
      BY <3>1 DEF Wheels
    <3>5. life' = life /\ msgQueue' = msgQueue
      BY <2>4
    <3> HIDE DEF TypeInv, TypeOK, Listed
    <3>6. QED
      BY <2>2, <3>2, <3>3, <3>4, <3>5
  <2>5. QED
    BY <1>4, <2>3, <2>4 DEF PopTimer
<1>5. ASSUME NEW t \in Timers, NEW d \in Delays, SetTimer(t, d)
      PROVE  ListedOnce'
  <2>1. PICK i \in Wheels, p \in Pos :
           /\ slot' = [slot EXCEPT ![i][p] = @ \cup {t}]
           /\ i <= made' /\ made <= made' /\ made' \in 0 .. 2
    BY <1>5, PlaceTimerLists, WheelAssumption DEF SetTimer
  <2>2. /\ life[t] = "free" /\ t \notin msgQueue
        /\ life' = [life EXCEPT ![t] = "armed"]
        /\ UNCHANGED <<pc, m_pItem, msgQueue>>
    BY <1>5 DEF SetTimer
  <2>3. \A u \in Timers, j \in Wheels, q \in Pos :
           Listed(u, j, q)' <=> Listed(u, j, q) \/ (u = t /\ j = i /\ q = p)
    BY <2>1
  <2>4. \A j \in Wheels, q \in Pos : ~Listed(t, j, q)
    BY <2>2
  <2>5. i <= made' /\ \A j \in Wheels : j <= made => j <= made'
    BY <2>1 DEF Wheels
  <2>6. t \notin m_pItem
    BY <2>2
  <2>7. \A u \in Timers : life'[u] = IF u = t THEN "armed" ELSE life[u]
    BY <2>2
  <2> HIDE DEF TypeInv, TypeOK, Listed
  <2>8. QED
    BY <2>2, <2>3, <2>4, <2>5, <2>6, <2>7
<1>6. ASSUME NEW t \in Timers, Destroy(t)
      PROVE  ListedOnce'
  BY <1>6 DEF Destroy
<1>7. ASSUME NEW t \in Timers, HandleMsg(t)
      PROVE  ListedOnce'
  BY <1>7 DEF HandleMsg, wheels
<1>8. CASE UNCHANGED vars
  BY <1>8 DEF vars, wheels, timers
<1>9. QED
  BY <1>1, <1>2, <1>3, <1>4, <1>5, <1>6, <1>7, <1>8 DEF Next, Click

(* A timer that has not fired is in exactly one list and any other timer   *)
(* in none, so that ~CThreadWheelTimer unlinks it where it is and its      *)
(* message is posted or deleted, never both.                               *)
THEOREM ListsDisjoint == Spec => []ListedOnce
<1>1. Init => ListedOnce
  BY DEF Init, ListedOnce, Listed
<1>2. QED
  BY <1>1, ListedOnceStep, TypeInvariance, PTL DEF Spec
-----------------------------------------------------------------------------
(* Time.  First what / and % do, which the provers do not know of variable *)
(* divisors.                                                               *)
LEMMA TimesMonotone ==
    ASSUME NEW a \in Nat, NEW b \in Nat, NEW c \in Nat, a <= b
    PROVE  a * c <= b * c
<1>1. (b - a) * c \in Nat
  <2>1. \A x \in Nat, y \in Nat : x * y \in Nat
    OBVIOUS
  <2>2. QED
    BY <2>1
<1>2. b * c = a * c + (b - a) * c
  OBVIOUS
<1>3. a * c \in Nat /\ b * c \in Nat
  OBVIOUS
<1>4. QED
  BY <1>1, <1>2, <1>3

LEMMA DivMod ==
    ASSUME NEW a \in Nat, NEW b \in Nat \ {0}
    PROVE  a \div b \in Nat /\ a % b \in 0 .. b - 1 /\ a = ((a \div b) * b) + (a % b)
OBVIOUS

LEMMA DivModUnique ==
    ASSUME NEW b \in Nat \ {0}, NEW q \in Nat, NEW r \in 0 .. b - 1
    PROVE  (q * b + r) \div b = q /\ (q * b + r) % b = r
<1> DEFINE a == q * b + r
           x == a \div b
           y == a % b
<1>1. a \in Nat
  <2>1. q * b \in Nat
    OBVIOUS
  <2>2. QED
    BY <2>1
<1>2. x \in Nat /\ y \in 0 .. b - 1 /\ x * b + y = q * b + r
  BY <1>1, DivMod
<1> HIDE DEF x, y, a
<1>3. ~(x < q)
  <2> SUFFICES ASSUME x + 1 <= q
               PROVE  FALSE
    BY <1>2
  <2>1. (x + 1) * b <= q * b
    BY <1>2, TimesMonotone
  <2>2. (x + 1) * b = x * b + b /\ x * b \in Nat /\ q * b \in Nat
    BY <1>2
  <2>3. QED
    BY <1>2, <2>1, <2>2
<1>4. ~(q < x)
  <2> SUFFICES ASSUME q + 1 <= x
               PROVE  FALSE
    BY <1>2
  <2>1. (q + 1) * b <= x * b
    BY <1>2, TimesMonotone
  <2>2. (q + 1) * b = q * b + b /\ x * b \in Nat /\ q * b \in Nat
    BY <1>2
  <2>3. QED
    BY <1>2, <2>1, <2>2
<1>5. x = q
  BY <1>2, <1>3, <1>4
<1>6. y = r
  <2>1. q * b \in Nat
    OBVIOUS
  <2>2. QED
    BY <1>2, <1>5, <2>1
<1>7. QED
  BY <1>5, <1>6 DEF x, y, a

(* Clicks of wheel i until the slot p is emptied.                          *)
Clicks(i, p) == IF p > m_iCursor[i] THEN p - m_iCursor[i] ELSE p - m_iCursor[i] + Slots

\* The first wheel has completed a turn, the second has still to move.
Owed ==
    IF \/ pc = "pop" /\ wheel = 1 /\ m_iCursor[1] = 0 /\ made = 2
       \/ pc = "tick" /\ wheel = 2
    THEN Slots ELSE 0

\* Ticks the first wheel will count when t drops to it.
Rest(t) == (m_iRemain[t] % (Slots * TimeUnit)) \div TimeUnit

(* The ticks a timer has still to see are those its slot is away, plus     *)
(* what is left of its delay when the second wheel lets it go.             *)
TimeInv ==
    /\ wheel = 2 => pc \in {"tick", "pop"} /\ m_iCursor[1] = 0 /\ made = 2 /\ click > 0
    /\ \A t \in Timers :
          /\ \A p \in Pos : Listed(t, 1, p) => left[t] = Clicks(1, p)
          /\ \A p \in Pos :
                Listed(t, 2, p) => left[t] = Clicks(2, p) * Slots - m_iCursor[1] - Owed + Rest(t)
          /\ t \in m_pItem => left[t] = IF wheel = 1 THEN 0 ELSE Rest(t)

LEMMA Constants ==
    /\ Slots \in Nat \ {0} /\ Slots > 1 /\ TimeUnit \in Nat \ {0}
    /\ Slots * TimeUnit \in Nat \ {0}
    /\ GetMinTime(1) = TimeUnit /\ GetMinTime(2) = Slots * TimeUnit
    /\ GetMaxTime(1) = Slots * TimeUnit
<1>1. Slots \in Nat \ {0} /\ Slots > 1 /\ TimeUnit \in Nat \ {0}
  BY WheelAssumption
<1>2. \A a, b \in Nat \ {0} : a * b \in Nat \ {0}
  OBVIOUS
<1>3. GetMinTime(1) = TimeUnit /\ GetMinTime(2) = Slots * TimeUnit
  BY DEF GetMinTime
<1>4. GetMaxTime(1) = Slots * TimeUnit
  BY <1>1, <1>3 DEF GetMaxTime
<1>5. QED
  BY <1>1, <1>2, <1>3, <1>4

LEMMA SlotAhead ==
    ASSUME TypeOK, NEW i \in Wheels, NEW place \in 0 .. Slots - 1
    PROVE  /\ SlotFor(i, place) \in Pos
           /\ Clicks(i, SlotFor(i, place)) = IF place = 0 THEN 1 ELSE place
<1> DEFINE S == Slots
           c == m_iCursor[i]
           x == IF place = 0 THEN 1 ELSE place
<1>1. S \in Nat \ {0} /\ S > 1 /\ c \in 0 .. S - 1 /\ x \in 1 .. S - 1
  BY Constants DEF TypeOK, Pos
<1>2. place % S = place
  <2>1. (0 * S + place) % S = place
    BY <1>1, DivModUnique
  <2>2. 0 * S + place = place
    BY <1>1
  <2>3. QED
    BY <2>1, <2>2
<1>3. SlotFor(i, place) = (c + x) % S
  BY <1>2 DEF SlotFor
<1> HIDE DEF S, c, x
<1>4. CASE c + x < S
  <2>1. (0 * S + (c + x)) % S = c + x
    BY <1>1, <1>4, DivModUnique
  <2>2. 0 * S + (c + x) = c + x
    BY <1>1
  <2>3. SlotFor(i, place) = c + x /\ c + x > c /\ (c + x) - c = x /\ c + x \in 0 .. S - 1
    BY <1>1, <1>3, <1>4, <2>1, <2>2
  <2>4. QED
    BY <2>3, <1>1 DEF Clicks, Pos, S, c, x
<1>5. CASE c + x >= S
  <2>0. c + x - S \in 0 .. S - 1 /\ 1 \in Nat
    BY <1>1, <1>5
  <2>1. (1 * S + (c + x - S)) % S = c + x - S
    BY <1>1, <2>0, DivModUnique
  <2>2. 1 * S + (c + x - S) = c + x
    BY <1>1
  <2>3. /\ SlotFor(i, place) = c + x - S /\ ~(c + x - S > c) /\ (c + x - S) - c + S = x
        /\ c + x - S \in 0 .. S - 1
    BY <1>1, <1>3, <1>5, <2>1, <2>2
  <2>4. QED
    BY <2>3, <1>1 DEF Clicks, Pos, S, c, x
<1>6. QED
  BY <1>1, <1>4, <1>5

(* The place in the second wheel and the rest together are the delay.      *)
LEMMA SecondWheel ==
    ASSUME NEW c \in 0 .. Slots - 1, NEW r \in Nat, r >= Slots * TimeUnit,
           r + (Slots - 1) * TimeUnit < Slots * Slots * TimeUnit,
           NEW rest, rest = r + c * TimeUnit,
           NEW place, place = rest \div (Slots * TimeUnit)
    PROVE  /\ rest \in Nat /\ place \in 1 .. Slots - 1
           /\ place * Slots - c + ((rest % (Slots * TimeUnit)) \div TimeUnit) = r \div TimeUnit
<1> DEFINE S == Slots
           U == TimeUnit
           T == S * U
           w == rest % T
           v == w \div U
           u == w % U
<1>1. S \in Nat \ {0} /\ S > 1 /\ U \in Nat \ {0} /\ T \in Nat \ {0}
  BY Constants
<1>2. c * U \in Nat /\ rest \in Nat
  <2>1. c \in Nat
    BY <1>1
  <2>2. c * U \in Nat
    BY <1>1, <2>1
  <2>3. QED
    BY <2>2
<1>3. place \in Nat /\ w \in 0 .. T - 1 /\ rest = (place * T) + w
  BY <1>1, <1>2, DivMod
<1>a. w \in Nat
  BY <1>1, <1>3
<1> HIDE DEF T, w, U, S
<1>4. v \in Nat /\ u \in 0 .. U - 1 /\ w = (v * U) + u
  BY <1>1, <1>a, DivMod
<1> HIDE DEF v, u
<1>5. c \in Nat /\ c <= S - 1 /\ rest = r + c * U /\ r >= T
  BY <1>1 DEF S, U, T
<1>6. place >= 1
  <2> SUFFICES ASSUME place = 0
               PROVE  FALSE
    BY <1>3
  <2>1. place * T = 0
    BY <1>1
  <2>2. rest <= T - 1
    BY <1>1, <1>3, <2>1
  <2>3. rest >= T
    BY <1>1, <1>2, <1>5
  <2>4. QED
    BY <1>1, <1>2, <2>2, <2>3
<1>7. place <= S - 1
  <2> SUFFICES ASSUME S <= place
               PROVE  FALSE
    BY <1>1, <1>3
  <2>1. S * T <= place * T
    BY <1>1, <1>3, TimesMonotone
  <2>2. c * U <= (S - 1) * U
    BY <1>1, <1>5, TimesMonotone
  <2>3. S * T = Slots * Slots * TimeUnit
    BY <1>1 DEF T, S, U
  <2>4. r + (S - 1) * U < S * T
    BY <2>3 DEF S, U
  <2>5. S * T \in Nat /\ place * T \in Nat /\ (S - 1) * U \in Nat
    BY <1>1, <1>3
  <2>6. QED
    BY <1>2, <1>3, <1>5, <2>1, <2>2, <2>4, <2>5
<1>8. place * S \in Nat /\ place * S >= S
  <2>1. 1 * S <= place * S
    BY <1>1, <1>3, <1>6, TimesMonotone
  <2>2. QED
    BY <1>1, <1>3, <2>1
<1>9. place * S - c + v \in Nat
  BY <1>1, <1>4, <1>5, <1>8
<1>10. r = (place * S - c + v) * U + u
  <2>1. place * T = (place * S) * U
    BY <1>1, <1>3 DEF T
  <2>2. (place * S - c + v) * U = (place * S) * U - c * U + v * U
    BY <1>1, <1>4, <1>5, <1>8
  <2>3. (place * S) * U \in Nat /\ v * U \in Nat
    BY <1>1, <1>4, <1>8
  <2>4. QED
    BY <1>2, <1>3, <1>4, <1>5, <2>1, <2>2, <2>3
<1>11. r \div U = place * S - c + v
  BY <1>1, <1>4, <1>9, <1>10, DivModUnique
<1>12. QED
  BY <1>1, <1>2, <1>3, <1>6, <1>7, <1>11 DEF T, S, U, v, w

(* A place in the first wheel is at most a turn away.                      *)
LEMMA FirstWheel ==
    ASSUME NEW r \in Nat, r < Slots * TimeUnit
    PROVE  /\ r \div TimeUnit \in 0 .. Slots - 1
           /\ r \div TimeUnit = 0 <=> r < TimeUnit
<1> DEFINE q == r \div TimeUnit
           w == r % TimeUnit
<1>1. Slots \in Nat \ {0} /\ TimeUnit \in Nat \ {0} /\ Slots * TimeUnit \in Nat
  BY Constants
<1>2. q \in Nat /\ w \in 0 .. TimeUnit - 1 /\ r = (q * TimeUnit) + w
  BY <1>1, DivMod
<1> HIDE DEF q, w
<1>3. q * TimeUnit \in Nat
  BY <1>1, <1>2
<1>4. ~(Slots <= q)
  <2> SUFFICES ASSUME Slots <= q
               PROVE  FALSE
    OBVIOUS
  <2>1. Slots * TimeUnit <= q * TimeUnit
    BY <1>1, <1>2, TimesMonotone
  <2>2. QED
    BY <1>1, <1>2, <1>3, <2>1
<1>5. q = 0 => r < TimeUnit
  <2> SUFFICES ASSUME q = 0
               PROVE  r < TimeUnit
    OBVIOUS
  <2>1. q * TimeUnit = 0
    BY <1>1
  <2>2. QED
    BY <1>1, <1>2, <2>1
<1>6. q # 0 => r >= TimeUnit
  <2> SUFFICES ASSUME 1 <= q
               PROVE  r >= TimeUnit
    BY <1>2
  <2>1. 1 * TimeUnit <= q * TimeUnit
    BY <1>1, <1>2, TimesMonotone
  <2>2. QED
    BY <1>1, <1>2, <1>3, <2>1
<1>7. q \in 0 .. Slots - 1 /\ (q = 0 <=> r < TimeUnit)
  BY <1>1, <1>2, <1>4, <1>5, <1>6
<1>8. QED
  BY <1>7 DEF q

(* Where a timer of r ms is placed, the ticks it will see are those that r *)
(* asks for.                                                               *)
LEMMA PlacedAt ==
    ASSUME TypeOK, NEW t \in Timers, NEW r \in Nat, PlaceTimer(t, r, slot),
           r < Slots * TimeUnit \/ r + (Slots - 1) * TimeUnit < Slots * Slots * TimeUnit
    PROVE  \E i \in Wheels, p \in Pos :
              /\ slot' = [slot EXCEPT ![i][p] = @ \cup {t}]
              /\ made' = IF made < i THEN i ELSE made
              /\ \A u \in Timers : u # t => m_iRemain'[u] = m_iRemain[u]
              /\ i = 1 => r < Slots * TimeUnit /\ DueIn(r) = Clicks(1, p)
              /\ i = 2 => /\ r >= Slots * TimeUnit
                          /\ DueIn(r) = Clicks(2, p) * Slots - m_iCursor[1] + Rest(t)'
<1>1. /\ Slots \in Nat \ {0} /\ Slots > 1 /\ TimeUnit \in Nat \ {0} /\ Slots * TimeUnit \in Nat \ {0}
      /\ GetMinTime(1) = TimeUnit /\ GetMinTime(2) = Slots * TimeUnit
      /\ GetMaxTime(1) = Slots * TimeUnit
  BY Constants
<1>2. m_iRemain \in [Timers -> Nat] /\ m_iCursor[1] \in 0 .. Slots - 1 /\ 1 \in Wheels /\ 2 \in Wheels
  BY DEF TypeOK, Wheels, Pos
<1>3. CASE r < Slots * TimeUnit
  <2> DEFINE place == r \div TimeUnit
  <2>1. place \in 0 .. Slots - 1 /\ (place = 0 <=> r < TimeUnit)
    BY <1>3, FirstWheel
  <2>2. /\ slot' = [slot EXCEPT ![1][SlotFor(1, place)] = @ \cup {t}]
        /\ m_iRemain' = [m_iRemain EXCEPT ![t] = r]
        /\ made' = IF made < 1 THEN 1 ELSE made
    BY <1>1, <1>3 DEF PlaceTimer
  <2>3. DueIn(r) = IF place = 0 THEN 1 ELSE place
    BY <2>1 DEF DueIn
  <2> HIDE DEF place
  <2>4. SlotFor(1, place) \in Pos /\ Clicks(1, SlotFor(1, place)) = DueIn(r)
    BY <1>2, <2>1, <2>3, SlotAhead
  <2>5. \A u \in Timers : u # t => m_iRemain'[u] = m_iRemain[u]
    BY <1>2, <2>2
  <2>6. QED
    <3> 1 \in Wheels /\ SlotFor(1, place) \in Pos
      BY <1>2, <2>4
    <3> WITNESS 1 \in Wheels, SlotFor(1, place) \in Pos
    <3> QED
      BY <1>3, <2>2, <2>4, <2>5
<1>4. CASE ~(r < Slots * TimeUnit)
  <2> DEFINE c == m_iCursor[1]
             rest == r + c * TimeUnit
             place == rest \div (Slots * TimeUnit)
  <2>0. r >= Slots * TimeUnit /\ r + (Slots - 1) * TimeUnit < Slots * Slots * TimeUnit
    BY <1>1, <1>4
  <2>1. /\ rest \in Nat /\ place \in 1 .. Slots - 1
        /\ place * Slots - c + ((rest % (Slots * TimeUnit)) \div TimeUnit) = r \div TimeUnit
    BY <1>2, <2>0, SecondWheel
  <2>2. /\ slot' = [slot EXCEPT ![2][SlotFor(2, place)] = @ \cup {t}]
        /\ m_iRemain' = [m_iRemain EXCEPT ![t] = rest]
        /\ made' = IF made < 2 THEN 2 ELSE made
    <3>1. GetPassedTime(1) = c * TimeUnit
      BY <1>1 DEF GetPassedTime
    <3> DEFINE i == IF r < GetMaxTime(1) THEN 1 ELSE 2
               long == IF i = 1 THEN r ELSE r + GetPassedTime(1)
               p == SlotFor(i, long \div GetMinTime(i))
    <3>2. /\ slot' = [slot EXCEPT ![i][p] = @ \cup {t}]
          /\ m_iRemain' = [m_iRemain EXCEPT ![t] = long]
          /\ made' = IF made < i THEN i ELSE made
      BY DEF PlaceTimer
    <3>3. i = 2
      BY <1>1, <1>4
    <3> HIDE DEF i
    <3>4. long = rest
      BY <3>1, <3>3
    <3> HIDE DEF long
    <3>5. p = SlotFor(2, place)
      BY <1>1, <3>3, <3>4
    <3> HIDE DEF p
    <3>6. QED
      BY <3>2, <3>3, <3>4, <3>5
  <2>3. DueIn(r) = r \div TimeUnit
    <3>1. 1 * TimeUnit <= Slots * TimeUnit
      BY <1>1, TimesMonotone
    <3>2. r >= TimeUnit
      BY <1>1, <2>0, <3>1
    <3>3. QED
      BY <1>1, <3>2 DEF DueIn
  <2>4. Rest(t)' = (rest % (Slots * TimeUnit)) \div TimeUnit
    <3>1. m_iRemain'[t] = rest
      BY <1>2, <2>2
    <3>2. QED
      BY <3>1 DEF Rest
  <2> HIDE DEF c, rest, place
  <2>5. place \in 0 .. Slots - 1 /\ place # 0
    BY <1>1, <2>1
  <2>6. SlotFor(2, place) \in Pos /\ Clicks(2, SlotFor(2, place)) = place
    BY <1>2, <2>5, SlotAhead
  <2>7. DueIn(r) = Clicks(2, SlotFor(2, place)) * Slots - c + Rest(t)'
    BY <2>1, <2>3, <2>4, <2>6
  <2>8. \A u \in Timers : u # t => m_iRemain'[u] = m_iRemain[u]
    BY <1>2, <2>2
  <2>9. QED
    <3> 2 \in Wheels /\ SlotFor(2, place) \in Pos
      BY <1>2, <2>6
    <3> WITNESS 2 \in Wheels, SlotFor(2, place) \in Pos
    <3> QED
      BY <2>0, <2>2, <2>6, <2>7, <2>8 DEF c
<1>5. QED
  BY <1>3, <1>4

(* One slot on: the slot under the new cursor was one click away, every    *)
(* other one is one click nearer.                                          *)
LEMMA CursorMoves ==
    ASSUME TypeOK, NEW i \in Wheels, NEW cur, cur = (m_iCursor[i] + 1) % Slots,
           m_iCursor' = [m_iCursor EXCEPT ![i] = cur]
    PROVE  /\ cur \in Pos /\ Clicks(i, cur) = 1
           /\ \A p \in Pos : p # cur => Clicks(i, p)' = Clicks(i, p) - 1
           /\ \A j \in Wheels : j # i => \A p \in Pos : Clicks(j, p)' = Clicks(j, p)
           /\ cur = IF m_iCursor[i] = Slots - 1 THEN 0 ELSE m_iCursor[i] + 1
<1> DEFINE S == Slots
           c == m_iCursor[i]
<1>1. S \in Nat \ {0} /\ S > 1 /\ c \in 0 .. S - 1
  BY Constants DEF TypeOK, Pos
<1>2. m_iCursor'[i] = cur /\ \A j \in Wheels : j # i => m_iCursor'[j] = m_iCursor[j]
  BY DEF TypeOK
<1>3. cur = IF c = S - 1 THEN 0 ELSE c + 1
  <2> HIDE DEF S, c
  <2>1. CASE c = S - 1
    <3>1. 1 \in Nat /\ 0 \in 0 .. S - 1
      BY <1>1
    <3>2. (1 * S + 0) % S = 0
      BY <1>1, <3>1, DivModUnique
    <3>3. 1 * S + 0 = c + 1
      BY <1>1, <2>1
    <3>4. QED
      BY <2>1, <3>2, <3>3 DEF S, c
  <2>2. CASE c # S - 1
    <3>1. 0 \in Nat /\ c + 1 \in 0 .. S - 1
      BY <1>1, <2>2
    <3>2. (0 * S + (c + 1)) % S = c + 1
      BY <1>1, <3>1, DivModUnique
    <3>3. 0 * S + (c + 1) = c + 1
      BY <1>1
    <3>4. QED
      BY <2>2, <3>2, <3>3 DEF S, c
  <2>3. QED
    BY <2>1, <2>2
<1>4. cur \in Pos /\ Clicks(i, cur) = 1
  BY <1>1, <1>3 DEF Pos, Clicks
<1>5. ASSUME NEW p \in Pos, p # cur
      PROVE  Clicks(i, p)' = Clicks(i, p) - 1
  BY <1>1, <1>2, <1>3, <1>5 DEF Pos, Clicks
<1>6. ASSUME NEW j \in Wheels, j # i, NEW p \in Pos
      PROVE  Clicks(j, p)' = Clicks(j, p)
  BY <1>2, <1>6 DEF Clicks
<1>7. QED
  BY <1>3, <1>4, <1>5, <1>6

(* The ticks of a timer that is placed, in SetTimer and in Click.          *)
LEMMA PlaceKeepsTime ==
    ASSUME TypeInv, ListedOnce, NEW t \in Timers, NEW r \in Nat, PlaceTimer(t, r, slot),
           r < Slots * TimeUnit \/ r + (Slots - 1) * TimeUnit < Slots * Slots * TimeUnit,
           \A i \in Wheels, p \in Pos : ~Listed(t, i, p),
           UNCHANGED <<m_iCursor, pc, wheel>>, left'[t] = DueIn(r),
           \A u \in Timers : u # t => left'[u] = left[u],
           pc = "main" \/ (pc = "pop" /\ wheel = 2 /\ r < Slots * TimeUnit /\ made = 2),
           pc = "main" => wheel = 1,
           t \notin m_pItem', m_pItem' \subseteq m_pItem, TimeInv, click' = click
    PROVE  TimeInv'
<1>1. TypeOK /\ made \in 0 .. 2 /\ wheel \in {1, 2}
  BY DEF TypeInv, TypeOK, Wheels
<1>2. PICK i \in Wheels, p \in Pos :
              /\ slot' = [slot EXCEPT ![i][p] = @ \cup {t}]
              /\ made' = IF made < i THEN i ELSE made
              /\ \A u \in Timers : u # t => m_iRemain'[u] = m_iRemain[u]
              /\ i = 1 => r < Slots * TimeUnit /\ DueIn(r) = Clicks(1, p)
              /\ i = 2 => /\ r >= Slots * TimeUnit
                          /\ DueIn(r) = Clicks(2, p) * Slots - m_iCursor[1] + Rest(t)'
  BY <1>1, PlacedAt
<1>3. \A u \in Timers, j \in Wheels, q \in Pos :
         Listed(u, j, q)' <=> Listed(u, j, q) \/ (u = t /\ j = i /\ q = p)
  BY <1>1, <1>2 DEF Listed, TypeOK
<1>4. \A j, q : Clicks(j, q)' = Clicks(j, q)
  BY DEF Clicks
<1>5. Slots \in Nat \ {0} /\ m_iCursor[1] \in Nat /\ Slots * TimeUnit \in Nat
  BY <1>1, Constants DEF TypeOK, Wheels, Pos
<1>6. Owed' = Owed /\ (i = 2 => Owed = 0)
  BY <1>1, <1>2, <1>5 DEF Owed, TimeInv
<1>7. \A u \in Timers : u # t => Rest(u)' = Rest(u)
  BY <1>2 DEF Rest
<1>8. wheel = 2 => made' = 2
  BY <1>1, <1>2 DEF TimeInv, Wheels
<1>9. \A q \in Pos : Clicks(1, q) \in Int /\ Clicks(2, q) * Slots - m_iCursor[1] \in Int
  <2>1. \A q \in Pos : Clicks(1, q) \in Int /\ Clicks(2, q) \in Int
    BY <1>1, <1>5 DEF Clicks, TypeOK, Wheels, Pos
  <2>2. QED
    BY <1>5, <2>1
<1>10. ASSUME NEW u \in Timers, NEW q \in Pos, Listed(u, 1, q)'
       PROVE  left'[u] = Clicks(1, q)'
  BY <1>2, <1>3, <1>4, <1>10 DEF TimeInv, Wheels
<1>11. ASSUME NEW u \in Timers, NEW q \in Pos, Listed(u, 2, q)'
       PROVE  left'[u] = Clicks(2, q)' * Slots - m_iCursor'[1] - Owed' + Rest(u)'
  <2>1. CASE u = t
    <3>1. i = 2 /\ q = p
      BY <1>3, <1>11, <2>1 DEF Wheels
    <3>2. left'[u] = Clicks(2, q) * Slots - m_iCursor[1] + Rest(u)' /\ Owed' = 0
      BY <1>2, <1>6, <2>1, <3>1
    <3>3. Clicks(2, q) * Slots - m_iCursor[1] - 0 = Clicks(2, q) * Slots - m_iCursor[1]
      BY <1>9
    <3>4. QED
      BY <1>4, <3>2, <3>3
  <2>2. CASE u # t
    <3>1. left[u] = Clicks(2, q) * Slots - m_iCursor[1] - Owed + Rest(u)
      BY <1>3, <1>11, <2>2 DEF TimeInv, Wheels
    <3>2. QED
      BY <1>4, <1>6, <1>7, <2>2, <3>1
  <2>3. QED
    BY <2>1, <2>2
<1>12. ASSUME NEW u \in m_pItem'
       PROVE  left'[u] = IF wheel' = 1 THEN 0 ELSE Rest(u)'
  BY <1>1, <1>7, <1>12 DEF TimeInv, TypeOK
<1>13. wheel' = 2 => pc' \in {"tick", "pop"} /\ m_iCursor'[1] = 0 /\ made' = 2 /\ click' > 0
  BY <1>8 DEF TimeInv
<1>14. QED
  BY <1>10, <1>11, <1>12, <1>13 DEF TimeInv

LEMMA ClickKeepsTime ==
    ASSUME TypeInv, ListedOnce, TimeInv, WheelClick
    PROVE  TimeInv'
<1>a. PICK w \in Wheels : wheel = w
  BY DEF TypeInv, TypeOK
<1>b. PICK cur : cur = (m_iCursor[w] + 1) % Slots
  OBVIOUS
<1>1. /\ pc = "tick" /\ pc' = "pop" /\ click > 0 /\ click' = click /\ w <= made /\ w \in Wheels
      /\ wheel' = w /\ made' = made /\ made \in 0 .. 2 /\ UNCHANGED <<m_iRemain, life>>
      /\ m_iCursor' = [m_iCursor EXCEPT ![w] = cur]
      /\ m_pItem' = slot[w][cur]
      /\ slot' = [slot EXCEPT ![w][cur] = {}]
  BY <1>a, <1>b DEF WheelClick, TypeInv, TypeOK, timers
<1>2. left' = [t \in Timers |->
                   IF w = 1 /\ life[t] = "armed" /\ left[t] >= 0
                   THEN left[t] - 1 ELSE left[t]]
  BY <1>a DEF WheelClick
<1>3. /\ cur \in Pos /\ Clicks(w, cur) = 1
      /\ \A p \in Pos : p # cur => Clicks(w, p)' = Clicks(w, p) - 1
      /\ \A j \in Wheels : j # w => \A p \in Pos : Clicks(j, p)' = Clicks(j, p)
      /\ cur = IF m_iCursor[w] = Slots - 1 THEN 0 ELSE m_iCursor[w] + 1
  BY <1>1, <1>b, CursorMoves DEF TypeInv
<1>4. /\ Slots \in Nat /\ Slots > 1 /\ m_iCursor[1] \in 0 .. Slots - 1
      /\ \A t \in Timers : left[t] \in Int
  BY Constants DEF TypeInv, TypeOK, Wheels, Pos
<1>5. \A u \in Timers, j \in Wheels, q \in Pos :
         /\ Listed(u, j, q)' => Listed(u, j, q) /\ (j = w => q # cur) /\ life[u] = "armed" /\ j <= made
         /\ u \in m_pItem' => Listed(u, w, cur) /\ life[u] = "armed"
  <2>1. \A u \in Timers, j \in Wheels, q \in Pos : Listed(u, j, q) => life[u] = "armed" /\ j <= made
    BY DEF ListedOnce
  <2>2. \A u \in Timers, j \in Wheels, q \in Pos :
         /\ Listed(u, j, q)' => Listed(u, j, q) /\ (j = w => q # cur)
    BY <1>1, <1>3 DEF Listed, TypeInv, TypeOK
  <2>3. \A u \in Timers : u \in m_pItem' => Listed(u, w, cur)
    BY <1>1 DEF Listed
  <2>4. QED
    BY <1>1, <1>3, <2>1, <2>2, <2>3
<1>6. \A t : Rest(t)' = Rest(t)
  BY <1>1 DEF Rest
<1>7. \A j \in Wheels, q \in Pos : Clicks(j, q) \in 1 .. Slots /\ Clicks(j, q) * Slots \in Nat
  <2>1. \A j \in Wheels, q \in Pos : Clicks(j, q) \in 1 .. Slots
    BY <1>4 DEF Clicks, TypeInv, TypeOK, Pos
  <2>2. \A a \in 1 .. Slots : a * Slots \in Nat
    BY <1>4
  <2>3. QED
    BY <2>1, <2>2
<1>8. \A t \in Timers : Rest(t) \in Nat
  <2>1. \A x \in Nat, y \in Nat \ {0} : x \div y \in Nat /\ x % y \in Nat
    OBVIOUS
  <2>2. \A t \in Timers : m_iRemain[t] \in Nat
    BY DEF TypeInv, TypeOK
  <2>3. QED
    BY <2>1, <2>2, Constants DEF Rest
<1>9. CASE w = 1
  <2>1. \A q \in Pos : Clicks(2, q)' = Clicks(2, q)
    BY <1>3, <1>9 DEF Wheels
  <2>2. m_iCursor'[1] = cur /\ Owed = 0
    BY <1>1, <1>a, <1>9 DEF Owed, TypeInv, TypeOK
  <2>3. Owed' = IF cur = 0 /\ made = 2 THEN Slots ELSE 0
    BY <1>1, <1>a, <1>9, <2>2 DEF Owed
  <2>4. ASSUME NEW t \in Timers, NEW q \in Pos, Listed(t, 1, q)'
        PROVE  left'[t] = Clicks(1, q)'
    <3>1. Listed(t, 1, q) /\ q # cur /\ life[t] = "armed"
      BY <1>5, <1>9, <2>4 DEF Wheels
    <3>2. left[t] = Clicks(1, q) /\ left[t] >= 0
      BY <1>7, <3>1 DEF TimeInv, Wheels
    <3>3. left'[t] = left[t] - 1
      BY <1>2, <1>9, <3>1, <3>2
    <3>4. QED
      BY <1>3, <1>9, <3>1, <3>2, <3>3
  <2>5. ASSUME NEW t \in Timers, NEW q \in Pos, Listed(t, 2, q)'
        PROVE  left'[t] = Clicks(2, q)' * Slots - m_iCursor'[1] - Owed' + Rest(t)'
    <3>1. Listed(t, 2, q) /\ life[t] = "armed" /\ made = 2
      BY <1>1, <1>5, <2>5 DEF Wheels
    <3> DEFINE k == Clicks(2, q) * Slots
    <3>2. k \in Nat /\ k >= Slots
      <4>1. 1 * Slots <= Clicks(2, q) * Slots /\ 2 \in Wheels
        BY <1>4, <1>7, TimesMonotone DEF Wheels
      <4>2. QED
        BY <1>4, <1>7, <4>1
    <3>3. left[t] = k - m_iCursor[1] - Owed + Rest(t)
      BY <3>1 DEF TimeInv
    <3>4. Clicks(2, q)' * Slots = k
      BY <2>1
    <3> HIDE DEF k
    <3>5. left[t] >= 0
      BY <1>4, <1>8, <2>2, <3>2, <3>3
    <3>6. left'[t] = left[t] - 1
      BY <1>2, <1>9, <3>1, <3>5
    <3>7. k - m_iCursor[1] - 0 + Rest(t) - 1 = k - cur - Owed' + Rest(t)
      BY <1>3, <1>4, <1>8, <1>9, <2>3, <3>1, <3>2
    <3>8. left'[t] = k - cur - Owed' + Rest(t)
      <4>1. left[t] = k - m_iCursor[1] - 0 + Rest(t)
        BY <2>2, <3>3
      <4>2. left'[t] = k - m_iCursor[1] - 0 + Rest(t) - 1
        BY <1>4, <1>8, <3>2, <3>6, <4>1
      <4>3. QED
        BY <3>7, <4>2
    <3>9. QED
      BY <1>6, <2>2, <3>4, <3>8
  <2>6. ASSUME NEW t \in m_pItem'
        PROVE  left'[t] = 0
    <3>1. t \in Timers /\ Listed(t, 1, cur) /\ life[t] = "armed"
      <4>1. t \in Timers
        BY <1>1, <1>3, <2>6 DEF TypeInv, TypeOK
      <4>2. QED
        BY <1>1, <1>3, <1>5, <1>9, <2>6, <4>1
    <3>2. left[t] = 1
      BY <1>3, <1>9, <3>1 DEF TimeInv
    <3>3. QED
      BY <1>2, <1>9, <3>1, <3>2
  <2>7. \A t \in Timers : t \in m_pItem' => left'[t] = IF wheel' = 1 THEN 0 ELSE Rest(t)'
    BY <1>1, <1>9, <2>6
  <2>8. wheel' # 2
    BY <1>1, <1>9
  <2>9. QED
    BY <2>4, <2>5, <2>7, <2>8 DEF TimeInv
<1>10. CASE w = 2
  <2>1. \A q \in Pos : Clicks(1, q)' = Clicks(1, q)
    BY <1>3, <1>10 DEF Wheels
  <2>2. /\ m_iCursor'[1] = m_iCursor[1] /\ m_iCursor[1] = 0 /\ made = 2
        /\ Owed = Slots /\ Owed' = 0 /\ left' = [t \in Timers |-> left[t]]
    <3>1. m_iCursor'[1] = m_iCursor[1] /\ m_iCursor[1] = 0 /\ made = 2
      BY <1>1, <1>a, <1>10 DEF TypeInv, TypeOK, TimeInv, Wheels
    <3>2. Owed = Slots /\ Owed' = 0
      BY <1>1, <1>a, <1>10 DEF Owed
    <3>3. QED
      BY <1>2, <1>10, <3>1, <3>2
  <2>3. ASSUME NEW t \in Timers, NEW q \in Pos, Listed(t, 1, q)'
        PROVE  left'[t] = Clicks(1, q)'
    <3>1. Listed(t, 1, q)
      BY <1>5, <2>3 DEF Wheels
    <3>2. QED
      BY <2>1, <2>2, <3>1 DEF TimeInv
  <2>4. ASSUME NEW t \in Timers, NEW q \in Pos, Listed(t, 2, q)'
        PROVE  left'[t] = Clicks(2, q)' * Slots - m_iCursor'[1] - Owed' + Rest(t)'
    <3>1. Listed(t, 2, q) /\ q # cur /\ 2 \in Wheels
      BY <1>5, <1>10, <2>4 DEF Wheels
    <3>2. left[t] = Clicks(2, q) * Slots - 0 - Slots + Rest(t)
      BY <2>2, <3>1 DEF TimeInv
    <3> DEFINE k == Clicks(2, q)
    <3>3. k \in Nat /\ Clicks(2, q)' = k - 1
      BY <1>3, <1>7, <1>10, <3>1
    <3> HIDE DEF k
    <3>4. (k - 1) * Slots = k * Slots - Slots /\ k * Slots \in Nat
      BY <1>4, <3>3
    <3>5. left[t] = (k - 1) * Slots - 0 - 0 + Rest(t)
      BY <1>4, <1>8, <3>2, <3>4 DEF k
    <3>6. QED
      BY <1>6, <2>2, <3>3, <3>5
  <2>5. ASSUME NEW t \in Timers, t \in m_pItem'
        PROVE  left'[t] = IF wheel' = 1 THEN 0 ELSE Rest(t)'
    <3>1. Listed(t, 2, cur)
      BY <1>1, <1>3, <1>5, <1>10, <2>5
    <3>2. left[t] = 1 * Slots - 0 - Slots + Rest(t)
      BY <1>3, <1>10, <2>2, <3>1 DEF TimeInv
    <3>3. QED
      BY <1>1, <1>4, <1>6, <1>8, <1>10, <2>2, <3>2
  <2>6. wheel' = 2 => pc' \in {"tick", "pop"} /\ m_iCursor'[1] = 0 /\ made' = 2 /\ click' > 0
    BY <1>1, <2>2
  <2>7. QED
    BY <2>3, <2>4, <2>5, <2>6 DEF TimeInv
<1>11. QED
  BY <1>1, <1>9, <1>10 DEF Wheels

LEMMA PopKeepsTime ==
    ASSUME TypeInv, ListedOnce, TimeInv, NEW t \in Timers, PopTimer(t)
    PROVE  TimeInv' /\ (life[t] = "armed" /\ life'[t] = "fired" => left[t] = 0)
<1> DEFINE r == m_iRemain[t] % GetMinTime(wheel)
<1>1. /\ pc = "pop" /\ t \in m_pItem /\ m_pItem' = m_pItem \ {t}
      /\ UNCHANGED <<pc, click, wheel, left>>
  BY DEF PopTimer
<1>2. wheel \in Wheels /\ m_iRemain[t] \in Nat /\ TypeOK /\ left[t] \in Int
      /\ m_iRemain \in [Timers -> Nat]
  BY DEF TypeInv, TypeOK
<1>3. r \in 0 .. GetMinTime(wheel) - 1 /\ GetMinTime(wheel) \in Nat
  BY <1>2, MinTimePositive, DivMod
<1>4. \A i \in Wheels, p \in Pos : ~Listed(t, i, p)
  BY <1>1 DEF ListedOnce
<1>5. wheel = 2 => left[t] = r \div TimeUnit /\ r < Slots * TimeUnit /\ made = 2
  <2> SUFFICES ASSUME wheel = 2
               PROVE  left[t] = r \div TimeUnit /\ r < Slots * TimeUnit /\ made = 2
    OBVIOUS
  <2>1. GetMinTime(wheel) = Slots * TimeUnit
    BY Constants
  <2>2. left[t] = Rest(t) /\ made = 2
    BY <1>1 DEF TimeInv
  <2>3. r < Slots * TimeUnit
    <3> HIDE DEF r
    <3>1. QED
      BY <1>3, <2>1
  <2>4. QED
    BY <2>1, <2>2, <2>3 DEF Rest
<1>6. wheel = 1 => r < TimeUnit /\ left[t] = 0
  <2> SUFFICES ASSUME wheel = 1
               PROVE  r < TimeUnit /\ left[t] = 0
    OBVIOUS
  <2>1. GetMinTime(wheel) = TimeUnit
    BY Constants
  <2>2. left[t] = 0
    BY <1>1 DEF TimeInv
  <2> HIDE DEF r
  <2>3. QED
    BY <1>3, <2>1, <2>2, Constants
<1>7. r < TimeUnit => left[t] = 0
  <2> SUFFICES ASSUME r < TimeUnit, wheel = 2
               PROVE  left[t] = 0
    BY <1>2, <1>6 DEF Wheels
  <2> HIDE DEF r
  <2>1. r \in Nat /\ r < Slots * TimeUnit
    BY <1>3, <1>5
  <2>2. QED
    BY <1>5, <2>1, FirstWheel
<1>8. CASE /\ r < TimeUnit
           /\ m_iRemain' = [m_iRemain EXCEPT ![t] = r]
           /\ life' = [life EXCEPT ![t] = "fired"]
           /\ UNCHANGED wheels
  <2>1. made' = made /\ m_iCursor' = m_iCursor /\ slot' = slot
    BY <1>8 DEF wheels
  <2>2. Owed' = Owed /\ \A j, q : Clicks(j, q)' = Clicks(j, q)
    BY <1>1, <2>1 DEF Owed, Clicks
  <2>3. \A u \in Timers : u # t => Rest(u)' = Rest(u)
    BY <1>2, <1>8 DEF Rest
  <2>4. \A u \in Timers, j \in Wheels, q \in Pos : Listed(u, j, q)' => Listed(u, j, q) /\ u # t
    BY <1>4, <2>1 DEF Listed
  <2>5. TimeInv'
    BY <1>1, <2>1, <2>2, <2>3, <2>4 DEF TimeInv, Wheels
  <2>6. QED
    BY <1>7, <1>8, <2>5
<1>9. CASE r >= TimeUnit /\ PlaceTimer(t, r, slot) /\ UNCHANGED <<m_iCursor, life, msgQueue>>
  <2> HIDE DEF r
  <2>1. wheel = 2 /\ r \in Nat /\ r < Slots * TimeUnit /\ made = 2 /\ left[t] = r \div TimeUnit
    BY <1>2, <1>3, <1>5, <1>6, <1>9, Constants DEF Wheels
  <2>2. left'[t] = DueIn(r)
    BY <1>1, <1>9, <2>1, Constants DEF DueIn
  <2>3. TimeInv'
    BY <1>1, <1>4, <1>9, <2>1, <2>2, PlaceKeepsTime
  <2>4. QED
    BY <1>9, <2>3
<1>10. QED
  BY <1>8, <1>9 DEF PopTimer

LEMMA TimeInvStep == TypeInv /\ ListedOnce /\ TimeInv /\ [Next]_vars => TimeInv'
<1> SUFFICES ASSUME TypeInv, ListedOnce, TimeInv, [Next]_vars
             PROVE  TimeInv'
  OBVIOUS
<1>1. ASSUME UNCHANGED <<m_iCursor, slot, m_iRemain, left>>,
             Owed' = Owed, wheel' = wheel \/ m_pItem = {}, m_pItem' = m_pItem,
             wheel' = 2 => pc' \in {"tick", "pop"} /\ m_iCursor'[1] = 0 /\ made' = 2 /\ click' > 0
      PROVE  TimeInv'
  <2>1. (\A j, q : Clicks(j, q)' = Clicks(j, q)) /\ \A u : Rest(u)' = Rest(u)
    BY <1>1 DEF Clicks, Rest
  <2>2. \A u, j, q : Listed(u, j, q)' <=> Listed(u, j, q)
    BY <1>1 DEF Listed
  <2>3. QED
    BY <1>1, <2>1, <2>2 DEF TimeInv
<1>2. ASSUME NEW a \in Alarms, OnAlarmLoad(a) \/ OnAlarmStore(a)
      PROVE  TimeInv'
  <2>1. UNCHANGED <<m_iCursor, slot, m_iRemain, left, wheel, m_pItem, pc, made, click>>
    BY <1>2 DEF OnAlarmLoad, OnAlarmStore, wheels, timers
  <2>2. Owed' = Owed
    BY <2>1 DEF Owed
  <2>3. QED
    BY <1>1, <2>1, <2>2 DEF TimeInv
<1>3. CASE ReadTick \/ ClearTick
  <2>1. /\ UNCHANGED <<m_iCursor, slot, m_iRemain, left, m_pItem, made>>
        /\ pc \in {"main", "clear"} /\ pc' \in {"clear", "tick"} /\ wheel' \in {wheel, 1}
    BY <1>3 DEF ReadTick, ClearTick, wheels, timers
  <2>2. wheel # 2 /\ wheel \in {1, 2}
    BY <2>1 DEF TimeInv, TypeInv, TypeOK, Wheels
  <2>3. Owed' = Owed /\ wheel' = wheel
    BY <2>1, <2>2 DEF Owed
  <2>4. QED
    BY <1>1, <2>1, <2>2, <2>3
<1>4. CASE WheelClick
  BY <1>4, ClickKeepsTime
<1>5. ASSUME NEW t \in Timers, PopTimer(t)
      PROVE  TimeInv'
  BY <1>5, PopKeepsTime
<1>6. CASE WheelDone
  <2>1. /\ UNCHANGED <<m_iCursor, slot, m_iRemain, left, made>> /\ m_pItem' = m_pItem /\ m_pItem = {}
        /\ pc = "pop" /\ pc' = "tick" /\ made \in 0 .. 2 /\ wheel \in {1, 2} /\ click > 0
    BY <1>6 DEF WheelDone, wheels, timers, TypeInv, TypeOK, ClickCounts, Wheels
  <2>2. GetPassedTime(1) = 0 <=> m_iCursor[1] = 0
    <3>1. m_iCursor[1] \in Nat /\ TimeUnit \in Nat \ {0}
      BY Constants DEF TypeInv, TypeOK, Wheels, Pos
    <3>2. \A a \in Nat, b \in Nat \ {0} : a * b = 0 <=> a = 0
      OBVIOUS
    <3>3. QED
      BY <3>1, <3>2, Constants DEF GetPassedTime
  <2>3. CASE wheel = 1 /\ m_iCursor[1] = 0 /\ made = 2
    <3>1. wheel' = 2 /\ click' = click
      BY <1>6, <2>2, <2>3 DEF WheelDone
    <3>2. Owed' = Owed
      BY <2>1, <2>3, <3>1 DEF Owed
    <3>3. QED
      BY <1>1, <2>1, <2>3, <3>1, <3>2
  <2>4. CASE ~(wheel = 1 /\ m_iCursor[1] = 0 /\ made = 2)
    <3>1. ~(GetPassedTime(wheel) = 0 /\ wheel < made)
      BY <2>1, <2>2, <2>4
    <3>2. wheel' = 1
      BY <1>6, <3>1 DEF WheelDone
    <3>3. Owed' = Owed
      BY <2>1, <2>4, <3>2 DEF Owed
    <3>4. QED
      BY <1>1, <2>1, <3>2, <3>3
  <2>5. QED
    BY <2>3, <2>4
<1>7. CASE ClickDone
  <2>1. /\ UNCHANGED <<m_iCursor, slot, m_iRemain, left, m_pItem, made, wheel>>
        /\ pc = "tick" /\ pc' = "main" /\ (click = 0 \/ made = 0)
    BY <1>7 DEF ClickDone, wheels, timers
  <2>2. wheel # 2
    BY <2>1 DEF TimeInv
  <2>3. Owed' = Owed
    BY <2>1, <2>2 DEF Owed
  <2>4. QED
    BY <1>1, <2>1, <2>2, <2>3
<1>8. ASSUME NEW t \in Timers, NEW d \in Delays, SetTimer(t, d)
      PROVE  TimeInv'
  <2>1. d \in Nat /\ d + (Slots - 1) * TimeUnit < Slots * Slots * TimeUnit
    BY WheelAssumption, DelaysFit
  <2>2. /\ PlaceTimer(t, d, slot) /\ pc = "main" /\ life[t] = "free"
        /\ UNCHANGED <<m_iCursor, pc, wheel, m_pItem, click>>
        /\ left' = [left EXCEPT ![t] = DueIn(d)]
    BY <1>8 DEF SetTimer
  <2>3. left'[t] = DueIn(d) /\ \A u \in Timers : u # t => left'[u] = left[u]
    BY <2>2 DEF TypeInv, TypeOK
  <2>4. t \notin m_pItem /\ \A i \in Wheels, p \in Pos : ~Listed(t, i, p)
    BY <2>2 DEF ListedOnce
  <2>5. wheel = 1
    BY <2>2 DEF TimeInv, TypeInv, TypeOK, Wheels
  <2>6. QED
    BY <2>1, <2>2, <2>3, <2>4, <2>5, PlaceKeepsTime
<1>9. ASSUME NEW t \in Timers, Destroy(t)
      PROVE  TimeInv'
  <2>1. /\ UNCHANGED <<m_iCursor, m_iRemain, left, m_pItem, made, wheel, pc, click>>
        /\ slot' = [i \in Wheels |-> [p \in Pos |-> slot[i][p] \ {t}]]
    BY <1>9 DEF Destroy
  <2>2. (\A j, q : Clicks(j, q)' = Clicks(j, q)) /\ (\A u : Rest(u)' = Rest(u)) /\ Owed' = Owed
    BY <2>1 DEF Clicks, Rest, Owed
  <2>3. \A u \in Timers, j \in Wheels, q \in Pos : Listed(u, j, q)' => Listed(u, j, q)
    BY <2>1 DEF Listed
  <2>4. QED
    BY <2>1, <2>2, <2>3 DEF TimeInv, Wheels
<1>10. CASE UNCHANGED vars \/ \E t \in Timers : HandleMsg(t)
  <2>1. UNCHANGED <<m_iCursor, slot, m_iRemain, left, wheel, m_pItem, pc, made, click>>
    BY <1>10 DEF HandleMsg, wheels, timers, vars
  <2>2. Owed' = Owed
    BY <2>1 DEF Owed
  <2>3. QED
    BY <1>1, <2>1, <2>2 DEF TimeInv
<1>11. QED
  BY <1>2, <1>3, <1>4, <1>5, <1>6, <1>7, <1>8, <1>9, <1>10 DEF Next, Click

(* Lists and ticks together, in every reachable state.                     *)
THEOREM WheelInductive == Spec => [](TypeInv /\ ListedOnce /\ TimeInv)
<1>1. Init => TimeInv
  BY DEF Init, TimeInv, Listed, Wheels
<1>2. QED
  BY <1>1, TypeInvariance, ListsDisjoint, TimeInvStep, PTL DEF Spec

(* Whenever the owner thread is out of Click, a timer that has not fired   *)
(* has a tick to go: no timer is late (CThreadWheelTimerManager::Click).   *)
THEOREM NoTimerLate == Spec => []NeverLate
<1>1. ASSUME TypeInv, ListedOnce, TimeInv
      PROVE  NeverLate
  <2> SUFFICES ASSUME pc = "main", NEW t \in Timers, life[t] = "armed"
               PROVE  left[t] >= 1
    BY DEF NeverLate
  <2>1. t \notin m_pItem
    BY <1>1 DEF ListedOnce
  <2>2. PICK i \in Wheels, p \in Pos : Listed(t, i, p)
    BY <1>1, <2>1 DEF ListedOnce
  <2>3. /\ Slots \in Nat \ {0} /\ m_iCursor[1] \in 0 .. Slots - 1 /\ wheel = 1
        /\ \A j \in Wheels : m_iCursor[j] \in 0 .. Slots - 1
    BY <1>1, Constants DEF TypeInv, TypeOK, TimeInv, Wheels, Pos
  <2>4. Owed = 0
    BY <2>3 DEF Owed
  <2>5. \A j \in Wheels : Clicks(j, p) \in Nat /\ Clicks(j, p) >= 1
    BY <2>3 DEF Clicks, Pos
  <2>6. CASE i = 1
    BY <1>1, <2>2, <2>5, <2>6 DEF TimeInv
  <2>7. CASE i = 2
    <3> DEFINE k == Clicks(2, p) * Slots
    <3>1. left[t] = k - m_iCursor[1] - 0 + Rest(t)
      BY <1>1, <2>2, <2>4, <2>7 DEF TimeInv
    <3>2. k \in Nat /\ k >= Slots
      <4>1. 1 * Slots <= Clicks(2, p) * Slots
        BY <2>3, <2>5, <2>7, TimesMonotone
      <4>2. QED
        BY <2>3, <2>5, <2>7, <4>1
    <3>3. Rest(t) \in Nat
      <4>1. \A x \in Nat, y \in Nat \ {0} : x \div y \in Nat /\ x % y \in Nat
        OBVIOUS
      <4>2. m_iRemain[t] \in Nat
        BY <1>1 DEF TypeInv, TypeOK
      <4>3. QED
        BY <4>1, <4>2, Constants DEF Rest
    <3> HIDE DEF k
    <3>4. QED
      BY <2>3, <3>1, <3>2, <3>3
  <2>8. QED
    BY <2>6, <2>7 DEF Wheels
<1>2. QED
  BY <1>1, WheelInductive, PTL

(* A timer fires on the tick its delay asks for, not before, whichever     *)
(* wheel it was set in and however often it was moved (PlaceTimer, Click). *)
THEOREM NoTimerEarly == Spec => NeverEarly
<1> DEFINE OnTick == \A t \in Timers : life[t] = "armed" /\ life'[t] = "fired" => left[t] = 0
<1>1. TypeInv /\ ListedOnce /\ TimeInv /\ [Next]_vars => [OnTick]_vars
  <2> SUFFICES ASSUME TypeInv, ListedOnce, TimeInv, Next,
                      NEW t \in Timers, life[t] = "armed", life'[t] = "fired"
               PROVE  left[t] = 0
    OBVIOUS
  <2>1. life \in [Timers -> {"free", "armed", "fired"}]
    BY DEF TypeInv, TypeOK
  <2>2. ASSUME NEW u \in Timers, PopTimer(u)
        PROVE  left[t] = 0
    <3>1. u # t => life'[t] = life[t]
      BY <2>1, <2>2 DEF PopTimer
    <3>2. QED
      BY <2>2, <3>1, PopKeepsTime
  <2>3. ASSUME NEW u \in Timers, NEW d \in Delays, SetTimer(u, d)
        PROVE  FALSE
    BY <2>1, <2>3 DEF SetTimer
  <2>4. ASSUME NEW u \in Timers, Destroy(u)
        PROVE  FALSE
    BY <2>1, <2>4 DEF Destroy
  <2>5. ASSUME \/ ReadTick \/ ClearTick \/ WheelClick \/ WheelDone \/ ClickDone
               \/ \E u \in Timers : HandleMsg(u)
               \/ \E a \in Alarms : OnAlarmLoad(a) \/ OnAlarmStore(a)
        PROVE  FALSE
    BY <2>5 DEF ReadTick, ClearTick, WheelClick, WheelDone, ClickDone, HandleMsg, OnAlarmLoad,
                OnAlarmStore, timers
  <2>6. QED
    BY <2>2, <2>3, <2>4, <2>5 DEF Next, Click
<1>2. QED
  BY <1>1, WheelInductive, PTL DEF Spec, NeverEarly

=============================================================================
