-------------------------- MODULE ThreadWheelTimer --------------------------
(***************************************************************************)
(* The timer service every CThread owns (public/thread):                   *)
(* CThreadWheelTimerManager, CThreadWheel, CThreadWheelItem and            *)
(* CThreadWheelTimer, driven by CThread::MainLoop.                         *)
(*                                                                         *)
(* A POSIX timer runs OnAlarm in a fresh thread every m_iTimeUnit ms; it   *)
(* adds 1 to m_iTick with no lock.  The owner thread takes and clears      *)
(* m_iTick in GetPassedTime and turns the wheels once per tick taken.  A   *)
(* timer that falls out of its slot posts its TIMEOUT message to the       *)
(* owner's own queue.  The unlocked read-modify-write of m_iTick is a data *)
(* race: it is modelled as separate loads and stores.                      *)
(*                                                                         *)
(* Wheel 1 has slots of one TimeUnit, wheel 2 slots of one turn of wheel   *)
(* 1.  Each slot is a linked list in the code and a set here: a slot is    *)
(* always emptied completely, so the order inside it is not observable.    *)
(***************************************************************************)
EXTENDS Integers, FiniteSets

CONSTANTS
    Slots,      \* m_iCount, the slots of a wheel (3000 in the code)
    TimeUnit,   \* m_iTimeUnit, the length of a tick in ms (100 in the code)
    Timers,     \* names for CThreadWheelTimer objects
    Delays,     \* the lengths SetTimer is called with, in ms
    Alarms,     \* threads the kernel may run OnAlarm in at the same time
    MaxPending  \* bound: OnAlarm does not start when m_iTick is this large

ASSUME WheelAssumption ==
    /\ Slots \in Nat /\ Slots > 1
    /\ TimeUnit \in Nat \ {0}
    /\ MaxPending \in Nat
    /\ Delays \subseteq Nat

\* Two wheels are enough for every delay.  A third one would be built with
\* m_iTimeUnit * size = 2.7e12 in an int; the longest timer of the repository
\* is 24*60*60*1000 ms, against 9e8 ms for the first two wheels.
ASSUME DelaysFit ==
    \A d \in Delays : d + (Slots - 1) * TimeUnit < Slots * Slots * TimeUnit

VARIABLES
    m_iTick,    \* ticks OnAlarm has counted and Click has not taken
    alarm,      \* alarm[a]: the value OnAlarm loaded, -1 when a is not running
    pc,         \* where the owner thread is: main, clear, tick, pop
    click,      \* ticks Click() still has to apply
    wheel,      \* the wheel the loop of Click() is at
    made,       \* how many wheels m_Wheels holds
    m_iCursor,  \* m_iCursor[i]: the cursor of wheel i
    slot,       \* slot[i][p]: the timers listed in m_ItemArray[p] of wheel i
    m_pItem,    \* the timers of the slot being emptied
    m_iRemain,  \* m_iRemain[t]
    life,       \* life[t]: free (no object), armed (owns its message), fired
    msgQueue,   \* timers whose TIMEOUT message is in the owner's m_msgQueue
    \* History, read by no action of the program:
    left,       \* left[t]: ticks still to be applied before t is due, -1
                \* when they have all been applied and one more
    debt,       \* alarms that have returned minus ticks taken by the owner
    raced       \* two accesses to m_iTick have overlapped

ticks == <<m_iTick, alarm>>
wheels == <<made, m_iCursor, slot>>
timers == <<m_iRemain, life, msgQueue>>
vars == <<ticks, pc, click, wheel, wheels, m_pItem, timers, left, debt, raced>>

Wheels == {1, 2}
Pos == 0 .. Slots - 1
Idle == -1

-----------------------------------------------------------------------------
(* CThreadWheel: the span of a slot, of the wheel, and of the part of the  *)
(* current turn that is over.                                              *)
GetMinTime(i) == IF i = 1 THEN TimeUnit ELSE Slots * TimeUnit

GetMaxTime(i) == GetMinTime(i) * Slots

GetPassedTime(i) == m_iCursor[i] * GetMinTime(i)

\* Variation: place 0 is kept, the slot that was just emptied.
SlotForNoSkip(i, place) == (m_iCursor[i] + place) % Slots

\* CThreadWheel::PlaceTimer: a timer is never put in the slot under the
\* cursor, which has already been emptied this turn.
SlotFor(i, place) ==
    (m_iCursor[i] + (IF place % Slots = 0 THEN 1 ELSE place)) % Slots

\* Variation: the part of the first wheel's turn that is over is not added.
PlaceTimerNoPassed(t, r, slots) ==
    LET i == IF r < GetMaxTime(1) THEN 1 ELSE 2
        p == SlotFor(i, r \div GetMinTime(i))
    IN  /\ slot' = [slots EXCEPT ![i][p] = @ \cup {t}]
        /\ m_iRemain' = [m_iRemain EXCEPT ![t] = r]
        /\ made' = IF made < i THEN i ELSE made

\* CThreadWheelTimerManager::PlaceTimer for a timer with r ms to go: the first
\* wheel that spans r, wheels being created on demand.  Moving on to the next
\* wheel adds the time this turn has already used up.
PlaceTimer(t, r, slots) ==
    LET i    == IF r < GetMaxTime(1) THEN 1 ELSE 2
        rest == IF i = 1 THEN r ELSE r + GetPassedTime(1)
        p    == SlotFor(i, rest \div GetMinTime(i))
    IN  /\ slot' = [slots EXCEPT ![i][p] = @ \cup {t}]
        /\ m_iRemain' = [m_iRemain EXCEPT ![t] = rest]
        /\ made' = IF made < i THEN i ELSE made

\* Ticks after which a timer of d ms has to fire: whole units, one at least.
DueIn(d) == IF d < TimeUnit THEN 1 ELSE d \div TimeUnit

-----------------------------------------------------------------------------
Init ==
    /\ m_iTick = 0
    /\ alarm = [a \in Alarms |-> Idle]
    /\ pc = "main" /\ click = 0 /\ wheel = 1
    /\ made = 0
    /\ m_iCursor = [i \in Wheels |-> 0]
    /\ slot = [i \in Wheels |-> [p \in Pos |-> {}]]
    /\ m_pItem = {}
    /\ m_iRemain = [t \in Timers |-> 0]
    /\ life = [t \in Timers |-> "free"]
    /\ msgQueue = {}
    /\ left = [t \in Timers |-> 0]
    /\ debt = 0
    /\ raced = FALSE

\* OnAlarm is between its load and its store in thread a.
InFlight == {a \in Alarms : alarm[a] # Idle}

\* OnAlarm, m_iTick += 1: the load.  It overlaps another alarm thread's
\* addition, or the owner standing between its load and its clear.
OnAlarmLoad(a) ==
    /\ alarm[a] = Idle
    /\ m_iTick < MaxPending
    /\ alarm' = [alarm EXCEPT ![a] = m_iTick]
    /\ raced' = (raced \/ InFlight # {} \/ pc = "clear")
    /\ debt' = IF raced' THEN 0 ELSE debt
    /\ UNCHANGED <<m_iTick, pc, click, wheel, wheels, m_pItem, timers, left>>

\* OnAlarm: the store.
OnAlarmStore(a) ==
    /\ alarm[a] # Idle
    /\ m_iTick' = alarm[a] + 1
    /\ alarm' = [alarm EXCEPT ![a] = Idle]
    /\ debt' = IF raced THEN 0 ELSE debt + 1
    /\ UNCHANGED <<pc, click, wheel, wheels, m_pItem, timers, left, raced>>

-----------------------------------------------------------------------------
\* GetPassedTime: int time = m_iTick.
ReadTick ==
    /\ pc = "main"
    /\ pc' = "clear"
    /\ click' = m_iTick
    /\ raced' = (raced \/ InFlight # {})
    /\ debt' = IF raced' THEN 0 ELSE debt
    /\ UNCHANGED <<ticks, wheel, wheels, m_pItem, timers, left>>

\* Variation: the ticks taken are not cleared.
ClearTickForgotten ==
    /\ pc = "clear"
    /\ pc' = "tick"
    /\ wheel' = 1
    /\ debt' = IF raced THEN 0 ELSE debt - click
    /\ UNCHANGED <<ticks, click, wheels, m_pItem, timers, left, raced>>

\* GetPassedTime: m_iTick = 0.
ClearTick ==
    /\ pc = "clear"
    /\ m_iTick' = 0
    /\ pc' = "tick"
    /\ wheel' = 1
    /\ debt' = IF raced THEN 0 ELSE debt - click
    /\ UNCHANGED <<alarm, click, wheels, m_pItem, timers, left, raced>>

\* Variation: the cursor runs past the last slot before it wraps.
WheelClickLateWrap ==
    /\ pc = "tick"
    /\ click > 0
    /\ wheel <= made
    /\ LET cur == (m_iCursor[wheel] + 1) % (Slots + 1)
       IN  /\ m_iCursor' = [m_iCursor EXCEPT ![wheel] = cur]
           /\ m_pItem' = IF cur \in Pos THEN slot[wheel][cur] ELSE {}
           /\ slot' = IF cur \in Pos
                      THEN [slot EXCEPT ![wheel][cur] = {}] ELSE slot
    /\ pc' = "pop"
    /\ left' = [t \in Timers |->
                   IF wheel = 1 /\ life[t] = "armed" /\ left[t] >= 0
                   THEN left[t] - 1 ELSE left[t]]
    /\ UNCHANGED <<ticks, click, wheel, made, timers, debt, raced>>

\* Click: the next wheel is turned by one slot, whose list becomes m_pItem;
\* the empty list held so far takes its place.
WheelClick ==
    /\ pc = "tick"
    /\ click > 0
    /\ wheel <= made
    /\ LET cur == (m_iCursor[wheel] + 1) % Slots
       IN  /\ m_iCursor' = [m_iCursor EXCEPT ![wheel] = cur]
           /\ m_pItem' = slot[wheel][cur]
           /\ slot' = [slot EXCEPT ![wheel][cur] = {}]
    /\ pc' = "pop"
    /\ left' = [t \in Timers |->
                   IF wheel = 1 /\ life[t] = "armed" /\ left[t] >= 0
                   THEN left[t] - 1 ELSE left[t]]
    /\ UNCHANGED <<ticks, click, wheel, made, timers, debt, raced>>

\* Click: one timer of the list fires, or drops to a faster wheel.
PopTimer(t) ==
    /\ pc = "pop"
    /\ t \in m_pItem
    /\ m_pItem' = m_pItem \ {t}
    /\ LET r == m_iRemain[t] % GetMinTime(wheel)
       IN  \/ /\ r < TimeUnit                 \* OnTimer
              /\ m_iRemain' = [m_iRemain EXCEPT ![t] = r]
              /\ life' = [life EXCEPT ![t] = "fired"]
              /\ msgQueue' = msgQueue \cup {t}
              /\ UNCHANGED wheels
           \/ /\ r >= TimeUnit
              /\ PlaceTimer(t, r, slot)
              /\ UNCHANGED <<m_iCursor, life, msgQueue>>
    /\ UNCHANGED <<ticks, pc, click, wheel, left, debt, raced>>

\* Variation: the loop over the wheels always stops after the first.
WheelDoneFirstOnly ==
    /\ pc = "pop"
    /\ m_pItem = {}
    /\ pc' = "tick"
    /\ wheel' = 1 /\ click' = click - 1
    /\ UNCHANGED <<ticks, wheels, m_pItem, timers, left, debt, raced>>

\* Click: the list is empty.  The next wheel turns only when this one has
\* completed its turn; the tick is over otherwise, or after the last wheel.
WheelDone ==
    /\ pc = "pop"
    /\ m_pItem = {}
    /\ pc' = "tick"
    /\ IF GetPassedTime(wheel) = 0 /\ wheel < made
       THEN wheel' = wheel + 1 /\ click' = click
       ELSE wheel' = 1 /\ click' = click - 1
    /\ UNCHANGED <<ticks, wheels, m_pItem, timers, left, debt, raced>>

\* Click returns: no tick left, or no wheel to turn.
ClickDone ==
    /\ pc = "tick"
    /\ click = 0 \/ made = 0
    /\ pc' = "main"
    /\ click' = 0
    /\ UNCHANGED <<ticks, wheel, wheels, m_pItem, timers, left, debt, raced>>

-----------------------------------------------------------------------------
\* CThread::SetTimer, called by a handler of the owner thread.
SetTimer(t, d) ==
    /\ pc = "main"
    /\ life[t] = "free"
    /\ t \notin msgQueue
    /\ PlaceTimer(t, d, slot)
    /\ life' = [life EXCEPT ![t] = "armed"]
    /\ left' = [left EXCEPT ![t] = DueIn(d)]
    /\ UNCHANGED <<ticks, pc, click, wheel, m_iCursor, m_pItem, msgQueue,
                   debt, raced>>

\* Variation: the destructor does not unlink the timer from its slot.
DestroyLinked(t) ==
    /\ pc = "main"
    /\ life[t] # "free"
    /\ life' = [life EXCEPT ![t] = "free"]
    /\ UNCHANGED <<ticks, pc, click, wheel, wheels, m_pItem, m_iRemain,
                   msgQueue, left, debt, raced>>

\* CThreadWheelTimer::Destroy: a timer that has not fired is unlinked from its
\* slot and its message deleted; a message already posted stays in the queue.
Destroy(t) ==
    /\ pc = "main"
    /\ life[t] # "free"
    /\ life' = [life EXCEPT ![t] = "free"]
    /\ slot' = [i \in Wheels |-> [p \in Pos |-> slot[i][p] \ {t}]]
    /\ UNCHANGED <<ticks, pc, click, wheel, made, m_iCursor, m_pItem,
                   m_iRemain, msgQueue, left, debt, raced>>

\* CThread::MainLoop takes a TIMEOUT message; its handler may go on to call
\* Destroy and SetTimer.
HandleMsg(t) ==
    /\ pc = "main"
    /\ t \in msgQueue
    /\ msgQueue' = msgQueue \ {t}
    /\ UNCHANGED <<ticks, pc, click, wheel, wheels, m_pItem, m_iRemain, life,
                   left, debt, raced>>

-----------------------------------------------------------------------------
Click ==
    \/ ReadTick
    \/ ClearTick
    \/ WheelClick
    \/ \E t \in Timers : PopTimer(t)
    \/ WheelDone
    \/ ClickDone

Next ==
    \/ \E a \in Alarms : OnAlarmLoad(a) \/ OnAlarmStore(a)
    \/ Click
    \/ \E t \in Timers :
          \/ \E d \in Delays : SetTimer(t, d)
          \/ Destroy(t)
          \/ HandleMsg(t)

\* MainLoop calls Click over and over and takes at most ten messages between
\* two calls; the kernel keeps starting OnAlarm and every start returns.
Fairness ==
    /\ WF_vars(Click)
    /\ \A a \in Alarms : WF_vars(OnAlarmLoad(a)) /\ WF_vars(OnAlarmStore(a))

Spec == Init /\ [][Next]_vars

FairSpec == Spec /\ Fairness

-----------------------------------------------------------------------------
(* Every variable has its type.                                            *)
TypeOK ==
    /\ m_iTick \in Nat
    /\ alarm \in [Alarms -> Nat \cup {Idle}]
    /\ pc \in {"main", "clear", "tick", "pop"}
    /\ click \in Nat
    /\ wheel \in Wheels
    /\ made \in {0, 1, 2}
    /\ m_iCursor \in [Wheels -> Pos]
    /\ slot \in [Wheels -> [Pos -> SUBSET Timers]]
    /\ m_pItem \in SUBSET Timers
    /\ m_iRemain \in [Timers -> Nat]
    /\ life \in [Timers -> {"free", "armed", "fired"}]
    /\ msgQueue \in SUBSET Timers
    /\ left \in [Timers -> Int]
    /\ debt \in Int
    /\ raced \in BOOLEAN

\* t is listed in slot p of wheel i.
Listed(t, i, p) == t \in slot[i][p]

(* A timer that still owns its message is in exactly one list, a slot or   *)
(* the list Click is emptying; a timer that has fired or was destroyed is  *)
(* in none, so that ~CThreadWheelTimer unlinks it from the right list and  *)
(* the message is deleted or posted once, never both.                      *)
ListedOnce ==
    \A t \in Timers :
        /\ life[t] = "armed" =>
              /\ t \notin msgQueue
              /\ \/ t \in m_pItem
                 \/ \E i \in Wheels, p \in Pos : Listed(t, i, p)
        /\ \A i \in Wheels, p \in Pos :
              Listed(t, i, p) =>
                  /\ life[t] = "armed"
                  /\ t \notin m_pItem
                  /\ i <= made
                  /\ \A j \in Wheels, q \in Pos :
                        Listed(t, j, q) => j = i /\ q = p
        /\ t \in m_pItem => life[t] = "armed" /\ pc = "pop"

(* The wheels keep time: when the owner thread is out of Click, a timer    *)
(* that has not fired has at least one tick to go, also when it was set    *)
(* with the wheels mid-turn and has been moved from the slow wheel to the  *)
(* fast one.  No timer is late.                                            *)
NeverLate ==
    pc = "main" => \A t \in Timers : life[t] = "armed" => left[t] >= 1

(* No timer is early either: OnTimer runs on the tick the delay asks for.  *)
NeverEarly ==
    [][\A t \in Timers :
          life[t] = "armed" /\ life'[t] = "fired" => left[t] = 0]_vars

(* No tick is lost or counted twice as long as no OnAlarm overlaps another *)
(* one or GetPassedTime: what the alarms have added is in m_iTick or was   *)
(* taken by the owner.  (An overlap breaks it: the clear can wipe out a    *)
(* tick, and a store that follows it brings taken ticks back.)             *)
TicksConserved ==
    ~raced => debt = m_iTick

(* The two accesses to m_iTick that must not meet.                         *)
Overlap == InFlight # {} /\ (pc = "clear" \/ Cardinality(InFlight) > 1)

(* If overlapping accesses to m_iTick cease at some point, every timer     *)
(* that is set fires or is destroyed.                                      *)
TimersFire ==
    <>[]~Overlap =>
        \A t \in Timers : life[t] = "armed" ~> life[t] # "armed"

=============================================================================
