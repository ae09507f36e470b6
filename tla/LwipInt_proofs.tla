--------------------------- MODULE LwipInt_proofs ---------------------------
(* Proofs about LwipInt: the timer runs in time and not early, for every   *)
(* tick, interval and width of the clock the assumptions allow.            *)
EXTENDS LwipInt, TLAPS

(* Division and remainder modulo the width of the clock.                   *)
LEMMA DivMod ==
  ASSUME NEW a \in Int
  PROVE  a % U32 \in 0 .. U32 - 1 /\ a \div U32 \in Int
           /\ a = (U32 * (a \div U32)) + (a % U32)
  BY WrapAssumption

LEMMA Wraps ==
  ASSUME NEW a \in Int
  PROVE  \E d \in Int : a = (U32 * d) + (a % U32) /\ a % U32 \in 0 .. U32 - 1
  BY DivMod

(* The constants without their arithmetic.                                 *)
LEMMA Bounds ==
  /\ U32 \in Nat \ {0} /\ INTERVAL \in Nat \ {0} /\ MainPeriod \in Nat \ {0}
  /\ AgeBound \in Nat /\ 0 \in 0 .. U32 - 1 /\ 0 \in 0 .. AgeBound /\ 0 \in 0 .. MainPeriod
  BY WrapAssumption DEF AgeBound

(* The remainder is the only one in its range.                             *)
LEMMA ModUnique ==
  ASSUME NEW q \in Int, NEW r \in 0 .. U32 - 1,
         NEW p \in Int, NEW s \in 0 .. U32 - 1,
         (U32 * q) + r = (U32 * p) + s
  PROVE  r = s
<1>1. U32 * (q - p) = s - r
  BY WrapAssumption
<1>2. s - r < U32 /\ s - r > 0 - U32
  BY WrapAssumption
<1>3. CASE q - p >= 1
  <2>1. U32 * (q - p) >= U32
    BY <1>3, WrapAssumption
  <2> QED BY <2>1, <1>1, <1>2, WrapAssumption
<1>4. CASE q - p <= -1
  <2>1. U32 * (q - p) <= 0 - U32
    BY <1>4, WrapAssumption
  <2> QED BY <2>1, <1>1, <1>2, WrapAssumption
<1>5. CASE q = p
  BY <1>1, <1>5, WrapAssumption
<1> QED BY <1>3, <1>4, <1>5

LEMMA ModIs ==
  ASSUME NEW a \in Int, NEW q \in Int, NEW r \in 0 .. U32 - 1, a = (U32 * q) + r
  PROVE  a % U32 = r
<1>1. a % U32 \in 0 .. U32 - 1 /\ a \div U32 \in Int
        /\ a = (U32 * (a \div U32)) + (a % U32)
  BY DivMod
<1> QED BY <1>1, ModUnique

(* A tick counts as one millisecond or more, and not as more than it is.   *)
LEMMA TickBounds == TickMs \in Nat \ {0} /\ TickMs * NS_PER_MS <= OS_TICK_DURATION_ns
<1>1. OS_TICK_DURATION_ns = (NS_PER_MS * TickMs) + (OS_TICK_DURATION_ns % NS_PER_MS)
      /\ TickMs \in Int /\ OS_TICK_DURATION_ns % NS_PER_MS \in 0 .. NS_PER_MS - 1
  BY TickAssumption DEF TickMs
<1>2. TickMs >= 1
  <2>1. CASE TickMs <= 0
    <3>1. NS_PER_MS * TickMs <= 0
      BY <1>1, <2>1, TickAssumption
    <3> QED BY <3>1, <1>1, TickAssumption
  <2> QED BY <2>1, <1>1
<1>3. NS_PER_MS * TickMs = TickMs * NS_PER_MS
  BY <1>1, TickAssumption
<1> QED BY <1>1, <1>2, <1>3, TickAssumption

(* Half a turn of the clock is a natural number, and two halves fit.       *)
LEMMA HalfTurn ==
  /\ U32 \div 2 \in Nat /\ U32 - (U32 \div 2) >= U32 \div 2
  /\ INTERVAL <= U32 \div 2 /\ MainPeriod * TickMs <= U32 \div 2
  BY WrapAssumption

(* The timer is found expired exactly when its interval has passed by the  *)
(* counted milliseconds, wherever the clock has wrapped.                   *)
LEMMA ExpiredWhenDue ==
  ASSUME LwipInv, armed
  PROVE  Expired <=> age * TickMs >= INTERVAL
<1> DEFINE T == TickMs
           A == age * T
           e == A - INTERVAL
<1>1. T \in Nat \ {0} /\ age \in Nat /\ since \in 0 .. MainPeriod /\ ticks \in Nat
        /\ due \in Int /\ INTERVAL \in Nat \ {0} /\ U32 \in Nat \ {0} /\ MainPeriod \in Nat
  BY TickBounds, WrapAssumption DEF LwipInv, LwipTypeOK, AgeBound
<1>2. A \in Nat /\ ticks * T \in Nat
  BY <1>1
<1>3. e < U32 \div 2
  <2>1. A - (since * T) < INTERVAL
    <3>1. (age - since) * T < INTERVAL
      BY DEF LwipInv, TimerInTime
    <3>2. (age - since) * T = A - (since * T)
      BY <1>1
    <3> QED BY <3>1, <3>2
  <2>2. since * T <= MainPeriod * T
    BY <1>1
  <2>3. since * T \in Nat /\ MainPeriod * T \in Nat
    BY <1>1
  <2> QED BY <2>1, <2>2, <2>3, <1>1, <1>2, HalfTurn
<1>4. PICK k \in Int : due = ((ticks * T) - A) + INTERVAL + (U32 * k)
  BY DEF LwipInv, DueIsStart
<1>5. PICK j \in Int : ticks * T = (U32 * j) + sys_now /\ sys_now \in 0 .. U32 - 1
  BY <1>2, DivMod DEF sys_now
<1>6. sys_now - due = e - (U32 * (j + k))
  <2>1. U32 * (j + k) = (U32 * j) + (U32 * k) /\ U32 * j \in Int /\ U32 * k \in Int
    BY <1>1, <1>4, <1>5
  <2> HIDE DEF A
  <2> QED BY <2>1, <1>1, <1>2, <1>4, <1>5
<1>7. e \in Int /\ e >= 0 - INTERVAL /\ sys_now - due \in Int
  BY <1>1, <1>2, <1>5
<1> HIDE DEF e
<1>8. CASE e >= 0
  <2>1. e \in 0 .. U32 - 1
    BY <1>8, <1>3, <1>7, <1>1, HalfTurn
  <2>2. sys_now - due = (U32 * (0 - (j + k))) + e
    BY <1>6, <1>7, <1>1, <1>4, <1>5
  <2>3. (sys_now - due) % U32 = e
    BY <2>1, <2>2, <1>7, <1>4, <1>5, ModIs
  <2> QED BY <2>3, <1>8, <1>3, <1>7, <1>1, <1>2, HalfTurn DEF Expired, TIME_LESS_THAN, e
<1>9. CASE e < 0
  <2>1. e + U32 \in 0 .. U32 - 1 /\ e + U32 >= U32 \div 2
    BY <1>9, <1>7, <1>1, HalfTurn
  <2>2. sys_now - due = (U32 * ((0 - (j + k)) - 1)) + (e + U32)
    BY <1>6, <1>7, <1>1, <1>4, <1>5
  <2>3. (sys_now - due) % U32 = e + U32
    BY <2>1, <2>2, <1>7, <1>4, <1>5, ModIs
  <2> QED BY <2>3, <2>1, <1>9, <1>7, <1>1, <1>2, HalfTurn DEF Expired, TIME_LESS_THAN, e
<1> QED BY <1>7, <1>8, <1>9

-----------------------------------------------------------------------------
LEMMA LwipInitInv == LwipInit => LwipInv
<1> SUFFICES ASSUME LwipInit PROVE LwipInv
  OBVIOUS
<1>1. LwipTypeOK
  <2>1. up \in BOOLEAN /\ armed \in BOOLEAN
    BY DEF LwipInit
  <2>2. /\ held \in 0 .. PBUF_POOL_SIZE /\ ticks \in 0 .. U32 - 1
        /\ since \in 0 .. MainPeriod /\ due \in 0 .. U32 - 1
        /\ age \in 0 .. AgeBound /\ age = 0
    BY Bounds, PoolAssumption DEF LwipInit
  <2> QED BY <2>1, <2>2 DEF LwipTypeOK
<1>2. TimerInTime /\ DueIsStart
  BY DEF LwipInit, TimerInTime, DueIsStart
<1> QED BY <1>1, <1>2 DEF LwipInv

(* A timer just started is in the invariant.                               *)
LEMMA StartedInv ==
  ASSUME LwipInv, sys_timeout, ticks' = ticks, since' \in 0 .. MainPeriod
  PROVE  /\ armed' = TRUE /\ due' \in 0 .. U32 - 1 /\ age' \in 0 .. AgeBound
         /\ TimerInTime' /\ DueIsStart'
<1> DEFINE M == ticks * TickMs
<1>1. TickMs \in Nat \ {0} /\ ticks \in Nat /\ INTERVAL \in Nat \ {0}
        /\ U32 \in Nat \ {0} /\ MainPeriod \in Nat /\ M \in Nat
  BY TickBounds, WrapAssumption DEF LwipInv, LwipTypeOK
<1>2. PICK j \in Int : M = (U32 * j) + sys_now /\ sys_now \in 0 .. U32 - 1
  <2>1. M \in Int /\ sys_now = M % U32
    BY <1>1 DEF sys_now
  <2> HIDE DEF M
  <2> QED BY <2>1, Wraps
<1>3. armed' = TRUE /\ due' = (sys_now + INTERVAL) % U32 /\ age' = 0
  BY DEF sys_timeout
<1>4. PICK d \in Int : sys_now + INTERVAL = (U32 * d) + due' /\ due' \in 0 .. U32 - 1
  <2>1. sys_now + INTERVAL \in Int
    BY <1>1, <1>2
  <2> QED BY <2>1, <1>3, Wraps
<1>5. DueIsStart'
  <2>1. due' = ((M - 0) + INTERVAL) + (U32 * ((0 - j) - d))
    <3>1. U32 * ((0 - j) - d) = (0 - (U32 * j)) - (U32 * d)
      BY <1>1, <1>2, <1>4
    <3>2. U32 * j \in Int /\ U32 * d \in Int /\ M \in Int /\ due' \in Int
            /\ sys_now \in Int /\ INTERVAL \in Int
      BY <1>1, <1>2, <1>4
    <3>3. M = (U32 * j) + sys_now /\ sys_now + INTERVAL = (U32 * d) + due'
      BY <1>2, <1>4
    <3> HIDE DEF M
    <3> QED BY <3>1, <3>2, <3>3
  <2>2. ticks' * TickMs = M /\ age' * TickMs = 0
    BY <1>1, <1>3
  <2>3. due' = ((ticks' * TickMs) - (age' * TickMs)) + INTERVAL + (U32 * ((0 - j) - d))
    BY <2>1, <2>2
  <2>4. (0 - j) - d \in Int
    BY <1>2, <1>4
  <2> QED BY <2>3, <2>4 DEF DueIsStart, TickMs
<1>6. TimerInTime'
  <2>1. since' * TickMs \in Nat /\ (age' - since') * TickMs = 0 - (since' * TickMs)
    <3>1. since' \in Nat /\ age' = 0
      BY <1>1, <1>3
    <3>2. (0 - since') * TickMs = 0 - (since' * TickMs)
      BY <3>1, <1>1
    <3>3. since' * TickMs \in Nat
      <4>1. \A x, y \in Nat : x * y \in Nat
        OBVIOUS
      <4> QED BY <4>1, <3>1, <1>1
    <3> QED BY <3>1, <3>2, <3>3
  <2> QED BY <2>1, <1>1 DEF TimerInTime, TickMs
<1> QED BY <1>3, <1>4, <1>5, <1>6, <1>1 DEF AgeBound

(* lwip_int_main runs the timer when its time has come, so that none that  *)
(* it leaves alone is late.                                                *)
LEMMA MainInv ==
  ASSUME LwipInv, NEW frame \in BOOLEAN, NEW fires \in BOOLEAN, lwip_int_main(frame, fires)
  PROVE  LwipInv'
<1>1. up' \in BOOLEAN /\ held' \in 0 .. PBUF_POOL_SIZE
  BY PoolAssumption DEF lwip_int_main, InputToAll, NoInput, LwipInv, LwipTypeOK
<1>2. ticks' = ticks /\ since' = 0 /\ MainPeriod \in Nat /\ ticks' \in 0 .. U32 - 1
  BY WrapAssumption DEF lwip_int_main, LwipInv, LwipTypeOK
<1>3. CASE sys_timeout
  <2>1. /\ armed' = TRUE /\ due' \in 0 .. U32 - 1 /\ age' \in 0 .. AgeBound
        /\ TimerInTime' /\ DueIsStart'
    BY <1>2, <1>3, StartedInv
  <2> QED BY <2>1, <1>1, <1>2, Bounds DEF LwipInv, LwipTypeOK
<1>4. CASE NoTimer
  BY <1>1, <1>2, <1>4, Bounds
     DEF NoTimer, LwipInv, LwipTypeOK, TimerInTime, DueIsStart
<1>5. CASE ~Expired /\ UNCHANGED timer
  <2>1. armed => (age - 0) * TickMs < INTERVAL
    <3> HAVE armed
    <3>1. age * TickMs \in Nat /\ age \in Nat
      BY TickBounds, WrapAssumption DEF LwipInv, LwipTypeOK, AgeBound
    <3>2. ~ (age * TickMs >= INTERVAL)
      BY <1>5, ExpiredWhenDue
    <3>3. (age - 0) * TickMs = age * TickMs
      BY <3>1
    <3> QED BY <3>1, <3>2, <3>3, WrapAssumption
  <2>2. TimerInTime'
    BY <2>1, <1>2, <1>5 DEF TimerInTime, timer, TickMs
  <2>3. DueIsStart'
    BY <1>2, <1>5 DEF LwipInv, DueIsStart, timer, TickMs
  <2>4. LwipTypeOK'
    BY <1>1, <1>2, <1>5, Bounds DEF LwipInv, LwipTypeOK, timer
  <2> QED BY <2>2, <2>3, <2>4, <1>1 DEF LwipInv
<1>6. sys_timeout \/ NoTimer \/ (~Expired /\ UNCHANGED timer)
  BY DEF lwip_int_main, sys_check_timeouts
<1> QED BY <1>3, <1>4, <1>5, <1>6

(* An OS tick makes the timer one tick older and the call of lwip_int_main *)
(* one tick later.                                                         *)
LEMMA TickInv == ASSUME LwipInv, Tick PROVE LwipInv'
<1>1. TickMs \in Nat \ {0} /\ ticks \in Nat /\ INTERVAL \in Nat \ {0} /\ age \in Nat
        /\ U32 \in Nat \ {0} /\ MainPeriod \in Nat /\ since \in Nat /\ since < MainPeriod
  BY TickBounds, WrapAssumption DEF LwipInv, LwipTypeOK, AgeBound, Tick
<1>2. /\ since' = since + 1 /\ ticks' = (ticks + 1) % U32
      /\ armed' = armed /\ due' = due
      /\ age' = IF armed /\ age < AgeBound THEN age + 1 ELSE age
  BY DEF Tick
<1>3. armed => age < AgeBound
  <2> HAVE armed
  <2>1. (age - since) * TickMs < INTERVAL
    BY DEF LwipInv, TimerInTime
  <2>2. CASE age - since >= INTERVAL
    <3>1. (age - since) * TickMs >= INTERVAL
      BY <2>2, <1>1
    <3> QED BY <3>1, <2>1, <1>1
  <2>3. CASE age - since < INTERVAL
    BY <2>3, <1>1 DEF AgeBound
  <2> QED BY <2>2, <2>3, <1>1
<1>4. LwipTypeOK'
  <2>1. ticks' \in 0 .. U32 - 1
    BY <1>1, <1>2, DivMod
  <2> QED BY <2>1, <1>1, <1>2, <1>3 DEF Tick, LwipInv, LwipTypeOK, AgeBound
<1>5. TimerInTime'
  <2>1. armed => age' - since' = age - since
    BY <1>1, <1>2, <1>3
  <2> QED BY <2>1, <1>2 DEF LwipInv, TimerInTime, TickMs
<1>6. DueIsStart'
  <2> SUFFICES ASSUME armed
               PROVE  \E k \in Int :
                        due' = ((ticks' * TickMs) - (age' * TickMs)) + INTERVAL + (U32 * k)
    BY <1>2 DEF DueIsStart, TickMs
  <2>1. PICK k \in Int : due = ((ticks * TickMs) - (age * TickMs)) + INTERVAL + (U32 * k)
    BY DEF LwipInv, DueIsStart
  <2>2. PICK d \in Int : ticks + 1 = (U32 * d) + ticks' /\ ticks' \in 0 .. U32 - 1
    <3>1. ticks + 1 \in Int
      BY <1>1
    <3> QED BY <3>1, <1>2, Wraps
  <2>3. age' = age + 1
    BY <1>2, <1>3
  <2>4. age' * TickMs = (age * TickMs) + TickMs
    BY <2>3, <1>1
  <2>5. ticks' * TickMs = ((ticks * TickMs) + TickMs) - (U32 * (d * TickMs))
    <3>1. U32 * d \in Int
      BY <2>2, <1>1
    <3>2. ticks' = (ticks + 1) - (U32 * d)
      <4>1. \A x, y, z \in Int : x = y + z => z = x - y
        OBVIOUS
      <4>2. ticks' \in Int /\ ticks + 1 \in Int
        BY <2>2, <1>1
      <4> QED BY <4>1, <4>2, <3>1, <2>2
    <3>3. ticks' * TickMs = ((ticks + 1) * TickMs) - ((U32 * d) * TickMs)
      BY <3>1, <3>2, <1>1
    <3>4. (U32 * d) * TickMs = U32 * (d * TickMs)
      BY <2>2, <1>1
    <3>5. (ticks + 1) * TickMs = (ticks * TickMs) + TickMs
      BY <1>1
    <3> QED BY <3>3, <3>4, <3>5
  <2>6. U32 * (k + (d * TickMs)) = (U32 * k) + (U32 * (d * TickMs))
    BY <1>1, <2>1, <2>2
  <2>7. due' = ((ticks' * TickMs) - (age' * TickMs)) + INTERVAL + (U32 * (k + (d * TickMs)))
    <3>1. ticks * TickMs \in Int /\ age * TickMs \in Int /\ U32 * k \in Int
            /\ U32 * (d * TickMs) \in Int
      BY <1>1, <2>1, <2>2
    <3> QED BY <3>1, <2>1, <2>4, <2>5, <2>6, <1>1, <1>2
  <2>8. k + (d * TickMs) \in Int
    BY <2>1, <2>2, <1>1
  <2> QED BY <2>7, <2>8
<1> QED BY <1>4, <1>5, <1>6 DEF Tick, LwipInv

(* Each step of the integration layer keeps the invariant.                 *)
LEMMA LwipStepInv == LwipInv /\ [LwipNext]_lwipVars => LwipInv'
<1> SUFFICES ASSUME LwipInv, [LwipNext]_lwipVars PROVE LwipInv'
  OBVIOUS
<1>1. CASE lwip_int_init
  <2>1. LwipTypeOK'
    <3>1. up' \in BOOLEAN /\ armed' \in BOOLEAN
      BY <1>1 DEF lwip_int_init, netif_initialize, NoTimer, LwipInv, LwipTypeOK
    <3>2. /\ held' \in 0 .. PBUF_POOL_SIZE /\ ticks' \in 0 .. U32 - 1
          /\ since' \in 0 .. MainPeriod /\ due' \in 0 .. U32 - 1
          /\ age' \in 0 .. AgeBound /\ age' = 0
      BY <1>1, Bounds, PoolAssumption DEF lwip_int_init, netif_initialize, NoTimer, LwipInv, LwipTypeOK
    <3> QED BY <3>1, <3>2 DEF LwipTypeOK, AgeBound
  <2>2. TimerInTime' /\ DueIsStart'
    BY <1>1 DEF lwip_int_init, netif_initialize, NoTimer, LwipInv, TimerInTime, DueIsStart
  <2> QED BY <2>1, <2>2 DEF LwipInv
<1>2. ASSUME NEW frame \in BOOLEAN, NEW fires \in BOOLEAN, lwip_int_main(frame, fires)
      PROVE  LwipInv'
  BY <1>2, MainInv
<1>3. CASE tcp_timer_needed
  <2>1. sys_timeout /\ ticks' = ticks /\ since' \in 0 .. MainPeriod
    BY <1>3 DEF tcp_timer_needed, LwipInv, LwipTypeOK
  <2>2. /\ armed' = TRUE /\ due' \in 0 .. U32 - 1 /\ age' \in 0 .. AgeBound
        /\ TimerInTime' /\ DueIsStart'
    BY <2>1, StartedInv
  <2> QED BY <2>1, <2>2, <1>3 DEF tcp_timer_needed, LwipInv, LwipTypeOK, AgeBound
<1>4. CASE Tick
  BY <1>4, TickInv
<1>5. CASE UNCHANGED lwipVars
  BY <1>5 DEF lwipVars, LwipInv, LwipTypeOK, TimerInTime, DueIsStart, AgeBound, TickMs
<1> QED BY <1>1, <1>2, <1>3, <1>4, <1>5 DEF LwipNext

(* The invariant holds in every behaviour.                                 *)
THEOREM LwipInvariant == LwipSpec => []LwipInv
<1> QED BY LwipInitInv, LwipStepInv, PTL DEF LwipSpec

-----------------------------------------------------------------------------
(* The invariant bounds the timer from below, in real time.                *)
LEMMA NotEarlyFromInv == LwipInv => TimerNotEarly
<1> SUFFICES ASSUME LwipInv, Expired PROVE age * OS_TICK_DURATION_ns >= INTERVAL * NS_PER_MS
  BY DEF TimerNotEarly
<1>1. age \in Nat /\ TickMs \in Nat /\ NS_PER_MS \in Nat /\ OS_TICK_DURATION_ns \in Nat
        /\ INTERVAL \in Nat
  BY TickBounds, TickAssumption, WrapAssumption DEF LwipInv, LwipTypeOK, AgeBound
<1>2. age * TickMs >= INTERVAL
  BY ExpiredWhenDue DEF Expired
<1>3. (age * TickMs) * NS_PER_MS >= INTERVAL * NS_PER_MS
  BY <1>1, <1>2
<1>4. age * OS_TICK_DURATION_ns >= age * (TickMs * NS_PER_MS)
  BY <1>1, TickBounds
<1>5. age * (TickMs * NS_PER_MS) = (age * TickMs) * NS_PER_MS
  BY <1>1
<1>6. /\ (age * TickMs) * NS_PER_MS \in Int /\ INTERVAL * NS_PER_MS \in Int
      /\ age * OS_TICK_DURATION_ns \in Int
  BY <1>1
<1> QED BY <1>3, <1>4, <1>5, <1>6

(* The types hold, and lwIP never holds more pbufs than there are.         *)
THEOREM LwipTypesHold == LwipSpec => []LwipTypeOK
<1>1. LwipInv => LwipTypeOK
  BY DEF LwipInv
<1> QED BY <1>1, LwipInvariant, PTL

(* No timer runs before its interval has really passed.                    *)
THEOREM TimersNotEarly == LwipSpec => []TimerNotEarly
  BY NotEarlyFromInv, LwipInvariant, PTL

(* No timer is forgotten, also when the clock wraps.                       *)
THEOREM TimersInTime == LwipSpec => []TimerInTime
<1>1. LwipInv => TimerInTime
  BY DEF LwipInv
<1> QED BY <1>1, LwipInvariant, PTL
=============================================================================
