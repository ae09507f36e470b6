------------------------------ MODULE LwipInt ------------------------------
(***************************************************************************)
(* lwip_int.c and sys_arch.c: lwIP without an operating system.  The       *)
(* scheduler calls TcpIp_MainFunction, which calls lwip_int_main: it polls *)
(* the MAC for one frame, hands it to the interface and runs the lwIP      *)
(* timers that are due by sys_now, the number of OS ticks in milliseconds, *)
(* a u32 that wraps.  All functions run to completion.  There is one       *)
(* interface (MAX_TCPIP_LOCAL_ADDRESS in cfg/TcpIp_cfg.h).                 *)
(*                                                                         *)
(* lwIP is external.  It is seen here through the pool pbufs it keeps and  *)
(* one timer, that of TCP: sys_timeout starts it when a connection exists, *)
(* its handler starts it again while one does.                             *)
(***************************************************************************)
EXTENDS Integers

CONSTANTS
  PBUF_POOL_SIZE,           (* pbufs for received frames                 *)
  OS_TICK_DURATION_ns,      (* one OS tick                               *)
  NS_PER_MS,                (* 1000000                                   *)
  MainPeriod,               (* mainfn_period_ms, in OS ticks             *)
  INTERVAL,                 (* the interval of the timer, in ms          *)
  U32                       (* 2^32                                      *)

TickMs == OS_TICK_DURATION_ns \div NS_PER_MS

(* A tick of less than a millisecond would count as nothing.  The wrap of  *)
(* sys_now is harmless while a call of lwip_int_main is not half a turn    *)
(* late.                                                                   *)
ASSUME TickAssumption ==
  /\ OS_TICK_DURATION_ns \in Nat /\ NS_PER_MS \in Nat \ {0}
  /\ OS_TICK_DURATION_ns >= NS_PER_MS
ASSUME WrapAssumption ==
  /\ U32 \in Nat \ {0} /\ INTERVAL \in Nat \ {0} /\ MainPeriod \in Nat \ {0}
  /\ INTERVAL <= U32 \div 2 /\ MainPeriod * TickMs <= U32 \div 2
ASSUME PoolAssumption == PBUF_POOL_SIZE \in Nat

VARIABLES
  up,     (* the interfaces are there: TcpIp_Init has been called        *)
  held,   (* pool pbufs in use by lwIP                                   *)
  ticks,  (* the OS tick counter                                         *)
  since,  (* ticks since the last call of lwip_int_main                  *)
  armed,  (* the timer is in the list of sys_timeouts                    *)
  due,    (* its time there                                              *)
  age     (* history: ticks since it was started                         *)

timer    == <<armed, due, age>>
lwipVars == <<up, held, ticks, since, armed, due, age>>

(* Bound: the history age counts no further; TimerInTime says that it need *)
(* not.                                                                    *)
AgeBound == INTERVAL + MainPeriod

LwipInit ==
  /\ up = FALSE
  /\ held = 0
  /\ ticks = 0 /\ since = 0
  /\ armed = FALSE /\ due = 0 /\ age = 0

-----------------------------------------------------------------------------
(* Time.                                                                   *)

sys_nowRoundsUp ==
  (ticks * ((OS_TICK_DURATION_ns + NS_PER_MS - 1) \div NS_PER_MS)) % U32

sys_now == (ticks * TickMs) % U32

(* TIME_LESS_THAN of lwIP's timeouts.c: t - d, as a u32, exceeds           *)
(* LWIP_MAX_TIMEOUT.                                                       *)
TIME_LESS_THAN(t, d) == (t - d) % U32 >= U32 \div 2

Expired == armed /\ ~TIME_LESS_THAN(sys_now, due)

(* sys_timeout: the timer is due INTERVAL from now. *)
sys_timeout ==
  /\ armed' = TRUE
  /\ due' = (sys_now + INTERVAL) % U32
  /\ age' = 0

NoTimer == armed' = FALSE /\ due' = 0 /\ age' = 0

(* sys_check_timeouts: fires when the handler of the timer runs.           *)
sys_check_timeouts(fires) ==
  /\ fires = Expired
  /\ IF fires THEN sys_timeout \/ NoTimer ELSE UNCHANGED timer

-----------------------------------------------------------------------------
(* Frames.  pbuf_alloc gave a pbuf p and the interface's input function    *)
(* gets it.  lwIP may keep it and may give back others.  (Who frees p when *)
(* is in RxPath.)                                                          *)
InputToAllWithoutTest == held' \in 0 .. held + 1

InputToAll == up /\ held < PBUF_POOL_SIZE /\ held' \in 0 .. held + 1

(* No packet, or no pbuf for it: before TcpIp_Init the pool is empty.  The *)
(* NULL of pbuf_alloc still goes to pbuf_take, which refuses it.           *)
NoInput == held' \in 0 .. held

(* lwip_int_main: frame when a frame went to the interface.  The frame     *)
(* may open a connection, which starts the timer.                          *)
lwip_int_mainNoTimers(frame, fires) ==
  /\ IF frame THEN InputToAll ELSE NoInput
  /\ ~fires
  /\ UNCHANGED timer \/ (frame /\ ~armed /\ sys_timeout)
  /\ since' = 0
  /\ UNCHANGED <<up, ticks>>

lwip_int_main(frame, fires) ==
  /\ IF frame THEN InputToAll ELSE NoInput
  /\ sys_check_timeouts(fires) \/ (frame /\ ~armed /\ ~fires /\ sys_timeout)
  /\ since' = 0
  /\ UNCHANGED <<up, ticks>>

(* tcp_timer_needed, when the application opens a connection.              *)
tcp_timer_needed ==
  /\ up /\ ~armed
  /\ sys_timeout
  /\ UNCHANGED <<up, held, ticks, since>>

(* netif_add calls it: the interface gets its output functions, its MTU,   *)
(* flags and address.  It never fails, so netif_add always gives an        *)
(* interface, and frames can go in and out.                                *)
netif_initialize == up' = TRUE

(* TcpIp_Init, once: lwip_init sets up the pools and an empty timer list,  *)
(* then netif_add the interface.                                           *)
lwip_int_init ==
  /\ ~up
  /\ netif_initialize
  /\ held' = 0
  /\ NoTimer
  /\ UNCHANGED <<ticks, since>>

(* An OS tick.  The scheduler calls TcpIp_MainFunction once a period.      *)
Tick ==
  /\ since < MainPeriod
  /\ since' = since + 1
  /\ ticks' = (ticks + 1) % U32
  /\ age' = IF armed /\ age < AgeBound THEN age + 1 ELSE age
  /\ UNCHANGED <<up, held, armed, due>>

LwipNext ==
  \/ lwip_int_init
  \/ \E frame, fires \in BOOLEAN : lwip_int_main(frame, fires)
  \/ tcp_timer_needed
  \/ Tick

LwipSpec == LwipInit /\ [][LwipNext]_lwipVars

-----------------------------------------------------------------------------
(* Types; lwIP never holds more pbufs than the pool has.                   *)
LwipTypeOK ==
  /\ up \in BOOLEAN
  /\ held \in 0 .. PBUF_POOL_SIZE
  /\ ticks \in 0 .. U32 - 1
  /\ since \in 0 .. MainPeriod
  /\ armed \in BOOLEAN
  /\ due \in 0 .. U32 - 1
  /\ age \in 0 .. AgeBound
  /\ ~armed => age = 0

(* The timer is never found expired before INTERVAL real milliseconds,     *)
(* also when sys_now has wrapped since it was started (sys_arch.c:50).     *)
TimerNotEarly ==
  Expired => age * OS_TICK_DURATION_ns >= INTERVAL * NS_PER_MS

(* The timer is not forgotten (lwip_int.c:116): it runs by the first call  *)
(* of lwip_int_main after its interval by sys_now.                         *)
TimerInTime == armed => (age - since) * TickMs < INTERVAL

(* What keeps both true: due is INTERVAL after the start, modulo U32.      *)
DueIsStart ==
  armed => \E k \in Int :
             due = ((ticks * TickMs) - (age * TickMs)) + INTERVAL + (U32 * k)

LwipInv ==
  /\ LwipTypeOK
  /\ TimerInTime
  /\ DueIsStart
=============================================================================
