--------------------------- MODULE PllLockService ---------------------------
(***************************************************************************)
(* logic_pll_lock_service_main: resets a PLL, waits for its lock, resets   *)
(* it again when the lock does not come in time or is lost.  The unit and  *)
(* the timer talk over two streams: the unit stalls the timer while the    *)
(* PLL is locked, sets its period at each change of phase, and takes the   *)
(* timer's tlast for the end of the phase.                                 *)
(*                                                                         *)
(* pll_locked comes from outside and is filtered by PLL_LOCKED_STAGES      *)
(* registers: `stable' when all of them are high, `filtered' (still high)  *)
(* when any of them is.                                                    *)
(***************************************************************************)
EXTENDS Integers

CONSTANTS RESET_DURATION, WAIT_FOR_LOCK, PLL_LOCKED_STAGES, COUNTER_SIZE

(***************************************************************************)
(* The design rules.                                                       *)
(***************************************************************************)
ASSUME PllAssumption ==
    /\ RESET_DURATION \in Nat /\ RESET_DURATION >= 2
    /\ WAIT_FOR_LOCK \in Nat /\ WAIT_FOR_LOCK >= 2
    /\ PLL_LOCKED_STAGES \in Nat /\ PLL_LOCKED_STAGES >= 2
    /\ COUNTER_SIZE \in Nat
    /\ COUNTER_SIZE >= RESET_DURATION /\ COUNTER_SIZE >= WAIT_FOR_LOCK

COUNTER_MAX == IF RESET_DURATION < WAIT_FOR_LOCK THEN WAIT_FOR_LOCK
                                                 ELSE RESET_DURATION

VARIABLES areset_n, pll_locked,
          fsm_state, pll_locked_q, pll_locked_stable, pll_locked_filtered,
          pll_reset, locked,
          timer_state, counter, periodic, counter_event, timer_tvalid

unitRegisters == <<fsm_state, pll_locked_q, pll_locked_stable,
                   pll_locked_filtered, pll_reset, locked>>

timerRegisters == <<timer_state, counter, periodic, counter_event,
                    timer_tvalid>>

vars == <<areset_n, pll_locked, unitRegisters, timerRegisters>>

Stages == 0 .. PLL_LOCKED_STAGES - 1

-----------------------------------------------------------------------------
\* The streams between the unit and the timer.

\* Mutant: the timer is stalled outside the wait.
timer_tready_Waiting == fsm_state = "WAIT_FOR_LOCK"

timer_tready == fsm_state # "LOCKED"

timer_event == timer_tready /\ timer_tvalid /\ counter_event

\* Mutant: the end of the reset does not set the timer.
config_tvalid_Once == fsm_state = "RESET_LOAD"

config_tvalid == \/ fsm_state = "RESET_LOAD"
                 \/ fsm_state = "RESET" /\ timer_event

config_tdata == IF fsm_state = "RESET_LOAD" THEN RESET_DURATION
                                            ELSE WAIT_FOR_LOCK

Timer == INSTANCE StreamTimer
    WITH PERIODIC_DEFAULT <- RESET_DURATION,
         rx_tvalid <- config_tvalid,
         rx_tdata  <- config_tdata,
         tx_tready <- timer_tready,
         tx_tvalid <- timer_tvalid,
         fsm_state <- timer_state

TypeOK ==
    /\ areset_n \in BOOLEAN
    /\ pll_locked \in BOOLEAN
    /\ fsm_state \in {"RESET", "WAIT_FOR_LOCK", "LOCKED", "RESET_LOAD"}
    /\ pll_locked_q \in [Stages -> BOOLEAN]
    /\ pll_locked_stable \in BOOLEAN
    /\ pll_locked_filtered \in BOOLEAN
    /\ pll_reset \in BOOLEAN
    /\ locked \in BOOLEAN
    /\ Timer!TypeOK

-----------------------------------------------------------------------------
\* Registers.

\* Mutant: one low sample does not count.
FilterAny ==
    /\ pll_locked_q' = [k \in Stages |-> IF k = PLL_LOCKED_STAGES - 1
                                         THEN pll_locked
                                         ELSE pll_locked_q[k + 1]]
    /\ pll_locked_stable' = \E k \in Stages : pll_locked_q[k]
    /\ pll_locked_filtered' = \E k \in Stages : pll_locked_q[k]

Filter ==
    /\ pll_locked_q' = [k \in Stages |-> IF k = PLL_LOCKED_STAGES - 1
                                         THEN pll_locked
                                         ELSE pll_locked_q[k + 1]]
    /\ pll_locked_stable' = \A k \in Stages : pll_locked_q[k]
    /\ pll_locked_filtered' = \E k \in Stages : pll_locked_q[k]

\* Mutant: the filtered signal is taken for its inverse.
FsmStateInverted ==
    fsm_state' =
        CASE fsm_state = "RESET" /\ timer_event -> "WAIT_FOR_LOCK"
          [] fsm_state = "WAIT_FOR_LOCK" /\ pll_locked_stable -> "LOCKED"
          [] fsm_state = "WAIT_FOR_LOCK" /\ ~pll_locked_stable /\ timer_event ->
                "RESET_LOAD"
          [] fsm_state = "LOCKED" /\ pll_locked_filtered -> "RESET_LOAD"
          [] fsm_state = "RESET_LOAD" -> "RESET"
          [] OTHER -> fsm_state

FsmState ==
    fsm_state' =
        CASE fsm_state = "RESET" /\ timer_event -> "WAIT_FOR_LOCK"
          [] fsm_state = "WAIT_FOR_LOCK" /\ pll_locked_stable -> "LOCKED"
          [] fsm_state = "WAIT_FOR_LOCK" /\ ~pll_locked_stable /\ timer_event ->
                "RESET_LOAD"
          [] fsm_state = "LOCKED" /\ ~pll_locked_filtered -> "RESET_LOAD"
          [] fsm_state = "RESET_LOAD" -> "RESET"
          [] OTHER -> fsm_state

Outputs ==
    /\ pll_reset' = (fsm_state = "RESET")
    /\ locked' = (fsm_state = "LOCKED")

-----------------------------------------------------------------------------

Init ==
    /\ areset_n = FALSE
    /\ pll_locked = FALSE
    /\ fsm_state = "RESET"
    /\ pll_locked_q = [k \in Stages |-> FALSE]
    /\ pll_locked_stable = FALSE
    /\ pll_locked_filtered = FALSE
    /\ pll_reset = TRUE
    /\ locked = FALSE
    /\ timer_state = "IDLE"
    /\ counter = 0
    /\ periodic = Timer!Load(RESET_DURATION)
    /\ counter_event = FALSE
    /\ timer_tvalid = FALSE

(***************************************************************************)
(* A rising edge of aclk; pll_locked may do anything.                      *)
(***************************************************************************)
Clock ==
    /\ areset_n
    /\ Filter
    /\ FsmState
    /\ Outputs
    /\ Timer!ClockRegisters
    /\ pll_locked' \in BOOLEAN
    /\ UNCHANGED areset_n

Reset ==
    /\ areset_n
    /\ areset_n' = FALSE
    /\ fsm_state' = "RESET"
    /\ pll_locked_q' = [k \in Stages |-> FALSE]
    /\ pll_locked_stable' = FALSE
    /\ pll_locked_filtered' = FALSE
    /\ pll_reset' = TRUE
    /\ locked' = FALSE
    /\ Timer!ResetRegisters
    /\ pll_locked' \in BOOLEAN

Release ==
    /\ ~areset_n
    /\ areset_n' = TRUE
    /\ UNCHANGED <<pll_locked, unitRegisters, timerRegisters>>

Next == Clock \/ Reset \/ Release

Spec == Init /\ [][Next]_vars

-----------------------------------------------------------------------------
\* Properties.

(***************************************************************************)
(* A PLL that never locks is reset again and again: the stream timer and   *)
(* the state machine never wait for each other.                            *)
(***************************************************************************)
Retries == <>[](areset_n /\ ~pll_locked) => []<>pll_reset /\ []<>~pll_reset

(***************************************************************************)
(* A lock that stays is announced for good.                                *)
(***************************************************************************)
Locks == <>[](areset_n /\ pll_locked) => <>[]locked

=============================================================================
