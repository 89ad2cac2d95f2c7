-------------------------- MODULE MCPllLockService --------------------------
(***************************************************************************)
(* PllLockService with a history of how long its phases lasted and of the  *)
(* samples of pll_locked it works on.                                      *)
(***************************************************************************)
EXTENDS PllLockService

VARIABLES
    resetClocks,   \* clocks for which pll_reset has been high
    waitClocks,    \* clocks for which the unit has been waiting for the lock
    samples        \* the last values of pll_locked, the newest first

history == <<resetClocks, waitClocks, samples>>

(***************************************************************************)
(* The samples that `locked' is decided on are two clocks old: one for     *)
(* pll_locked_stable and pll_locked_filtered, one for the state machine.   *)
(***************************************************************************)
Window == 3 .. PLL_LOCKED_STAGES + 2

Recent == 1 .. PLL_LOCKED_STAGES + 2

Saturated(n, bound) == IF n >= bound THEN bound ELSE n + 1

MCInit ==
    /\ Init
    /\ resetClocks = 0
    /\ waitClocks = 0
    /\ samples = [k \in Recent |-> FALSE]

Record ==
    /\ resetClocks' = IF areset_n /\ pll_reset
                      THEN Saturated(resetClocks, RESET_DURATION + 1) ELSE 0
    /\ waitClocks' = IF areset_n /\ fsm_state = "WAIT_FOR_LOCK"
                     THEN Saturated(waitClocks, WAIT_FOR_LOCK + 1) ELSE 0
    /\ samples' = [k \in Recent |->
                      areset_n /\ (IF k = 1 THEN pll_locked ELSE samples[k - 1])]

MCNext == Next /\ Record

(***************************************************************************)
(* The clock runs: a register that is due to change changes.  The clock    *)
(* does not make pll_locked change.                                        *)
(***************************************************************************)
MCSpec ==
    /\ MCInit
    /\ [][MCNext]_<<vars, history>>
    /\ WF_<<unitRegisters, timerRegisters>>(Clock /\ MCNext)

(***************************************************************************)
(* "RESET_DURATION - Number of clock cycles for PLL reset duration": no    *)
(* reset of the PLL is shorter.                                            *)
(***************************************************************************)
ResetLasts ==
    [][areset_n /\ pll_reset /\ ~pll_reset' => resetClocks + 1 >= RESET_DURATION]_vars

(***************************************************************************)
(* "WAIT_FOR_LOCK - Number of clock cycles for PLL lock timeout": the unit *)
(* gives up after WAIT_FOR_LOCK clocks, not earlier and not later, whatever*)
(* the timer was doing when its period was set.                            *)
(***************************************************************************)
TimeoutExact ==
    [][fsm_state = "WAIT_FOR_LOCK" /\ fsm_state' = "RESET_LOAD"
         => waitClocks + 1 = WAIT_FOR_LOCK]_vars

(***************************************************************************)
(* "Filtered and stable PLL locked output signal": `locked' rises only on  *)
(* PLL_LOCKED_STAGES high samples, and falls only on as many low ones, so  *)
(* that no glitch of pll_locked reaches it.                                *)
(***************************************************************************)
Filtered ==
    [][areset_n' =>
         /\ ~locked /\ locked' => \A k \in Window : samples[k]
         /\ locked /\ ~locked' => \A k \in Window : ~samples[k]]_vars

=============================================================================
