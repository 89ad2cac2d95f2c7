---------------------------- MODULE ClockingProof ----------------------------
(***************************************************************************)
(* Proofs about MCClocking, for every duration, every number of stages,    *)
(* every set of reset inputs and every width: the release of the           *)
(* synchronized reset, the durations and the filter of the PLL service,    *)
(* and the crossing under resets.                                          *)
(***************************************************************************)
EXTENDS MCClocking, TLAPS

-----------------------------------------------------------------------------
\* The synchronizer of several resets.

(***************************************************************************)
(* The chains measure how long the inputs have been released.  A chain is  *)
(* cleared while its input is low.  From the top, each chain is full as    *)
(* far as the stopwatch has come, and the chain of the input that was low  *)
(* last exactly as far; the common chain starts when those are full.       *)
(***************************************************************************)
Low == \A r \in RESETS :
          ~resets_n[r] => elapsed = 0 /\ areset_n_chain[r] = Synchronizer!Cleared

AtLeast == \A r \in RESETS : \A k \in 0 .. SYNC_STAGES - 1 :
              k + elapsed >= SYNC_STAGES => areset_n_chain[r][k]

Exactly(r) == \A k \in 0 .. SYNC_STAGES - 1 :
                 areset_n_chain[r][k] => k + elapsed >= SYNC_STAGES

Common == Synchronizer!Several =>
             \A k \in 0 .. SYNC_STAGES - 1 : chain[k] <=> k + elapsed >= 2 * SYNC_STAGES

SynchronizerInv ==
    /\ Synchronizer!TypeOK
    /\ elapsed \in 0 .. Synchronizer!Delay
    /\ Low
    /\ AtLeast
    /\ \E r \in RESETS : Exactly(r)
    /\ Common

\* The stopwatch runs for the stages of one chain, or of two in a row.
LEMMA DelayType ==
    /\ SYNC_STAGES \in Nat /\ SYNC_STAGES >= 2
    /\ Synchronizer!Delay \in Nat
    /\ Synchronizer!Delay >= SYNC_STAGES
    /\ Synchronizer!Several => Synchronizer!Delay = 2 * SYNC_STAGES
    /\ ~Synchronizer!Several => Synchronizer!Delay = SYNC_STAGES
BY ClockingAssumption DEF Synchronizer!Delay

\* All inputs are low and all chains cleared.
LEMMA SynchronizerInitInv == Synchronizer!MCInit => SynchronizerInv
<1> SUFFICES ASSUME Synchronizer!MCInit
             PROVE  SynchronizerInv
  OBVIOUS
<1> USE DelayType
<1>1. /\ resets_n = [r \in RESETS |-> FALSE]
      /\ areset_n_chain = [r \in RESETS |-> Synchronizer!Cleared]
      /\ chain = Synchronizer!Cleared
      /\ elapsed = 0
  BY DEF Synchronizer!MCInit, Synchronizer!Init
<1>2. Synchronizer!Cleared = [k \in 0 .. SYNC_STAGES - 1 |-> FALSE]
  BY DEF Synchronizer!Cleared
<1>3. Synchronizer!TypeOK
  BY <1>1, <1>2 DEF Synchronizer!TypeOK, Synchronizer!Chains
<1>4. Low /\ AtLeast /\ Common
  BY <1>1, <1>2 DEF Low, AtLeast, Common
<1>5. \E r \in RESETS : Exactly(r)
  BY <1>1, <1>2, ClockingAssumption DEF Exactly
<1> QED
  BY <1>1, <1>3, <1>4, <1>5 DEF SynchronizerInv

(***************************************************************************)
(* The output is the bottom of the chains, so it is high exactly when they *)
(* are full.                                                               *)
(***************************************************************************)
LEMMA Full ==
    ASSUME SynchronizerInv
    PROVE  /\ Synchronizer!areset_n_q <=> elapsed >= SYNC_STAGES
           /\ ReleasedInTime
<1> USE DelayType
<1>1. Synchronizer!areset_n_q <=> \A r \in RESETS : areset_n_chain[r][0]
  BY DEF Synchronizer!areset_n_q, Synchronizer!Synced
<1>2. elapsed \in Nat /\ elapsed <= Synchronizer!Delay
  BY DEF SynchronizerInv
<1>3. ASSUME elapsed >= SYNC_STAGES
      PROVE  \A r \in RESETS : areset_n_chain[r][0]
  BY <1>2, <1>3 DEF SynchronizerInv, AtLeast
<1>4. ASSUME \A r \in RESETS : areset_n_chain[r][0]
      PROVE  elapsed >= SYNC_STAGES
  BY <1>2, <1>4 DEF SynchronizerInv, Exactly
<1>5. Synchronizer!areset_n_q <=> elapsed >= SYNC_STAGES
  BY <1>1, <1>3, <1>4
<1>6. CASE Synchronizer!Several
  <2>1. chain[0] <=> elapsed >= 2 * SYNC_STAGES
    BY <1>2, <1>6 DEF SynchronizerInv, Common
  <2> QED
    BY <1>2, <1>5, <1>6, <2>1
    DEF ReleasedInTime, Synchronizer!ReleasedInTime,
        Synchronizer!areset_n_synced,
        Synchronizer!Synced
<1>7. CASE ~Synchronizer!Several
  BY <1>2, <1>5, <1>7
  DEF ReleasedInTime, Synchronizer!ReleasedInTime, Synchronizer!areset_n_synced
<1> QED
  BY <1>5, <1>6, <1>7

(***************************************************************************)
(* While an input is low, the stopwatch is at 0 and its chain is cleared:  *)
(* nothing else is left to show.                                           *)
(***************************************************************************)
SomeLow ==
    /\ \E r \in RESETS : ~resets_n[r]
    /\ elapsed = 0
    /\ Low
    /\ chain = Synchronizer!Cleared
    /\ Synchronizer!TypeOK

\* With one reset low the chain is cleared.
LEMMA LowInv == SomeLow => SynchronizerInv
<1> SUFFICES ASSUME SomeLow
             PROVE  SynchronizerInv
  OBVIOUS
<1> USE DelayType DEF SomeLow
<1> PICK r \in RESETS : ~resets_n[r]
  OBVIOUS
<1>1. areset_n_chain[r] = [k \in 0 .. SYNC_STAGES - 1 |-> FALSE]
  BY DEF Low, Synchronizer!Cleared
<1>2. Exactly(r)
  BY <1>1 DEF Exactly
<1>3. AtLeast
  BY DEF AtLeast
<1>4. Common
  BY DEF Common, Synchronizer!Cleared
<1> QED
  BY <1>2, <1>3, <1>4 DEF SynchronizerInv

\* A clock edge, the falling edge of an input, and its release.
LEMMA SynchronizerNextInv ==
    ASSUME SynchronizerInv, Synchronizer!MCNext
    PROVE  SynchronizerInv'
<1> USE DelayType
<1> DEFINE high == \A r \in RESETS : resets_n[r] /\ resets_n'[r]
<1>0. /\ resets_n \in [RESETS -> BOOLEAN]
      /\ areset_n_chain \in [RESETS -> [0 .. SYNC_STAGES - 1 -> BOOLEAN]]
      /\ chain \in [0 .. SYNC_STAGES - 1 -> BOOLEAN]
      /\ elapsed \in Nat /\ elapsed <= Synchronizer!Delay
      /\ Low
  BY DEF SynchronizerInv, Synchronizer!TypeOK, Synchronizer!Chains
<1>1. elapsed' = IF ~high THEN 0
                 ELSE IF elapsed = Synchronizer!Delay THEN elapsed ELSE elapsed + 1
  BY DEF Synchronizer!MCNext
<1>2. Synchronizer!Cleared = [k \in 0 .. SYNC_STAGES - 1 |-> FALSE]
  BY DEF Synchronizer!Cleared
<1>3. /\ Synchronizer!Delay' = Synchronizer!Delay
      /\ Synchronizer!Several' = Synchronizer!Several
      /\ Synchronizer!Cleared' = Synchronizer!Cleared
  OBVIOUS
<1>4. elapsed' \in 0 .. Synchronizer!Delay
  BY <1>0, <1>1
<1>5. SomeLow' => SynchronizerInv'
  <2>1. (SomeLow => SynchronizerInv)'
    BY LowInv, PTL
  <2> QED
    BY <2>1
<1>6. CASE Synchronizer!Clock
  <2>1. /\ resets_n' = resets_n
        /\ chain' = IF Synchronizer!areset_n_q THEN Synchronizer!Shifted(chain)
                                               ELSE Synchronizer!Cleared
        /\ areset_n_chain' = [r \in RESETS |->
               IF resets_n[r] THEN Synchronizer!Shifted(areset_n_chain[r])
                              ELSE Synchronizer!Cleared]
    BY <1>6 DEF Synchronizer!Clock
  <2>2. \A q : Synchronizer!Shifted(q)
                  = [k \in 0 .. SYNC_STAGES - 1 |-> k = SYNC_STAGES - 1 \/ q[k + 1]]
    BY DEF Synchronizer!Shifted
  <2>3. Synchronizer!TypeOK'
    <3>1. \A q \in [0 .. SYNC_STAGES - 1 -> BOOLEAN] :
             Synchronizer!Shifted(q) \in [0 .. SYNC_STAGES - 1 -> BOOLEAN]
      BY <2>2
    <3> QED
      BY <1>0, <1>2, <2>1, <3>1 DEF Synchronizer!TypeOK, Synchronizer!Chains
  <2>4. Low'
    BY <1>0, <1>1, <1>3, <2>1 DEF Low
  <2>5. CASE ~high
    <3>1. PICK r \in RESETS : ~resets_n[r]
      BY <2>1, <2>5
    <3>2. elapsed' = 0 /\ ~resets_n'[r]
      BY <1>1, <2>1, <2>5, <3>1
    <3>3. ~Synchronizer!areset_n_q
      <4>1. elapsed = 0
        BY <1>0, <3>1 DEF Low
      <4> QED
        BY <4>1, Full
    <3>4. chain' = Synchronizer!Cleared
      BY <2>1, <3>3
    <3> QED
      BY <1>6, <2>3, <2>4, <3>2, <3>4, <1>5 DEF SomeLow
  <2>6. CASE high
    <3> DEFINE now == elapsed'
    <3>1. /\ SYNC_STAGES \in Nat /\ elapsed \in Nat /\ now \in Nat
          /\ now >= elapsed /\ now <= elapsed + 1
          /\ now = elapsed + 1 \/ (now = elapsed /\ elapsed >= SYNC_STAGES)
          /\ Synchronizer!Several =>
                now = elapsed + 1 \/ (now = elapsed /\ elapsed >= 2 * SYNC_STAGES)
      BY <1>0, <1>1, <2>6
    <3> HIDE DEF now
    <3>2. \A r \in RESETS :
             areset_n_chain'[r] = [k \in 0 .. SYNC_STAGES - 1 |->
                 k = SYNC_STAGES - 1 \/ areset_n_chain[r][k + 1]]
      BY <2>1, <2>2, <2>6
    <3>3. AtLeast'
      <4>1. AtLeast' <=> \A r \in RESETS : \A k \in 0 .. SYNC_STAGES - 1 :
                            k + now >= SYNC_STAGES => areset_n_chain'[r][k]
        BY DEF AtLeast, now
      <4> SUFFICES ASSUME NEW r \in RESETS, NEW k \in 0 .. SYNC_STAGES - 1,
                          k + now >= SYNC_STAGES
                   PROVE  areset_n_chain'[r][k]
        BY <4>1
      <4>2. ASSUME k # SYNC_STAGES - 1
            PROVE  areset_n_chain[r][k + 1]
        <5>1. k + 1 \in 0 .. SYNC_STAGES - 1 /\ k + 1 + elapsed >= SYNC_STAGES
          BY <3>1, <4>2
        <5> QED
          BY <5>1 DEF SynchronizerInv, AtLeast
      <4> QED
        BY <3>2, <4>2
    <3>4. ASSUME NEW r \in RESETS, Exactly(r)
          PROVE  Exactly(r)'
      <4> SUFFICES ASSUME NEW k \in 0 .. SYNC_STAGES - 1, areset_n_chain'[r][k]
                   PROVE  k + now >= SYNC_STAGES
        BY DEF Exactly, now
      <4>1. CASE k = SYNC_STAGES - 1
        BY <3>1, <4>1
      <4>2. CASE k # SYNC_STAGES - 1
        <5>1. k + 1 \in 0 .. SYNC_STAGES - 1
          BY <3>1, <4>2
        <5>2. areset_n_chain[r][k + 1]
          BY <3>2, <4>2
        <5>3. k + 1 + elapsed >= SYNC_STAGES
          BY <3>4, <5>1, <5>2 DEF Exactly
        <5> QED
          BY <3>1, <5>3
      <4> QED
        BY <4>1, <4>2
    <3>5. Common'
      <4> SUFFICES ASSUME Synchronizer!Several, NEW k \in 0 .. SYNC_STAGES - 1
                   PROVE  chain'[k] <=> k + now >= 2 * SYNC_STAGES
        BY <1>3 DEF Common, now
      <4>1. Synchronizer!areset_n_q <=> elapsed >= SYNC_STAGES
        BY Full
      <4>2. CASE elapsed >= SYNC_STAGES
        <5>1. chain'[k] <=> (k = SYNC_STAGES - 1 \/ chain[k + 1])
          BY <2>1, <2>2, <4>1, <4>2
        <5>2. CASE k = SYNC_STAGES - 1
          BY <3>1, <4>2, <5>1, <5>2
        <5>3. CASE k # SYNC_STAGES - 1
          <6>1. k + 1 \in 0 .. SYNC_STAGES - 1
            BY <3>1, <5>3
          <6>2. chain[k + 1] <=> k + 1 + elapsed >= 2 * SYNC_STAGES
            BY <6>1 DEF SynchronizerInv, Common
          <6>3. (k + 1 + elapsed >= 2 * SYNC_STAGES) <=> (k + now >= 2 * SYNC_STAGES)
            BY <3>1
          <6> QED
            BY <5>1, <5>3, <6>2, <6>3
        <5> QED
          BY <5>2, <5>3
      <4>3. CASE ~(elapsed >= SYNC_STAGES)
        <5>1. ~chain'[k]
          BY <1>2, <2>1, <4>1, <4>3
        <5>2. ~(k + now >= 2 * SYNC_STAGES)
          BY <3>1, <4>3
        <5> QED
          BY <5>1, <5>2
      <4> QED
        BY <4>2, <4>3
    <3>6. \E r \in RESETS : Exactly(r)'
      BY <3>4 DEF SynchronizerInv
    <3> QED
      BY <1>3, <1>4, <2>3, <2>4, <3>3, <3>5, <3>6 DEF SynchronizerInv
  <2> QED
    BY <2>5, <2>6
<1>7. ASSUME NEW r \in RESETS, Synchronizer!Assert(r)
      PROVE  SynchronizerInv'
  <2>1. /\ resets_n' = [resets_n EXCEPT ![r] = FALSE]
        /\ areset_n_chain' = [areset_n_chain EXCEPT ![r] = Synchronizer!Cleared]
        /\ chain' = Synchronizer!Cleared
    BY <1>7 DEF Synchronizer!Assert
  <2>2. ~resets_n'[r] /\ elapsed' = 0
    BY <1>0, <1>1, <2>1
  <2>3. Synchronizer!TypeOK'
    BY <1>0, <1>2, <2>1 DEF Synchronizer!TypeOK, Synchronizer!Chains
  <2>4. Low'
    BY <1>0, <1>3, <2>1, <2>2 DEF Low
  <2> QED
    BY <1>5, <2>1, <2>2, <2>3, <2>4 DEF SomeLow
<1>8. ASSUME NEW r \in RESETS, Synchronizer!Release(r)
      PROVE  SynchronizerInv'
  <2>1. /\ ~resets_n[r]
        /\ resets_n' = [resets_n EXCEPT ![r] = TRUE]
        /\ areset_n_chain' = areset_n_chain
        /\ chain' = chain
    BY <1>8 DEF Synchronizer!Release
  <2>2. elapsed' = 0 /\ elapsed = 0
    BY <1>0, <1>1, <2>1 DEF Low
  <2>3. Synchronizer!TypeOK'
    BY <1>0, <2>1 DEF Synchronizer!TypeOK, Synchronizer!Chains
  <2>4. Low'
    BY <1>0, <1>3, <2>1, <2>2 DEF Low
  <2>5. AtLeast'
    BY <2>2 DEF AtLeast
  <2>6. Exactly(r)'
    BY <1>0, <1>2, <2>1 DEF Exactly, Low
  <2>7. Common'
    BY <1>3, <2>1, <2>2 DEF SynchronizerInv, Common
  <2> QED
    BY <1>3, <1>4, <2>3, <2>4, <2>5, <2>6, <2>7 DEF SynchronizerInv
<1> QED
  BY <1>6, <1>7, <1>8 DEF Synchronizer!MCNext, Synchronizer!Next

(***************************************************************************)
(* The reset is released exactly when all inputs have been high for all    *)
(* the stages, for any number of inputs and stages: a glitch on one input  *)
(* starts the count again for all.                                         *)
(***************************************************************************)
THEOREM ReleasedInTimeAlways == ClockingSpec => []ReleasedInTime
<1>1. ClockingInit => SynchronizerInv
  BY SynchronizerInitInv DEF ClockingInit
<1>2. SynchronizerInv /\ [ClockingNext]_<<block, pll, synchronizer, crossing>>
         => SynchronizerInv'
  <2> SUFFICES ASSUME SynchronizerInv,
                      SynchronizerNext \/ UNCHANGED synchronizer
               PROVE  SynchronizerInv'
    BY DEF ClockingNext, PllNext, CrossingNext
  <2>1. CASE SynchronizerNext
    BY <2>1, SynchronizerNextInv DEF SynchronizerNext
  <2>2. CASE UNCHANGED synchronizer
    <3>1. /\ Synchronizer!TypeOK' = Synchronizer!TypeOK
          /\ Low' = Low /\ AtLeast' = AtLeast /\ Common' = Common
          /\ \A r \in RESETS : Exactly(r)' = Exactly(r)
      BY <2>2 DEF synchronizer, Synchronizer!TypeOK, Low, AtLeast, Common,
         Exactly
    <3> QED
      BY <2>2, <3>1 DEF synchronizer, SynchronizerInv
  <2> QED
    BY <2>1, <2>2
<1>3. SynchronizerInv => ReleasedInTime
  BY Full
<1> QED
  BY <1>1, <1>2, <1>3, PTL DEF ClockingSpec

-----------------------------------------------------------------------------
\* The PLL service: how long its phases last.

(***************************************************************************)
(* What the counter of the timer says of the phase.  A period is set while *)
(* the timer can take it, so FSM_RELOAD is never needed.  During the reset *)
(* of the PLL the counter is at most one clock ahead of pll_reset; during  *)
(* the wait it is the number of clocks waited; the event comes when the    *)
(* counter has passed the period.                                          *)
(***************************************************************************)
Resetting ==
    /\ periodic = RESET_DURATION - 2
    /\ ~counter_event => counter <= RESET_DURATION - 2
    /\ counter_event => pll_reset /\ timer_tvalid
    /\ counter_event => resetClocks >= RESET_DURATION - 2
    /\ areset_n /\ pll_reset => resetClocks >= counter - 1
    /\ ~pll_reset => counter = 0

Waiting ==
    /\ periodic = WAIT_FOR_LOCK - 2
    /\ counter = waitClocks
    /\ IF counter_event THEN counter = WAIT_FOR_LOCK - 1
                        ELSE counter <= WAIT_FOR_LOCK - 2
    /\ pll_reset => resetClocks >= RESET_DURATION - 1

PhaseInv ==
    /\ TypeOK
    /\ resetClocks \in 0 .. RESET_DURATION + 1
    /\ waitClocks \in 0 .. WAIT_FOR_LOCK + 1
    /\ timer_state = "IDLE"
    /\ ~areset_n => fsm_state = "RESET" /\ counter = 0
    /\ ~areset_n => pll_reset /\ ~counter_event
    /\ fsm_state = "RESET" => Resetting
    /\ fsm_state # "RESET" => areset_n /\ timer_tvalid
    /\ fsm_state = "WAIT_FOR_LOCK" => Waiting
    /\ fsm_state \in {"LOCKED", "RESET_LOAD"} => ~pll_reset

\* The periods the service sets fit the counter.
LEMMA Loaded ==
    ASSUME NEW period \in {RESET_DURATION, WAIT_FOR_LOCK}
    PROVE  /\ Timer!Load(period) = period - 2
           /\ Timer!Load(period) \in Timer!Counts
BY PllAssumption DEF Timer!Load, Timer!PERIODIC_OFFSET, Timer!Counts

\* What the state machine puts on the port config of the timer.
LEMMA ConfigType ==
    /\ config_tdata \in {RESET_DURATION, WAIT_FOR_LOCK}
    /\ config_tdata \in Timer!Periods
BY PllAssumption DEF config_tdata, Timer!Periods, COUNTER_MAX

\* The service starts in the reset of the PLL, with its period loaded.
LEMMA PhaseInitInv == MCInit => PhaseInv
<1> SUFFICES ASSUME MCInit
             PROVE  PhaseInv
  OBVIOUS
<1> USE PllAssumption
<1>1. /\ Timer!Load(RESET_DURATION) = RESET_DURATION - 2
      /\ Timer!Load(RESET_DURATION) \in Timer!Counts
  BY Loaded
<1>2. 0 \in Timer!Counts
  BY DEF Timer!Counts
<1>3. TypeOK
  BY <1>1, <1>2, ConfigType
  DEF MCInit, Init, TypeOK, Timer!TypeOK, config_tvalid, timer_tready,
      timer_event
<1> QED
  BY <1>1, <1>3 DEF MCInit, Init, PhaseInv, Resetting

(***************************************************************************)
(* The registers of the timer when its port config cannot be stalled.      *)
(***************************************************************************)
LEMMA TimerClock ==
    ASSUME PhaseInv, Timer!ClockRegisters
    PROVE  /\ timer_state' = "IDLE"
           /\ counter' = IF timer_tvalid /\ timer_tready
                         THEN IF counter_event \/ config_tvalid
                              THEN 0 ELSE (counter + 1) % COUNTER_SIZE
                         ELSE counter
           /\ periodic' = IF config_tvalid THEN config_tdata - 2 ELSE periodic
           /\ counter_event' = IF timer_tready
                               THEN counter = periodic /\ ~config_tvalid
                               ELSE counter_event
           /\ timer_tvalid' = (timer_tready \/ timer_tvalid)
           /\ counter' \in Timer!Counts
           /\ periodic' \in Timer!Counts
<1>1. timer_state = "IDLE" /\ (config_tvalid => timer_tready)
  BY DEF PhaseInv, config_tvalid, timer_event, timer_tready
<1>2. timer_state' = "IDLE"
  BY <1>1 DEF Timer!ClockRegisters, Timer!FsmState
<1>3. /\ counter' = IF timer_tvalid /\ timer_tready
                    THEN IF counter_event \/ config_tvalid
                         THEN 0 ELSE (counter + 1) % COUNTER_SIZE
                    ELSE counter
      /\ counter_event' = IF timer_tready
                          THEN counter = periodic /\ ~config_tvalid
                          ELSE counter_event
      /\ timer_tvalid' = (timer_tready \/ timer_tvalid)
  BY <1>1 DEF Timer!ClockRegisters, Timer!Counter, Timer!Taken,
     Timer!counter_reload,
              Timer!CounterEvent, Timer!TxValid
<1>4. periodic' = IF config_tvalid THEN Timer!Load(config_tdata) ELSE periodic
  BY DEF Timer!ClockRegisters, Timer!Periodic
<1>5. /\ Timer!Load(config_tdata) = config_tdata - 2
      /\ Timer!Load(config_tdata) \in Timer!Counts
  BY ConfigType, Loaded
<1>6. /\ counter \in Timer!Counts /\ periodic \in Timer!Counts
      /\ counter_event \in BOOLEAN /\ timer_tvalid \in BOOLEAN
  BY DEF PhaseInv, TypeOK, Timer!TypeOK
<1>7. \A n \in Timer!Counts : (n + 1) % COUNTER_SIZE \in Timer!Counts
  BY PllAssumption DEF Timer!Counts
<1>8. 0 \in Timer!Counts
  BY PllAssumption DEF Timer!Counts
<1> QED
  BY <1>2, <1>3, <1>4, <1>5, <1>6, <1>7, <1>8

(***************************************************************************)
(* The type invariant, in parts: the state machine and the filter hold     *)
(* what their assignments allow, and the ports of the timer what the state *)
(* machine puts there.                                                     *)
(***************************************************************************)
Types ==
    /\ areset_n \in BOOLEAN
    /\ pll_locked \in BOOLEAN
    /\ fsm_state \in {"RESET", "WAIT_FOR_LOCK", "LOCKED", "RESET_LOAD"}
    /\ pll_locked_q \in [Stages -> BOOLEAN]
    /\ pll_locked_stable \in BOOLEAN
    /\ pll_locked_filtered \in BOOLEAN
    /\ pll_reset \in BOOLEAN
    /\ locked \in BOOLEAN
    /\ timer_state \in {"IDLE", "RELOAD"}
    /\ counter \in Timer!Counts
    /\ periodic \in Timer!Counts
    /\ counter_event \in BOOLEAN
    /\ timer_tvalid \in BOOLEAN

\* The types of the service are those of its registers and of its parts.
LEMMA PllType == TypeOK <=> Types
<1>1. /\ timer_tready \in BOOLEAN
      /\ timer_event \in BOOLEAN
      /\ config_tvalid \in BOOLEAN
  BY DEF timer_tready, timer_event, config_tvalid
<1>2. Timer!TypeOK <=> /\ areset_n \in BOOLEAN
                       /\ timer_state \in {"IDLE", "RELOAD"}
                       /\ counter \in Timer!Counts
                       /\ periodic \in Timer!Counts
                       /\ counter_event \in BOOLEAN
                       /\ timer_tvalid \in BOOLEAN
  BY <1>1, ConfigType DEF Timer!TypeOK
<1> QED
  BY <1>2, Zenon DEF TypeOK, Types

\* The registers keep their types.
LEMMA PllTypeNext ==
    ASSUME PhaseInv, Next
    PROVE  TypeOK'
<1> USE PllAssumption
<1>1. TypeOK' <=> Types'
  BY PllType, PTL
<1>2. /\ areset_n \in BOOLEAN
      /\ fsm_state \in {"RESET", "WAIT_FOR_LOCK", "LOCKED", "RESET_LOAD"}
      /\ pll_locked_q \in [Stages -> BOOLEAN]
      /\ counter_event \in BOOLEAN
      /\ timer_tvalid \in BOOLEAN
  BY PllType DEF PhaseInv, Types
<1>3. CASE Clock
  <2>1. /\ counter' \in Timer!Counts
        /\ periodic' \in Timer!Counts
        /\ timer_state' = "IDLE"
        /\ counter_event' \in BOOLEAN
        /\ timer_tvalid' \in BOOLEAN
    BY <1>2, <1>3, TimerClock DEF Clock, timer_tready
  <2>2. fsm_state' \in {"RESET", "WAIT_FOR_LOCK", "LOCKED", "RESET_LOAD"}
    BY <1>2, <1>3 DEF Clock, FsmState
  <2>3. pll_locked_q' \in [Stages -> BOOLEAN]
    BY <1>2, <1>3, PllType DEF PhaseInv, Types, Clock, Filter, Stages
  <2>4. pll_locked_stable' \in BOOLEAN /\ pll_locked_filtered' \in BOOLEAN
    BY <1>3 DEF Clock, Filter
  <2>5. pll_reset' \in BOOLEAN /\ locked' \in BOOLEAN
    BY <1>3 DEF Clock, Outputs
  <2>6. pll_locked' \in BOOLEAN /\ areset_n' \in BOOLEAN
    BY <1>2, <1>3 DEF Clock
  <2> QED
    BY <1>1, <2>1, <2>2, <2>3, <2>4, <2>5, <2>6 DEF Types
<1>4. CASE Reset
  <2>1. Timer!Load(RESET_DURATION) \in Timer!Counts /\ 0 \in Timer!Counts
    BY Loaded DEF Timer!Counts
  <2> QED
    BY <1>1, <1>4, <2>1 DEF Types, Reset, Timer!ResetRegisters, Stages
<1>5. CASE Release
  BY <1>1, <1>5, PllType DEF PhaseInv, Types, Release, unitRegisters,
     timerRegisters
<1> QED
  BY <1>3, <1>4, <1>5 DEF Next

(***************************************************************************)
(* One case for each phase: during it the counter and the history count    *)
(* together, and its last clock sets up the next one.                      *)
(***************************************************************************)
LEMMA PhaseNextInv ==
    ASSUME PhaseInv, MCNext
    PROVE  PhaseInv'
<1> USE PllAssumption
<1>1. TypeOK'
  BY PllTypeNext DEF PhaseInv, MCNext
<1>2. /\ areset_n \in BOOLEAN /\ pll_reset \in BOOLEAN
      /\ counter_event \in BOOLEAN /\ timer_tvalid \in BOOLEAN
      /\ fsm_state \in {"RESET", "WAIT_FOR_LOCK", "LOCKED", "RESET_LOAD"}
      /\ counter \in 0 .. COUNTER_SIZE - 1
      /\ resetClocks \in 0 .. RESET_DURATION + 1
      /\ waitClocks \in 0 .. WAIT_FOR_LOCK + 1
  BY PllType DEF PhaseInv, Types, Timer!Counts
<1>3. /\ resetClocks' = IF areset_n /\ pll_reset
                        THEN Saturated(resetClocks, RESET_DURATION + 1) ELSE 0
      /\ waitClocks' = IF areset_n /\ fsm_state = "WAIT_FOR_LOCK"
                       THEN Saturated(waitClocks, WAIT_FOR_LOCK + 1) ELSE 0
  BY DEF MCNext, Record
<1>4. /\ resetClocks' \in 0 .. RESET_DURATION + 1
      /\ waitClocks' \in 0 .. WAIT_FOR_LOCK + 1
  BY <1>2, <1>3 DEF Saturated
<1>5. CASE Clock
  <2>1. /\ timer_state' = "IDLE"
        /\ counter' = IF timer_tvalid /\ timer_tready
                      THEN IF counter_event \/ config_tvalid
                           THEN 0 ELSE (counter + 1) % COUNTER_SIZE
                      ELSE counter
        /\ periodic' = IF config_tvalid THEN config_tdata - 2 ELSE periodic
        /\ counter_event' = IF timer_tready
                            THEN counter = periodic /\ ~config_tvalid
                            ELSE counter_event
        /\ timer_tvalid' = (timer_tready \/ timer_tvalid)
    BY <1>5, TimerClock DEF Clock
  <2>2. areset_n /\ areset_n' /\ pll_reset' = (fsm_state = "RESET")
    BY <1>5 DEF Clock, Outputs
  <2>3. FsmState
    BY <1>5 DEF Clock
  <2>4. CASE fsm_state = "RESET" /\ ~timer_event
    <3>1. fsm_state' = "RESET" /\ timer_tready /\ ~config_tvalid /\ ~counter_event
      BY <2>3, <2>4
      DEF FsmState, timer_tready, config_tvalid, timer_event, PhaseInv,
          Resetting
    <3>2. pll_reset' /\ timer_tvalid'
      BY <2>1, <2>2, <2>4, <3>1
    <3>3. counter <= RESET_DURATION - 2 /\ periodic = RESET_DURATION - 2
      BY <2>4, <3>1 DEF PhaseInv, Resetting
    <3>4. counter' = IF timer_tvalid THEN counter + 1 ELSE counter
      <4>1. (counter + 1) % COUNTER_SIZE = counter + 1
        BY <1>2, <3>3
      <4> QED
        BY <2>1, <3>1, <4>1
    <3>5. periodic' = RESET_DURATION - 2
      BY <2>1, <3>1, <3>3
    <3>6. counter_event' <=> counter = RESET_DURATION - 2
      BY <2>1, <3>1, <3>3
    <3>7. IF pll_reset THEN resetClocks' >= counter ELSE resetClocks' = 0 /\ counter = 0
      <4>1. CASE pll_reset
        <5>1. resetClocks >= counter - 1
          BY <2>2, <2>4, <4>1 DEF PhaseInv, Resetting
        <5> QED
          BY <1>2, <1>3, <2>2, <3>3, <4>1, <5>1 DEF Saturated
      <4>2. CASE ~pll_reset
        BY <1>3, <2>4, <4>2 DEF PhaseInv, Resetting
      <4> QED
        BY <4>1, <4>2
    <3>8. Resetting'
      <4>1. ~counter_event' => counter' <= RESET_DURATION - 2
        BY <1>2, <3>3, <3>4, <3>6
      <4>2. counter_event' => resetClocks' >= RESET_DURATION - 2
        BY <1>2, <1>4, <3>6, <3>7
      <4>3. resetClocks' >= counter' - 1
        BY <1>2, <1>4, <3>4, <3>7
      <4> QED
        BY <3>2, <3>5, <4>1, <4>2, <4>3 DEF Resetting
    <3> QED
      BY <1>1, <1>4, <2>1, <2>2, <3>1, <3>8 DEF PhaseInv
  <2>5. CASE fsm_state = "RESET" /\ timer_event
    <3>1. /\ fsm_state' = "WAIT_FOR_LOCK"
          /\ timer_tready /\ config_tvalid /\ counter_event /\ timer_tvalid
          /\ config_tdata = WAIT_FOR_LOCK
      BY <2>3, <2>5 DEF FsmState, timer_event, config_tvalid, timer_tready,
         config_tdata
    <3>2. /\ counter' = 0 /\ periodic' = WAIT_FOR_LOCK - 2
          /\ ~counter_event' /\ timer_tvalid'
      BY <2>1, <3>1
    <3>3. waitClocks' = 0
      BY <1>3, <2>5
    <3>4. pll_reset /\ resetClocks >= RESET_DURATION - 2
      BY <2>5, <3>1 DEF PhaseInv, Resetting
    <3>5. resetClocks' >= RESET_DURATION - 1
      BY <1>2, <1>3, <2>2, <3>4 DEF Saturated
    <3>6. Waiting'
      BY <3>2, <3>3, <3>5 DEF Waiting
    <3> QED
      BY <1>1, <1>4, <2>1, <2>2, <3>1, <3>2, <3>6 DEF PhaseInv
  <2>6. CASE fsm_state = "WAIT_FOR_LOCK"
    <3>1. timer_tready /\ timer_tvalid /\ ~config_tvalid /\ ~pll_reset'
      BY <2>2, <2>6 DEF timer_tready, config_tvalid, PhaseInv
    <3>2. timer_tvalid'
      BY <2>1, <3>1
    <3>3. CASE fsm_state' = "WAIT_FOR_LOCK"
      <4>1. ~counter_event
        BY <2>3, <2>6, <3>1, <3>3, PllType
        DEF FsmState, timer_event, PhaseInv, Types
      <4>2. /\ periodic = WAIT_FOR_LOCK - 2 /\ counter = waitClocks
            /\ counter <= WAIT_FOR_LOCK - 2
        BY <2>6, <4>1 DEF PhaseInv, Waiting
      <4>3. counter' = counter + 1
        <5>1. (counter + 1) % COUNTER_SIZE = counter + 1
          BY <1>2, <4>2
        <5> QED
          BY <2>1, <3>1, <4>1, <5>1
      <4>4. waitClocks' = counter + 1
        BY <1>2, <1>3, <2>2, <2>6, <4>2 DEF Saturated
      <4>5. counter_event' <=> counter = WAIT_FOR_LOCK - 2
        BY <2>1, <3>1, <4>2
      <4>6. IF counter_event' THEN counter' = WAIT_FOR_LOCK - 1
                              ELSE counter' <= WAIT_FOR_LOCK - 2
        BY <1>2, <4>2, <4>3, <4>5
      <4>7. Waiting'
        BY <2>1, <3>1, <4>2, <4>3, <4>4, <4>6 DEF Waiting
      <4> QED
        BY <1>1, <1>4, <2>1, <2>2, <3>2, <3>3, <4>7 DEF PhaseInv
    <3>4. CASE fsm_state' # "WAIT_FOR_LOCK"
      <4>1. fsm_state' \in {"LOCKED", "RESET_LOAD"}
        BY <2>3, <2>6, <3>4 DEF FsmState
      <4> QED
        BY <1>1, <1>4, <2>1, <2>2, <3>1, <3>2, <4>1 DEF PhaseInv
    <3> QED
      BY <3>3, <3>4
  <2>7. CASE fsm_state = "LOCKED"
    <3>1. fsm_state' \in {"LOCKED", "RESET_LOAD"}
      BY <2>3, <2>7 DEF FsmState
    <3>2. ~pll_reset' /\ timer_tvalid'
      BY <2>1, <2>2, <2>7 DEF PhaseInv
    <3> QED
      BY <1>1, <1>4, <2>1, <2>2, <3>1, <3>2 DEF PhaseInv
  <2>8. CASE fsm_state = "RESET_LOAD"
    <3>1. /\ fsm_state' = "RESET" /\ timer_tready /\ timer_tvalid /\ config_tvalid
          /\ config_tdata = RESET_DURATION /\ ~pll_reset'
      BY <2>2, <2>3, <2>8
      DEF FsmState, timer_tready, config_tvalid, config_tdata, PhaseInv
    <3>2. counter' = 0 /\ periodic' = RESET_DURATION - 2 /\ ~counter_event'
      BY <2>1, <3>1
    <3>3. Resetting'
      BY <3>1, <3>2 DEF Resetting
    <3> QED
      BY <1>1, <1>4, <2>1, <2>2, <3>1, <3>3 DEF PhaseInv
  <2> QED
    BY <1>2, <2>4, <2>5, <2>6, <2>7, <2>8
<1>6. CASE Reset
  <2>1. /\ ~areset_n' /\ fsm_state' = "RESET" /\ pll_reset'
        /\ timer_state' = "IDLE" /\ counter' = 0 /\ ~counter_event'
        /\ periodic' = RESET_DURATION - 2
    BY <1>6, Loaded DEF Reset, Timer!ResetRegisters
  <2>2. Resetting'
    BY <2>1 DEF Resetting
  <2> QED
    BY <1>1, <1>4, <2>1, <2>2 DEF PhaseInv
<1>7. CASE Release
  <2>1. /\ ~areset_n /\ areset_n'
        /\ fsm_state' = fsm_state /\ pll_reset' = pll_reset
        /\ timer_state' = timer_state /\ counter' = counter
        /\ counter_event' = counter_event /\ periodic' = periodic
        /\ timer_tvalid' = timer_tvalid
    BY <1>7 DEF Release, unitRegisters, timerRegisters
  <2>2. fsm_state = "RESET" /\ counter = 0 /\ pll_reset /\ Resetting
    BY <2>1 DEF PhaseInv
  <2>3. resetClocks' = 0
    BY <1>3, <2>1
  <2>4. Resetting'
    <3>1. ~counter_event
      BY <2>1 DEF PhaseInv
    <3> QED
      BY <2>1, <2>2, <2>3, <3>1 DEF Resetting
  <2> QED
    BY <1>1, <1>4, <2>1, <2>2, <2>4 DEF PhaseInv
<1> QED
  BY <1>5, <1>6, <1>7 DEF MCNext, Next

-----------------------------------------------------------------------------
\* The PLL service: what `locked' is decided on.

(***************************************************************************)
(* The filter holds the samples, the oldest at the bottom; what it says of *)
(* them is one clock old when the state machine looks at it, and two when  *)
(* `locked' follows.                                                       *)
(***************************************************************************)
Sampled == \A k \in Stages : pll_locked_q[k] <=> samples[PLL_LOCKED_STAGES - k]

Judged ==
    /\ pll_locked_stable <=> \A k \in 2 .. PLL_LOCKED_STAGES + 1 : samples[k]
    /\ pll_locked_filtered <=> \E k \in 2 .. PLL_LOCKED_STAGES + 1 : samples[k]

FilterInv ==
    /\ locked \in BOOLEAN
    /\ samples \in [Recent -> BOOLEAN]
    /\ areset_n => Sampled /\ Judged
    /\ ~areset_n => /\ fsm_state = "RESET" /\ ~locked
                    /\ ~pll_locked_stable /\ ~pll_locked_filtered
                    /\ \A k \in Stages : ~pll_locked_q[k]
    /\ fsm_state = "LOCKED" /\ ~locked => \A k \in Window : samples[k]
    /\ fsm_state # "LOCKED" /\ locked => \A k \in Window : ~samples[k]

\* Nothing was sampled yet.
LEMMA FilterInitInv == MCInit => FilterInv
BY DEF MCInit, Init, FilterInv

(***************************************************************************)
(* The samples and the filter shift together, so that what `locked' is     *)
(* decided on stays in the window of the history.                          *)
(***************************************************************************)
LEMMA FilterNextInv ==
    ASSUME FilterInv, MCNext
    PROVE  FilterInv'
<1> DEFINE N == PLL_LOCKED_STAGES
<1>1. N \in Nat /\ N >= 2
  BY PllAssumption
<1>2. \A k \in Recent : samples'[k] <=>
          areset_n /\ (IF k = 1 THEN pll_locked ELSE samples[k - 1])
  BY DEF MCNext, Record
<1>3. samples' \in [Recent -> BOOLEAN]
  BY DEF MCNext, Record
<1> HIDE DEF N
<1>4. CASE Clock
  <2>1. /\ areset_n /\ areset_n' /\ pll_locked' \in BOOLEAN
        /\ \A k \in Stages : pll_locked_q'[k] <=>
              IF k = N - 1 THEN pll_locked ELSE pll_locked_q[k + 1]
        /\ pll_locked_stable' <=> \A k \in Stages : pll_locked_q[k]
        /\ pll_locked_filtered' <=> \E k \in Stages : pll_locked_q[k]
        /\ locked' \in BOOLEAN
        /\ locked' <=> fsm_state = "LOCKED"
        /\ FsmState
    BY <1>4 DEF Clock, Filter, Outputs, N
  <2>2. Stages = 0 .. N - 1 /\ Recent = 1 .. N + 2 /\ Window = 3 .. N + 2
    BY DEF Stages, Recent, Window, N
  <2>3. Sampled /\ Judged
    BY <2>1 DEF FilterInv
  <2>5. Sampled'
    <3> SUFFICES ASSUME NEW k \in 0 .. N - 1
                 PROVE  pll_locked_q'[k] <=> samples'[N - k]
      BY <2>2 DEF Sampled, N
    <3>1. N - k \in 1 .. N + 2
      BY <1>1
    <3>2. CASE k = N - 1
      BY <1>1, <1>2, <2>1, <2>2, <3>1, <3>2
    <3>3. CASE k # N - 1
      <4>1. k + 1 \in 0 .. N - 1 /\ N - k # 1 /\ N - (k + 1) = N - k - 1
        BY <1>1, <3>3
      <4>2. pll_locked_q[k + 1] <=> samples[N - k - 1]
        <5>1. pll_locked_q[k + 1] <=> samples[N - (k + 1)]
          BY <2>2, <2>3, <4>1 DEF Sampled, N
        <5> QED
          BY <4>1, <5>1
      <4> QED
        BY <1>2, <2>1, <2>2, <3>1, <3>3, <4>1, <4>2
    <3> QED
      BY <3>2, <3>3
  <2>6. \A k \in 2 .. N + 2 : samples'[k] <=> samples[k - 1]
    BY <1>1, <1>2, <2>1, <2>2
  <2>7. /\ pll_locked_stable' <=> \A k \in 2 .. N + 1 : samples'[k]
        /\ pll_locked_filtered' <=> \E k \in 2 .. N + 1 : samples'[k]
    <3>1. ASSUME NEW k \in 2 .. N + 1
          PROVE  /\ N - (k - 1) \in 0 .. N - 1
                 /\ samples'[k] <=> pll_locked_q[N - (k - 1)]
      <4>1. /\ N - (k - 1) \in 0 .. N - 1 /\ N - (N - (k - 1)) = k - 1
            /\ k \in 2 .. N + 2
        BY <1>1
      <4>2. pll_locked_q[N - (k - 1)] <=> samples[N - (N - (k - 1))]
        BY <2>2, <2>3, <4>1 DEF Sampled, N
      <4>3. pll_locked_q[N - (k - 1)] <=> samples[k - 1]
        BY <4>1, <4>2
      <4> QED
        BY <2>6, <4>1, <4>3
    <3>2. ASSUME NEW k \in 0 .. N - 1
          PROVE  /\ N - k + 1 \in 2 .. N + 1
                 /\ N - ((N - k + 1) - 1) = k
      BY <1>1
    <3>3. ASSUME NEW k \in 0 .. N - 1
          PROVE  samples'[N - k + 1] <=> pll_locked_q[k]
      <4>1. samples'[N - k + 1] <=> pll_locked_q[N - ((N - k + 1) - 1)]
        BY <3>1, <3>2
      <4> QED
        BY <3>2, <4>1
    <3> QED
      BY <2>1, <2>2, <3>1, <3>2, <3>3
  <2>8. Judged'
    BY <2>7 DEF Judged, N
  <2>9. ASSUME fsm_state' = "LOCKED", ~locked'
        PROVE  \A k \in Window : samples'[k]
    <3>1. pll_locked_stable
      BY <2>1, <2>9 DEF FsmState
    <3> SUFFICES ASSUME NEW k \in 3 .. N + 2
                 PROVE  samples'[k]
      BY <2>2
    <3>2. k \in 2 .. N + 2 /\ k - 1 \in 2 .. N + 1
      BY <1>1
    <3>3. samples[k - 1]
      BY <2>3, <3>1, <3>2 DEF Judged, N
    <3> QED
      BY <2>6, <3>2, <3>3
  <2>10. ASSUME fsm_state' # "LOCKED", locked'
         PROVE  \A k \in Window : ~samples'[k]
    <3>1. ~pll_locked_filtered
      BY <2>1, <2>10 DEF FsmState
    <3> SUFFICES ASSUME NEW k \in 3 .. N + 2
                 PROVE  ~samples'[k]
      BY <2>2
    <3>2. k \in 2 .. N + 2 /\ k - 1 \in 2 .. N + 1
      BY <1>1
    <3>3. ~samples[k - 1]
      BY <2>3, <3>1, <3>2 DEF Judged, N
    <3> QED
      BY <2>6, <3>2, <3>3
  <2> QED
    BY <1>3, <2>1, <2>5, <2>8, <2>9, <2>10 DEF FilterInv
<1>5. CASE Reset
  BY <1>5, <1>3 DEF Reset, FilterInv
<1>6. CASE Release
  <2>1. /\ ~areset_n /\ areset_n' /\ fsm_state' = "RESET" /\ ~locked'
        /\ ~pll_locked_stable' /\ ~pll_locked_filtered'
        /\ \A k \in Stages : ~pll_locked_q'[k]
        /\ locked' \in BOOLEAN
    BY <1>6 DEF Release, unitRegisters, FilterInv
  <2>2. \A k \in 1 .. N + 2 : ~samples'[k]
    BY <1>2, <2>1 DEF Recent, N
  <2>3. /\ 2 \in 2 .. N + 1
        /\ \A k \in 2 .. N + 1 : k \in 1 .. N + 2
        /\ \A k \in 0 .. N - 1 : N - k \in 1 .. N + 2
    BY <1>1
  <2>4. Sampled'
    BY <2>1, <2>2, <2>3 DEF Sampled, Stages, N
  <2>5. Judged'
    BY <2>1, <2>2, <2>3 DEF Judged, N
  <2> QED
    BY <1>3, <2>1, <2>4, <2>5 DEF FilterInv
<1> QED
  BY <1>4, <1>5, <1>6 DEF MCNext, Next

-----------------------------------------------------------------------------
\* The properties of the run.

(***************************************************************************)
(* Only steps of the PLL service change its variables.                     *)
(***************************************************************************)
LEMMA PllStep ==
    ASSUME [ClockingNext]_<<block, pll, synchronizer, crossing>>
    PROVE  MCNext \/ UNCHANGED <<vars, history>>
BY DEF ClockingNext, PllNext, SynchronizerNext, CrossingNext, pll

\* Both invariants hold whatever the other blocks do.
LEMMA PllInvariance == ClockingSpec => [](PhaseInv /\ FilterInv)
<1>1. ClockingInit => PhaseInv /\ FilterInv
  BY PhaseInitInv, FilterInitInv DEF ClockingInit
<1>2. PhaseInv /\ FilterInv /\ [ClockingNext]_<<block, pll, synchronizer, crossing>>
         => PhaseInv' /\ FilterInv'
  <2> SUFFICES ASSUME PhaseInv, FilterInv, MCNext \/ UNCHANGED <<vars, history>>
               PROVE  PhaseInv' /\ FilterInv'
    BY PllStep
  <2>1. CASE MCNext
    BY <2>1, PhaseNextInv, FilterNextInv
  <2>2. CASE UNCHANGED <<vars, history>>
    <3>1. TypeOK' <=> TypeOK
      <4>1. TypeOK' <=> Types'
        BY PllType, PTL
      <4> QED
        BY <2>2, <4>1, PllType DEF vars, unitRegisters, timerRegisters, Types
    <3> QED
      BY <2>2, <3>1
      DEF vars, history, unitRegisters, timerRegisters, PhaseInv, Resetting,
          Waiting,
          FilterInv, Sampled, Judged
  <2> QED
    BY <2>1, <2>2
<1> QED
  BY <1>1, <1>2, PTL DEF ClockingSpec

(***************************************************************************)
(* No reset of the PLL is shorter than RESET_DURATION, whether it follows  *)
(* a reset of the service, a timeout or a lost lock.                       *)
(***************************************************************************)
THEOREM ResetAlwaysLasts == ClockingSpec => ResetLasts
<1>1. PhaseInv /\ [ClockingNext]_<<block, pll, synchronizer, crossing>>
         => [areset_n /\ pll_reset /\ ~pll_reset'
                => resetClocks + 1 >= RESET_DURATION]_vars
  <2> SUFFICES ASSUME PhaseInv, MCNext, pll_reset, ~pll_reset'
               PROVE  resetClocks + 1 >= RESET_DURATION
    BY PllStep
  <2>1. Clock
    BY DEF MCNext, Next, Reset, Release, unitRegisters
  <2>2. fsm_state # "RESET"
    BY <2>1 DEF Clock, Outputs
  <2>3. resetClocks >= RESET_DURATION - 1
    BY <2>2, PllType DEF PhaseInv, Types, Waiting
  <2> QED
    BY <2>3, PllAssumption DEF PhaseInv
<1> QED
  BY <1>1, PllInvariance, PTL DEF ClockingSpec, ResetLasts

(***************************************************************************)
(* The wait for the lock ends after WAIT_FOR_LOCK clocks, never one        *)
(* earlier or later, whatever the timer was doing when it began.           *)
(***************************************************************************)
THEOREM TimeoutAlwaysExact == ClockingSpec => TimeoutExact
<1>1. PhaseInv /\ [ClockingNext]_<<block, pll, synchronizer, crossing>>
         => [fsm_state = "WAIT_FOR_LOCK" /\ fsm_state' = "RESET_LOAD"
                => waitClocks + 1 = WAIT_FOR_LOCK]_vars
  <2> SUFFICES ASSUME PhaseInv, MCNext, fsm_state = "WAIT_FOR_LOCK",
                      fsm_state' = "RESET_LOAD"
               PROVE  waitClocks + 1 = WAIT_FOR_LOCK
    BY PllStep
  <2>1. Clock
    BY DEF MCNext, Next, Reset, Release, unitRegisters
  <2>2. counter_event
    BY <2>1 DEF Clock, FsmState, timer_event
  <2>3. waitClocks = WAIT_FOR_LOCK - 1
    BY <2>2 DEF PhaseInv, Waiting
  <2> QED
    BY <2>3, PllAssumption
<1> QED
  BY <1>1, PllInvariance, PTL DEF ClockingSpec, TimeoutExact

(***************************************************************************)
(* `locked' rises on PLL_LOCKED_STAGES high samples and falls on as many   *)
(* low ones, without one of the other kind among them.                     *)
(***************************************************************************)
THEOREM AlwaysFiltered == ClockingSpec => Filtered
<1>1. FilterInv /\ [ClockingNext]_<<block, pll, synchronizer, crossing>>
         => [areset_n' =>
               /\ ~locked /\ locked' => \A k \in Window : samples[k]
               /\ locked /\ ~locked' => \A k \in Window : ~samples[k]]_vars
  <2> SUFFICES ASSUME FilterInv, MCNext, areset_n', locked' # locked
               PROVE  /\ ~locked /\ locked' => \A k \in Window : samples[k]
                      /\ locked /\ ~locked' => \A k \in Window : ~samples[k]
    BY PllStep
  <2>1. Clock
    BY DEF MCNext, Next, Reset, Release, unitRegisters
  <2> QED
    BY <2>1 DEF Clock, Outputs, FilterInv
<1> QED
  BY <1>1, PllInvariance, PTL DEF ClockingSpec, Filtered

-----------------------------------------------------------------------------
\* The crossing under resets.

CrossingProof == INSTANCE ClockDomainCrossingProof
    WITH areset_n <- crossing_areset_n, fsm_state <- crossing_fsm_state

(***************************************************************************)
(* MCClocking and the proofs each have an instance of the crossing; they   *)
(* are the same, operator by operator.                                     *)
(***************************************************************************)
LEMMA SameNext ==
    ASSUME Crossing!Next \/ UNCHANGED crossing
    PROVE  [CrossingProof!Next]_(CrossingProof!vars)
<1>1. /\ Crossing!Addresses = CrossingProof!Addresses
      /\ Crossing!DEPTH = CrossingProof!DEPTH
      /\ Crossing!Positions = CrossingProof!Positions
      /\ Crossing!Cleared = CrossingProof!Cleared
      /\ \A q : Crossing!Shifted(q) = CrossingProof!Shifted(q)
      /\ \A q : Crossing!Synced(q) = CrossingProof!Synced(q)
  BY DEF Crossing!Addresses, CrossingProof!Addresses, Crossing!DEPTH,
     CrossingProof!DEPTH, Crossing!Positions, CrossingProof!Positions,
     Crossing!Cleared, CrossingProof!Cleared, Crossing!Shifted,
     CrossingProof!Shifted, Crossing!Synced, CrossingProof!Synced
<1>2. /\ \A n : Crossing!Bits(n) = CrossingProof!Bits(n)
      /\ \A n : Crossing!BinaryToGray(n) = CrossingProof!BinaryToGray(n)
      /\ \A n : Crossing!GrayToBinary(n) = CrossingProof!GrayToBinary(n)
  <2>1. \A n : Crossing!Bits(n) = CrossingProof!Bits(n)
    BY DEF Crossing!Bits, CrossingProof!Bits, Crossing!Positions,
       CrossingProof!Positions
  <2>2. \A n : Crossing!BinaryToGray(n) = CrossingProof!BinaryToGray(n)
    BY DEF Crossing!BinaryToGray, CrossingProof!BinaryToGray,
       Crossing!Positions, CrossingProof!Positions
  <2>3. \A n : Crossing!GrayToBinary(n) = CrossingProof!GrayToBinary(n)
    BY DEF Crossing!GrayToBinary, CrossingProof!GrayToBinary,
       Crossing!Positions, CrossingProof!Positions, Crossing!Cardinality,
       CrossingProof!Cardinality
  <2> QED
    BY <2>1, <2>2, <2>3
<1>3. /\ Crossing!GrayOf = CrossingProof!GrayOf
      /\ Crossing!PointerOf = CrossingProof!PointerOf
  BY <1>1, <1>2 DEF Crossing!GrayOf, CrossingProof!GrayOf,
     Crossing!PointerOf, CrossingProof!PointerOf
<1>4. /\ \A n : Crossing!NextPointer(n) = CrossingProof!NextPointer(n)
      /\ \A n, m : Crossing!Difference(n, m) = CrossingProof!Difference(n, m)
      /\ \A n, m : Crossing!Mixtures(n, m) = CrossingProof!Mixtures(n, m)
  BY <1>1 DEF Crossing!NextPointer, CrossingProof!NextPointer,
     Crossing!Difference, CrossingProof!Difference, Crossing!Mixtures,
     CrossingProof!Mixtures
<1>5. /\ Crossing!rx_areset_n <=> CrossingProof!rx_areset_n
      /\ Crossing!tx_areset_n <=> CrossingProof!tx_areset_n
      /\ Crossing!write_enable <=> CrossingProof!write_enable
      /\ Crossing!read_enable <=> CrossingProof!read_enable
      /\ Crossing!empty <=> CrossingProof!empty
      /\ Crossing!almost_full <=> CrossingProof!almost_full
  BY <1>1 DEF Crossing!rx_areset_n, CrossingProof!rx_areset_n,
     Crossing!tx_areset_n, CrossingProof!tx_areset_n, Crossing!write_enable,
     CrossingProof!write_enable, Crossing!read_enable,
     CrossingProof!read_enable, Crossing!empty, CrossingProof!empty,
     Crossing!almost_full, CrossingProof!almost_full, Crossing!ALMOST_FULL,
     CrossingProof!ALMOST_FULL
<1>6. Crossing!WriteEdge => CrossingProof!WriteEdge
  BY <1>1, <1>3, <1>4, <1>5 DEF Crossing!WriteEdge, CrossingProof!WriteEdge,
     Crossing!WriteService, CrossingProof!WriteService, Crossing!WriteSync,
     CrossingProof!WriteSync, Crossing!MemoryWrite, CrossingProof!MemoryWrite,
     Crossing!RxDrive, CrossingProof!RxDrive, Crossing!rxRegisters,
     CrossingProof!rxRegisters, Crossing!rxInputs, CrossingProof!rxInputs
<1>7. Crossing!ReadEdge => CrossingProof!ReadEdge
  BY <1>1, <1>3, <1>4, <1>5 DEF Crossing!ReadEdge, CrossingProof!ReadEdge,
     Crossing!ReadService, CrossingProof!ReadService, Crossing!ReadSync,
     CrossingProof!ReadSync, Crossing!MemoryRead, CrossingProof!MemoryRead,
     Crossing!TxData, CrossingProof!TxData, Crossing!FsmState,
     CrossingProof!FsmState, Crossing!txRegisters, CrossingProof!txRegisters,
     Crossing!ALMOST_EMPTY, CrossingProof!ALMOST_EMPTY
<1>8. CASE Crossing!WriteClock
  BY <1>5, <1>6, <1>8 DEF Crossing!Next, CrossingProof!Next,
     Crossing!WriteClock, CrossingProof!WriteClock, Crossing!SampleReadPointer,
     CrossingProof!SampleReadPointer, Crossing!txRegisters,
     CrossingProof!txRegisters
<1>9. CASE Crossing!ReadClock
  BY <1>5, <1>7, <1>9 DEF Crossing!Next, CrossingProof!Next,
     Crossing!ReadClock, CrossingProof!ReadClock, Crossing!SampleWritePointer,
     CrossingProof!SampleWritePointer, Crossing!rxRegisters,
     CrossingProof!rxRegisters, Crossing!rxInputs, CrossingProof!rxInputs
<1>10. CASE Crossing!BothClocks
  BY <1>4, <1>5, <1>6, <1>7, <1>10 DEF Crossing!Next, CrossingProof!Next,
     Crossing!BothClocks, CrossingProof!BothClocks,
     Crossing!SampleWritePointer, CrossingProof!SampleWritePointer,
     Crossing!SampleReadPointer, CrossingProof!SampleReadPointer
<1>11. CASE Crossing!Reset
  BY <1>1, <1>11 DEF Crossing!Next, CrossingProof!Next, Crossing!Reset,
     CrossingProof!Reset
<1>12. CASE Crossing!Release
  BY <1>12 DEF Crossing!Next, CrossingProof!Next, Crossing!Release,
     CrossingProof!Release, Crossing!rxRegisters, CrossingProof!rxRegisters,
     Crossing!rxInputs, CrossingProof!rxInputs, Crossing!txRegisters,
     CrossingProof!txRegisters
<1>13. CASE UNCHANGED crossing
  BY <1>13 DEF crossing, CrossingProof!vars, CrossingProof!rxInputs,
     CrossingProof!rxRegisters, CrossingProof!txRegisters
<1> QED
  BY <1>8, <1>9, <1>10, <1>11, <1>12, <1>13 DEF Crossing!Next

\* The same of the abstract FIFO that each instance of the crossing has.
LEMMA SameFifo ==
    /\ CrossingProof!Fifo!Init => Crossing!Fifo!Init
    /\ [CrossingProof!Fifo!AsyncNext]_(CrossingProof!Fifo!vars)
         => [Crossing!Fifo!AsyncNext]_(Crossing!Fifo!vars)
<1>1. Crossing!Contents = CrossingProof!Contents
  BY DEF Crossing!Contents, CrossingProof!Contents, Crossing!Occupancy,
     CrossingProof!Occupancy, Crossing!Difference, CrossingProof!Difference,
     Crossing!DEPTH, CrossingProof!DEPTH
<1>2. CrossingProof!Fifo!Init => Crossing!Fifo!Init
  BY <1>1 DEF Crossing!Fifo!Init, CrossingProof!Fifo!Init,
     Crossing!Fifo!Quiet, CrossingProof!Fifo!Quiet
<1>3. [CrossingProof!Fifo!AsyncNext]_(CrossingProof!Fifo!vars)
         => [Crossing!Fifo!AsyncNext]_(Crossing!Fifo!vars)
  <2>1. (Crossing!Contents = CrossingProof!Contents)'
    BY <1>1, PTL
  <2>2. Crossing!DEPTH = CrossingProof!DEPTH
    BY DEF Crossing!DEPTH, CrossingProof!DEPTH
  <2> QED
    BY <1>1, <2>1, <2>2 DEF Crossing!Fifo!AsyncNext,
       CrossingProof!Fifo!AsyncNext, Crossing!Fifo!Transfer,
       CrossingProof!Fifo!Transfer, Crossing!Fifo!RxTransfer,
       CrossingProof!Fifo!RxTransfer, Crossing!Fifo!TxTransfer,
       CrossingProof!Fifo!TxTransfer, Crossing!Fifo!Reset,
       CrossingProof!Fifo!Reset, Crossing!Fifo!Release,
       CrossingProof!Fifo!Release, Crossing!Fifo!Quiet, CrossingProof!Fifo!Quiet,
       Crossing!Fifo!Offered, CrossingProof!Fifo!Offered, Crossing!Fifo!Accepted,
       CrossingProof!Fifo!Accepted, Crossing!Fifo!Delivered,
       CrossingProof!Fifo!Delivered, Crossing!Fifo!vars, CrossingProof!Fifo!vars
<1> QED
  BY <1>2, <1>3

(***************************************************************************)
(* The crossing is a FIFO with two clocks for every width, whatever the    *)
(* resets do and in whatever order their releases reach the clocks.        *)
(***************************************************************************)
THEOREM CrossingImplements == ClockingSpec => RefinesFifo
<1>1. ClockingInit => CrossingProof!Init
  BY DEF ClockingInit, Crossing!Init, CrossingProof!Init,
     Crossing!Cleared, CrossingProof!Cleared, Crossing!Addresses,
     CrossingProof!Addresses, Crossing!DEPTH, CrossingProof!DEPTH
<1>2. [ClockingNext]_<<block, pll, synchronizer, crossing>>
         => [CrossingProof!Next]_(CrossingProof!vars)
  BY SameNext DEF ClockingNext, PllNext, SynchronizerNext, CrossingNext
<1>3. CrossingProof!Spec => CrossingProof!RefinesFifo
  BY ClockingAssumption, CrossingProof!Implements
<1> QED
  BY <1>1, <1>2, <1>3, SameFifo, PTL
  DEF ClockingSpec, RefinesFifo, Crossing!RefinesFifo, Crossing!Fifo!AsyncSpec,
      CrossingProof!RefinesFifo, CrossingProof!Fifo!AsyncSpec, CrossingProof!Spec

=============================================================================
