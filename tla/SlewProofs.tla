------------------------------- MODULE SlewProofs -------------------------------
(***************************************************************************)
(* Theorems about the ramp, for every rate limit and every guard.           *)
(***************************************************************************)
EXTENDS Slew, TLAPS

Limits == Positions \subseteq Int /\ MaxDelta \in Nat /\ MaxAccel \in Nat

(* A step goes toward the target, by something unless it is there, and not
   past it.                                                                 *)
Toward(diff, step) ==
    /\ diff > 0 => step > 0 /\ step <= diff
    /\ diff < 0 => step < 0 /\ step >= diff
    /\ diff = 0 => step = 0

LEMMA StepShape ==
    ASSUME NEW diff \in Int, NEW prev \in Int, NEW d \in Nat, NEW a \in Nat, d > 0
    PROVE  LET step == SlewStep(diff, prev, d, a)
           IN step \in Int /\ Abs(step) <= d /\ Toward(diff, step)
BY DEF SlewStep, Clamp, Abs, Toward

LEMMA TowardIsCloser ==
    ASSUME NEW q \in Int, NEW from \in Int, NEW step \in Int, Toward(q - from, step)
    PROVE  /\ from # q => Abs(q - (from + step)) < Abs(q - from)
           /\ from <= q => from + step <= q
           /\ from >= q => from + step >= q
BY DEF Toward, Abs

LEMMA StepKeepsSpeed ==
    ASSUME NEW diff \in Int, NEW prev \in Int, NEW d \in Nat, NEW a \in Nat,
           d > 0, Abs(prev) <= d
    PROVE  LET step == SlewStep(diff, prev, d, a)
           IN /\ prev > 0 /\ diff > 0 => step >= Least(prev, diff)
              /\ prev < 0 /\ diff < 0 => -step >= Least(-prev, -diff)
BY DEF SlewStep, Clamp, Abs, Least

LEMMA StepFromRest ==
    ASSUME NEW diff \in Int, NEW d \in Nat, NEW a \in Nat, d > 0, a > 0
    PROVE  Abs(SlewStep(diff, 0, d, a)) <= a
BY DEF SlewStep, Clamp, Abs

LEMMA GuardType ==
    ASSUME Limits PROVE Guard \in Nat
BY DEF Limits, Guard

LEMMA RateInductive ==
    ASSUME Limits, RateBounded, [Next]_vars
    PROVE  RateBounded'
<1> USE DEF RateBounded, SlewTypeOK, Limits
<1>1. CASE Command
    BY <1>1 DEF Command, Abs
<1>2. CASE SetAccelGuard
    BY <1>2 DEF SetAccelGuard, Abs
<1>3. CASE Cycle
    <2>1. CASE MaxDelta > 0
        <3>1. slew_step_prev' \in Int /\ Abs(slew_step_prev') <= MaxDelta
            <4>1. q_des - slew_target \in Int
                OBVIOUS
            <4>2. slew_step_prev' = SlewStep(q_des - slew_target, slew_step_prev, MaxDelta, Guard)
                BY <1>3, <2>1 DEF Cycle, Ramp
            <4> QED BY <2>1, <4>1, <4>2, StepShape, GuardType DEF Limits
        <3>2. slew_target' \in Int
            BY <1>3, <2>1, <3>1 DEF Cycle, Ramp
        <3> QED BY <1>3, <3>1, <3>2 DEF Cycle
    <2>2. CASE ~(MaxDelta > 0)
        BY <1>3, <2>2 DEF Cycle, Ramp, Abs, Limits
    <2> QED BY <2>1, <2>2
<1>4. CASE ResetCycle
    <2>1. CASE MaxDelta > 0
        <3>1. slew_step_prev' \in Int /\ Abs(slew_step_prev') <= MaxDelta
            <4>1. q_des - cur_pos' \in Int
                BY <1>4 DEF ResetCycle
            <4>2. slew_step_prev' = SlewStep(q_des - cur_pos', 0, MaxDelta, Guard)
                BY <1>4, <2>1 DEF ResetCycle, Ramp
            <4> QED BY <2>1, <4>1, <4>2, StepShape, GuardType DEF Limits
        <3>2. slew_target' \in Int
            BY <1>4, <2>1, <3>1 DEF ResetCycle, Ramp
        <3> QED BY <1>4, <3>1, <3>2 DEF ResetCycle
    <2>2. CASE ~(MaxDelta > 0)
        BY <1>4, <2>2 DEF ResetCycle, Ramp, Abs, Limits
    <2> QED BY <2>1, <2>2
<1>5. CASE UNCHANGED vars
    BY <1>5 DEF vars, Abs
<1> QED BY <1>1, <1>2, <1>3, <1>4, <1>5 DEF Next

(* The step that the guard builds on stays within the rate limit, through
   every toggle of the guard (slew.h, step 7 of the cycle).                 *)
THEOREM RateCorrect == ASSUME Limits PROVE Spec => []RateBounded
<1>1. Init => RateBounded
    BY DEF Init, RateBounded, SlewTypeOK, Limits, Abs
<1>2. RateBounded /\ [Next]_vars => RateBounded'
    BY RateInductive
<1> QED BY <1>1, <1>2, PTL DEF Spec

(* The ramp comes closer with every cycle and never passes the command.     *)
THEOREM ApproachCorrect == ASSUME Limits PROVE Spec => ApproachesWithoutOvershoot
<1>1. ASSUME RateBounded, Cycle, MaxDelta > 0
      PROVE  /\ slew_target # q_des => Distance' < Distance
             /\ slew_target <= q_des => slew_target' <= q_des
             /\ slew_target >= q_des => slew_target' >= q_des
        <2>1. /\ slew_step_prev \in Int /\ q_des \in Int /\ slew_target \in Int
          /\ q_des - slew_target \in Int
        BY <1>1 DEF RateBounded, SlewTypeOK, Limits
    <2>2. slew_step_prev' = SlewStep(q_des - slew_target, slew_step_prev, MaxDelta, Guard)
        BY <1>1 DEF Cycle, Ramp
    <2>3. slew_step_prev' \in Int /\ Toward(q_des - slew_target, slew_step_prev')
        BY <1>1, <2>1, <2>2, StepShape, GuardType DEF Limits
    <2>4. slew_target' = slew_target + slew_step_prev' /\ q_des' = q_des
        BY <1>1 DEF Cycle, Ramp
    <2>5. Distance' = Abs(q_des - (slew_target + slew_step_prev'))
        BY <2>4 DEF Distance
    <2> QED
        BY <2>1, <2>3, <2>4, <2>5, TowardIsCloser DEF Distance
<1>2. RateBounded /\ [Next]_vars => [Approach]_vars
    BY <1>1 DEF Approach
<1>3. Spec => []RateBounded
    BY RateCorrect
<1> QED BY <1>2, <1>3, PTL DEF Spec, ApproachesWithoutOvershoot

(* A joint in motion is not stalled by the guard or by a new command ahead. *)
THEOREM NoStallCorrect == ASSUME Limits PROVE Spec => NeverStalls
<1>1. ASSUME RateBounded, Cycle, MaxDelta > 0
      PROVE  /\ slew_step_prev > 0 /\ q_des > slew_target =>
                  slew_step_prev' >= Least(slew_step_prev, q_des - slew_target)
             /\ slew_step_prev < 0 /\ q_des < slew_target =>
                  -slew_step_prev' >= Least(-slew_step_prev, slew_target - q_des)
        <2> DEFINE diff == q_des - slew_target
    <2>1. diff \in Int /\ slew_step_prev \in Int /\ q_des \in Int /\ slew_target \in Int
        BY <1>1 DEF RateBounded, SlewTypeOK, Limits
    <2>2. /\ slew_step_prev > 0 /\ diff > 0 => slew_step_prev' >= Least(slew_step_prev, diff)
          /\ slew_step_prev < 0 /\ diff < 0 => -slew_step_prev' >= Least(-slew_step_prev, -diff)
        BY <1>1, <2>1, StepKeepsSpeed, GuardType DEF Cycle, Ramp, Limits, RateBounded
    <2> QED
        BY <2>1, <2>2 DEF Least
<1>2. RateBounded /\ [Next]_vars => [KeepSpeed]_vars
    BY <1>1 DEF KeepSpeed
<1>3. Spec => []RateBounded
    BY RateCorrect
<1> QED BY <1>2, <1>3, PTL DEF Spec, NeverStalls

(* What is sent first after a reset is within a step of the reported pose.  *)
THEOREM ResetCorrect == ASSUME Limits PROVE Spec => ResetStartsAtPose
<1>1. ASSUME RateBounded, ResetCycle, MaxDelta > 0
      PROVE  /\ Abs(slew_target' - cur_pos') <= MaxDelta
             /\ Guard > 0 => Abs(slew_target' - cur_pos') <= Guard
    <2>1. /\ q_des - cur_pos' \in Int /\ cur_pos' \in Int
        BY <1>1 DEF RateBounded, SlewTypeOK, ResetCycle, Limits
    <2>2. /\ slew_step_prev' = SlewStep(q_des - cur_pos', 0, MaxDelta, Guard)
          /\ slew_target' = cur_pos' + slew_step_prev'
        BY <1>1 DEF ResetCycle, Ramp
    <2>3. slew_step_prev' \in Int /\ Abs(slew_step_prev') <= MaxDelta
        BY <1>1, <2>1, <2>2, StepShape, GuardType DEF Limits
    <2>4. Guard > 0 => Abs(slew_step_prev') <= Guard
        BY <1>1, <2>1, <2>2, StepFromRest, GuardType DEF Limits
    <2>5. slew_target' - cur_pos' = slew_step_prev'
        BY <2>1, <2>2, <2>3
    <2> QED
        BY <2>3, <2>4, <2>5
<1>2. RateBounded /\ [Next]_vars => [StartAtPose]_vars
    BY <1>1 DEF StartAtPose
<1>3. Spec => []RateBounded
    BY RateCorrect
<1> QED BY <1>2, <1>3, PTL DEF Spec, ResetStartsAtPose
================================================================================
