---------------------------------- MODULE Slew ----------------------------------
(***************************************************************************)
(* The position ramp of one joint in the RT loop: slew_step() of slew.h and *)
(* step 7 of the cycle around it.  Positions are integers, multiples of a   *)
(* resolution, so that sums are exact; the code rounds them to doubles.     *)
(* Whether a set-point is sent, and with which gains, is RtLoop's; the ramp *)
(* goes on under every latch.                                               *)
(***************************************************************************)
EXTENDS Integers

CONSTANTS
    Positions,      \* positions that are commanded and reported
    MaxDelta,       \* max_pos_delta_per_cycle; 0: the joint has no limit
    MaxAccel        \* max_accel_per_cycle2; 0: the joint has no guard

VARIABLES
    q_des,          \* the command the cycle reads
    accel_guard_enabled,
    cur_pos,        \* the position last reported, which may be an old one
    slew_target, slew_step_prev
vars == <<q_des, accel_guard_enabled, cur_pos, slew_target, slew_step_prev>>

Abs(n) == IF n < 0 THEN -n ELSE n
Least(a, b) == IF a < b THEN a ELSE b
Clamp(n, lo, hi) == IF n > hi THEN hi ELSE IF n < lo THEN lo ELSE n

(* The step grows by at most max_accel over the last one in its direction;
   it may shrink at once.                                                   *)
SlewStep(diff, prev_step, max_delta, max_accel) ==
    LET step == Clamp(diff, -max_delta, max_delta)
        up   == (IF prev_step > 0 THEN prev_step ELSE 0) + max_accel
        down == (IF prev_step < 0 THEN prev_step ELSE 0) - max_accel
    IN IF max_accel > 0 THEN Clamp(step, down, up) ELSE step

Guard == IF accel_guard_enabled THEN MaxAccel ELSE 0

Ramp(from, prev) ==
    IF MaxDelta > 0
    THEN /\ slew_step_prev' = SlewStep(q_des - from, prev, MaxDelta, Guard)
         /\ slew_target' = from + slew_step_prev'
    ELSE /\ slew_step_prev' = 0
         /\ slew_target' = q_des

(* The end of the warm-up: the command is the measured pose.                *)
Init ==
    /\ cur_pos \in Positions
    /\ q_des = cur_pos /\ slew_target = cur_pos /\ slew_step_prev = 0
    /\ accel_guard_enabled \in BOOLEAN

Command == q_des' \in Positions /\ UNCHANGED <<accel_guard_enabled, cur_pos, slew_target, slew_step_prev>>

(* set_accel_guard(), at any time; an older build leaves the guard as it is. *)
SetAccelGuard ==
    /\ accel_guard_enabled' \in BOOLEAN
    /\ UNCHANGED <<q_des, cur_pos, slew_target, slew_step_prev>>

Cycle ==
    /\ cur_pos' \in Positions
    /\ Ramp(slew_target, slew_step_prev)
    /\ UNCHANGED <<q_des, accel_guard_enabled>>

(* A cycle that takes an error reset snaps the ramp to the reported pose.   *)
ResetCycle ==
    /\ cur_pos' \in Positions
    /\ Ramp(cur_pos', 0)
    /\ UNCHANGED <<q_des, accel_guard_enabled>>

Next == Command \/ SetAccelGuard \/ Cycle \/ ResetCycle
Spec == Init /\ [][Next]_vars
-----------------------------------------------------------------------------
SlewTypeOK ==
    /\ q_des \in Positions /\ cur_pos \in Positions /\ slew_target \in Int /\ slew_step_prev \in Int
    /\ accel_guard_enabled \in BOOLEAN

(* The last step, whatever the guard was when it was taken, is one the rate
   limit allows: what the guard builds on is never more than that.          *)
RateBounded == SlewTypeOK /\ Abs(slew_step_prev) <= MaxDelta

(* A cycle comes closer to the command and does not pass it, so that the ramp
   settles on a command that stays: slew.h's "with no overshoot", also after
   jumps and reversals of the command and toggles of the guard in mid-move. *)
Distance == Abs(q_des - slew_target)
Approach ==
    Cycle /\ MaxDelta > 0 =>
        /\ slew_target # q_des => Distance' < Distance
        /\ slew_target <= q_des => slew_target' <= q_des
        /\ slew_target >= q_des => slew_target' >= q_des
ApproachesWithoutOvershoot == [][Approach]_vars

(* Enabling the guard, or a jump of the command ahead, does not stall a joint
   in motion: a cycle that goes on in the direction of the last one is no
   slower than it, until the command is reached (control_loop.cpp:977).     *)
KeepSpeed ==
    Cycle /\ MaxDelta > 0 =>
        /\ slew_step_prev > 0 /\ q_des > slew_target =>
             slew_step_prev' >= Least(slew_step_prev, q_des - slew_target)
        /\ slew_step_prev < 0 /\ q_des < slew_target =>
             -slew_step_prev' >= Least(-slew_step_prev, slew_target - q_des)
NeverStalls == [][KeepSpeed]_vars

(* The first set-point after a reset is within one step of the pose reported,
   however far the ramp and the command went under the latched fault, and
   within max_accel of it if the guard is on: the arm does not jump
   (control_loop.cpp:924).  The report itself may be an old one.            *)
StartAtPose ==
    ResetCycle /\ MaxDelta > 0 =>
        /\ Abs(slew_target' - cur_pos') <= MaxDelta
        /\ Guard > 0 => Abs(slew_target' - cur_pos') <= Guard
ResetStartsAtPose == [][StartAtPose]_vars
================================================================================
