-------------------------------- MODULE Safety --------------------------------
(***************************************************************************)
(* csrc/safety.h: the per-cycle safety check of the RT loop.  Two leaky    *)
(* counters (joint over-speed, joint over-current) that latch damping mode *)
(* when one of them reaches its threshold.                                 *)
(*                                                                         *)
(* Measurements are abstracted to the sets of joints whose last reported   *)
(* velocity / torque is over its limit.  A counter saturates at its        *)
(* threshold: at the threshold damping mode is latched, and only a reset,  *)
(* which zeroes the counters as well, clears it.                           *)
(***************************************************************************)
EXTENDS Integers

CONSTANTS
    OverspeedThreshold,     \* cfg_.overspeed_threshold
    OvercurrentThreshold    \* cfg_.overcurrent_threshold

ASSUME ThresholdsPositive ==
    /\ OverspeedThreshold \in Nat \ {0}
    /\ OvercurrentThreshold \in Nat \ {0}

SafetyState == [damping : BOOLEAN,
                overspeed : 0..OverspeedThreshold,
                overcurrent : 0..OvercurrentThreshold]

SafetyClear == [damping |-> FALSE, overspeed |-> 0, overcurrent |-> 0]

(* One step of a leaky counter: up by one on a violation, else down to 0.  *)
Leak(count, over, threshold) ==
    IF over
    THEN IF count < threshold THEN count + 1 ELSE count
    ELSE IF count > 0 THEN count - 1 ELSE 0

ApplySafetyLate(s, fast, strained) ==
    LET speed   == Leak(s.overspeed, fast # {}, OverspeedThreshold)
        current == Leak(s.overcurrent, strained # {}, OvercurrentThreshold)
        tripped == speed > OverspeedThreshold \/ current > OvercurrentThreshold
    IN  [damping |-> s.damping \/ tripped, overspeed |-> speed, overcurrent |-> current]

(* The counters and the latch after one call of apply_safety().            *)
ApplySafety(s, fast, strained) ==
    LET speed   == Leak(s.overspeed, fast # {}, OverspeedThreshold)
        current == Leak(s.overcurrent, strained # {}, OvercurrentThreshold)
        tripped == \/ fast # {} /\ speed >= OverspeedThreshold
                   \/ strained # {} /\ current >= OvercurrentThreshold
    IN  [damping |-> s.damping \/ tripped,
         overspeed |-> speed,
         overcurrent |-> current]

================================================================================
