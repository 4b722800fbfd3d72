------------------------------ MODULE MCSerialArm ------------------------------
(* A small instance of SerialArm for TLC: one joint and the gripper, and a
   follower beside another arm's driver.                                    *)
EXTENDS SerialArm

OneJoint == <<"joint_1">>
Both == {"user", "motor"}
OtherArm == [k \in Kinds |-> IF k = "follower" THEN {Do("disable", "joint_1")} ELSE {}]

(* How far the follower is explored: over one session, no further than the
   first frame that was mixed up, after which nothing is claimed of it, and
   its publisher without a fault and with the release armed.                *)
OneAtATime ==
    kind = "follower" =>
        /\ sessions <= 1 /\ ~mixed
        /\ script["motor"] # <<>> => faults = 0 /\ release
================================================================================
