-------------------------------- MODULE PyRobot --------------------------------
(***************************************************************************)
(* The Python control path, robot.py over motor_chain.py: a server thread  *)
(* that turns commands into set-points, a motor thread that sends them,    *)
(* and callers on any thread.  The locks are _cmd_lock (commands and       *)
(* flags) and the chain's _lock (set-points and readings); every block     *)
(* under a lock is one step, everything between two blocks may be late.    *)
(*                                                                         *)
(* How the chain is started and stopped on the bus is SerialArm's; here    *)
(* start() and stop() are the steps of robot.py around them.  A target is  *)
(* the number of the command it came from; AtStart is the pose start() left *)
(* the arm in, and the gripper open after its homing; Here is the pose of  *)
(* the moment.  A reading is whether a joint is over its torque limit.     *)
(***************************************************************************)
EXTENDS Integers

CONSTANTS
    OvercurrentThreshold,   \* overcurrent_threshold
    MaxCommands,            \* bound on the commands given
    MaxSessions             \* bound on the calls of connect()

ASSUME PyRobotAssumption ==
    /\ OvercurrentThreshold \in Nat \ {0}
    /\ MaxCommands \in Nat /\ MaxSessions \in Nat

AtStart == 0
Here == -1
Targets == Here..MaxCommands

VARIABLES
    session,            \* the session's thread: connect() and disconnect()
    sessions,           \* calls of connect() so far
    issued,             \* commands given so far
    q_des, gripper_des, fresh, damping_mode, stale_warned,  \* under _cmd_lock;
                        \* fresh: _last_cmd_time is within command_timeout_s
    server,             \* the server thread: where it is
    snap,               \* its copies of what it read under the locks
    overcurrent_count,
    arm_cmd, grip_cmd, over,    \* under _lock: set-points and reading
    chain_running,      \* _running of the chain
    motor,              \* the motor thread: where it is
    sending,            \* the set-points of its cycle
    drive,              \* what the motors obey
    commanded,          \* a command was given since connect() began (history)
    tripped             \* damping was entered and no command given since (history)

commands == <<q_des, gripper_des, fresh, damping_mode, stale_warned>>
chain    == <<arm_cmd, grip_cmd, over, chain_running>>
servers  == <<server, snap, overcurrent_count>>
motors   == <<motor, sending, drive>>
history  == <<commanded, tripped>>
calls    == <<session, sessions, issued>>
vars == <<calls, commands, servers, chain, motors, history>>

SetPoint == [stiff : BOOLEAN, q : Targets]
Limp == [stiff |-> FALSE, q |-> Here]
Frames == [arm : SetPoint, grip : Targets]
Unpowered == [arm |-> Limp, grip |-> Here]
Snap == [over : BOOLEAN, q : Targets, grip : Targets, fresh : BOOLEAN, damping : BOOLEAN]

TypeOK ==
    /\ session \in {"off", "chain up", "target set", "on", "stopping", "joined"}
    /\ sessions \in 0..MaxSessions /\ issued \in 0..MaxCommands
    /\ q_des \in Targets /\ gripper_des \in Targets
    /\ fresh \in BOOLEAN /\ damping_mode \in BOOLEAN /\ stale_warned \in BOOLEAN
    /\ server \in {"off", "read", "snapshot", "warn", "warned", "check", "trip", "arm", "gripper"}
    /\ snap \in Snap /\ overcurrent_count \in 0..OvercurrentThreshold
    /\ arm_cmd \in SetPoint /\ grip_cmd \in Targets /\ over \in BOOLEAN
    /\ chain_running \in BOOLEAN
    /\ motor \in {"off", "snapshot", "send", "publish"}
    /\ sending \in Frames /\ drive \in Frames
    /\ commanded \in BOOLEAN /\ tripped \in BOOLEAN

Init ==
    /\ session = "off" /\ sessions = 0 /\ issued = 0
    /\ q_des = AtStart /\ gripper_des = AtStart /\ fresh = FALSE
    /\ damping_mode = FALSE /\ stale_warned = FALSE
    /\ server = "off" /\ overcurrent_count = 0
    /\ snap = [over |-> FALSE, q |-> AtStart, grip |-> AtStart, fresh |-> TRUE, damping |-> FALSE]
    /\ arm_cmd = [stiff |-> TRUE, q |-> AtStart] /\ grip_cmd = AtStart
    /\ over = FALSE /\ chain_running = FALSE
    /\ motor = "off" /\ sending = Unpowered /\ drive = Unpowered
    /\ commanded = FALSE /\ tripped = FALSE
-----------------------------------------------------------------------------
(* connect(): the chain's start() holds the measured pose of the arm, with
   whatever gains and gripper set-point the buffers have; then the arm's
   target, then the server thread.                                          *)
StartChain ==
    /\ session = "off" /\ ~chain_running /\ sessions < MaxSessions
    /\ session' = "chain up" /\ sessions' = sessions + 1
    /\ chain_running' = TRUE /\ motor' = "snapshot"
    /\ arm_cmd' = [arm_cmd EXCEPT !.q = AtStart]
    /\ over' \in BOOLEAN
    /\ commanded' = FALSE
    /\ UNCHANGED <<issued, commands, servers, grip_cmd, sending, drive, tripped>>

InitTargetKept ==
    /\ session = "chain up"
    /\ session' = "target set"
    /\ fresh' = TRUE
    /\ UNCHANGED <<sessions, issued, q_des, gripper_des, damping_mode, stale_warned, servers, chain,
                   motors, history>>
InitTarget ==
    /\ session = "chain up"
    /\ session' = "target set"
    /\ q_des' = AtStart /\ fresh' = TRUE
    /\ UNCHANGED <<sessions, issued, gripper_des, damping_mode, stale_warned, servers, chain,
                   motors, history>>

StartServer ==
    /\ session = "target set"
    /\ session' = "on" /\ server' = "read"
    /\ UNCHANGED <<sessions, issued, commands, snap, overcurrent_count, chain, motors, history>>

(* disconnect(): the server leaves its loop, then the chain is stopped and
   its motors are disabled.  (Both joins give up after 2 s, which a cycle of
   3 or 4 ms does not take; that a thread is left behind is not modelled.)  *)
Disconnect ==
    /\ session = "on"
    /\ session' = "stopping"
    /\ UNCHANGED <<sessions, issued, commands, servers, chain, motors, history>>

ServerJoined ==
    /\ session = "stopping" /\ server = "off"
    /\ session' = "joined" /\ chain_running' = FALSE
    /\ UNCHANGED <<sessions, issued, commands, servers, arm_cmd, grip_cmd, over, motors, history>>

ChainStopped ==
    /\ session = "joined" /\ motor = "off"
    /\ session' = "off" /\ drive' = Unpowered
    /\ UNCHANGED <<sessions, issued, commands, servers, chain, motor, sending, history>>

(* command_joint_pos() and command_gripper(), from any thread at any time.  *)
CommandJointPos ==
    /\ issued < MaxCommands
    /\ issued' = issued + 1
    /\ q_des' = issued + 1 /\ fresh' = TRUE
    /\ damping_mode' = FALSE /\ stale_warned' = FALSE
    /\ commanded' = TRUE /\ tripped' = FALSE
    /\ UNCHANGED <<session, sessions, gripper_des, servers, chain, motors>>

CommandGripper ==
    /\ issued < MaxCommands
    /\ issued' = issued + 1 /\ gripper_des' = issued + 1
    /\ UNCHANGED <<session, sessions, q_des, fresh, damping_mode, stale_warned, servers,
                   chain, motors, history>>

CommandExpires ==
    /\ fresh /\ fresh' = FALSE
    /\ UNCHANGED <<calls, q_des, gripper_des, damping_mode, stale_warned, servers, chain,
                   motors, history>>
-----------------------------------------------------------------------------
(* One cycle of _server_loop().                                             *)
At(here, next) == server = here /\ server' = next

ServerRead ==
    /\ At("read", IF session = "stopping" THEN "off" ELSE "snapshot")
    /\ snap' = [snap EXCEPT !.over = over]
    /\ UNCHANGED <<calls, commands, overcurrent_count, chain, motors, history>>

ServerSnapshot ==
    /\ At("snapshot", "warn")
    /\ snap' = [snap EXCEPT !.q = q_des, !.grip = gripper_des,
                            !.fresh = fresh, !.damping = damping_mode]
    /\ UNCHANGED <<calls, commands, overcurrent_count, chain, motors, history>>

(* _stale_warned is read here and set in the next step, without the lock.   *)
ServerWarns ==
    /\ At("warn", IF ~snap.fresh /\ ~stale_warned THEN "warned" ELSE "check")
    /\ UNCHANGED <<calls, commands, snap, overcurrent_count, chain, motors, history>>

ServerWarned ==
    /\ At("warned", "check")
    /\ stale_warned' = TRUE
    /\ UNCHANGED <<calls, q_des, gripper_des, fresh, damping_mode, snap, overcurrent_count,
                   chain, motors, history>>

(* The leaky over-current counter, saturated at its threshold: from there on
   every over-limit cycle trips, and a command does not zero it.            *)
CountPastThreshold(c, is_over) ==
    IF is_over THEN c + 1 ELSE IF c > 0 THEN c - 1 ELSE 0
Count(c, is_over) ==
    IF is_over THEN IF c < OvercurrentThreshold THEN c + 1 ELSE c
    ELSE IF c > 0 THEN c - 1 ELSE 0

ServerChecks ==
    /\ server = "check"
    /\ overcurrent_count' = Count(overcurrent_count, snap.over)
    /\ server' = IF snap.over /\ overcurrent_count' = OvercurrentThreshold
                 THEN "trip" ELSE "arm"
    /\ UNCHANGED <<calls, commands, snap, chain, motors, history>>

TripLocally ==
    /\ At("trip", "arm")
    /\ snap' = [snap EXCEPT !.damping = TRUE]
    /\ tripped' = TRUE
    /\ UNCHANGED <<calls, commands, overcurrent_count, chain, motors, commanded>>
ServerTrips ==
    /\ At("trip", "arm")
    /\ snap' = [snap EXCEPT !.damping = TRUE]
    /\ damping_mode' = TRUE
    /\ tripped' = TRUE
    /\ UNCHANGED <<calls, q_des, gripper_des, fresh, stale_warned, overcurrent_count, chain,
                   motors, commanded>>

ServerPushesArm ==
    /\ At("arm", "gripper")
    /\ arm_cmd' = IF snap.damping THEN Limp ELSE [stiff |-> TRUE, q |-> snap.q]
    /\ UNCHANGED <<calls, commands, snap, overcurrent_count, grip_cmd, over, chain_running,
                   motors, history>>

ServerPushesGripper ==
    /\ At("gripper", "read")
    /\ grip_cmd' = snap.grip
    /\ UNCHANGED <<calls, commands, snap, overcurrent_count, arm_cmd, over, chain_running,
                   motors, history>>

ServerStep ==
    \/ ServerRead \/ ServerSnapshot \/ ServerWarns \/ ServerWarned \/ ServerChecks
    \/ ServerTrips \/ ServerPushesArm \/ ServerPushesGripper
-----------------------------------------------------------------------------
(* One cycle of _motor_loop().                                              *)
MotorSnapshot ==
    /\ motor = "snapshot"
    /\ IF chain_running
       THEN motor' = "send" /\ sending' = [arm |-> arm_cmd, grip |-> grip_cmd]
       ELSE motor' = "off" /\ UNCHANGED sending
    /\ UNCHANGED <<calls, commands, servers, chain, drive, history>>

MotorSend ==
    /\ motor = "send"
    /\ motor' = "publish" /\ drive' = sending
    /\ UNCHANGED <<calls, commands, servers, chain, sending, history>>

MotorPublish ==
    /\ motor = "publish"
    /\ motor' = "snapshot" /\ over' \in BOOLEAN
    /\ UNCHANGED <<calls, commands, servers, arm_cmd, grip_cmd, chain_running, sending, drive,
                   history>>

MotorStep == MotorSnapshot \/ MotorSend \/ MotorPublish

Next ==
    \/ StartChain \/ InitTarget \/ StartServer \/ Disconnect \/ ServerJoined \/ ChainStopped
    \/ CommandJointPos \/ CommandGripper \/ CommandExpires
    \/ ServerStep \/ MotorStep

Spec == Init /\ [][Next]_vars
-----------------------------------------------------------------------------
(* Once the server has entered damping and pushed it, the motors are given no
   stiffness until another joint command: not by a cycle that took its copies
   before, and not in a later session.                                      *)
DampingHolds == tripped /\ server # "arm" => ~arm_cmd.stiff

(* Until the first joint command of a session the arm is held at the pose it
   was found in, or not at all: no arm target of an earlier session gets
   through.                                                                 *)
HoldsUntilCommanded == drive.arm.stiff /\ ~commanded => drive.arm.q = AtStart

(* start() sets the targets up "so we don't jump on start": the gripper too
   stays where its homing left it, until the server pushes a command.       *)
GripperHeldAtStart == session = "chain up" => drive.grip \in {AtStart, Here}
================================================================================
