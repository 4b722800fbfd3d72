----------------------------- MODULE PyRobotProofs -----------------------------
(***************************************************************************)
(* Theorems about PyRobot, for every threshold and any number of commands  *)
(* and sessions.                                                           *)
(***************************************************************************)
EXTENDS PyRobot, TLAPS

USE DEF calls, commands, servers, chain, motors, history

LEMMA CountType ==
    ASSUME NEW c \in 0..OvercurrentThreshold, NEW is_over \in BOOLEAN
    PROVE  Count(c, is_over) \in 0..OvercurrentThreshold
BY PyRobotAssumption DEF Count

LEMMA TargetsType == AtStart \in Targets /\ Here \in Targets /\ \A n \in 0..MaxCommands : n \in Targets
BY PyRobotAssumption DEF AtStart, Here, Targets

(* The type invariant by what owns the variables.                          *)
PlacesOK ==
    /\ session \in {"off", "chain up", "target set", "on", "stopping", "joined"}
    /\ server \in {"off", "read", "snapshot", "warn", "warned", "check", "trip", "arm", "gripper"}
    /\ motor \in {"off", "snapshot", "send", "publish"}
BoundsOK ==
    /\ sessions \in 0..MaxSessions /\ issued \in 0..MaxCommands
    /\ q_des \in Targets /\ gripper_des \in Targets /\ grip_cmd \in Targets
    /\ overcurrent_count \in 0..OvercurrentThreshold
FlagsOK ==
    /\ fresh \in BOOLEAN /\ damping_mode \in BOOLEAN /\ stale_warned \in BOOLEAN
    /\ over \in BOOLEAN /\ chain_running \in BOOLEAN
    /\ commanded \in BOOLEAN /\ tripped \in BOOLEAN
BuffersOK ==
    /\ snap \in Snap /\ arm_cmd \in SetPoint /\ sending \in Frames /\ drive \in Frames

LEMMA TypeParts == TypeOK <=> PlacesOK /\ BoundsOK /\ FlagsOK /\ BuffersOK
BY DEF TypeOK, PlacesOK, BoundsOK, FlagsOK, BuffersOK

LEMMA TypePartsNext == PlacesOK' /\ BoundsOK' /\ FlagsOK' /\ BuffersOK' => TypeOK'
BY DEF TypeOK, PlacesOK, BoundsOK, FlagsOK, BuffersOK

LEMMA TypeInit == Init => TypeOK
<1> SUFFICES ASSUME Init PROVE TypeOK
    OBVIOUS
<1>1. PlacesOK
    BY DEF Init, PlacesOK
<1>2. BoundsOK
    BY TargetsType, PyRobotAssumption DEF Init, BoundsOK
<1>3. FlagsOK
    BY DEF Init, FlagsOK
<1>4. BuffersOK
    BY TargetsType DEF Init, BuffersOK, Snap, SetPoint, Limp, Frames, Unpowered
<1> QED BY <1>1, <1>2, <1>3, <1>4, TypeParts

LEMMA TypeInductive ==
    ASSUME TypeOK, [Next]_vars PROVE TypeOK'
<1>1. CASE StartChain
    <2>1. PlacesOK'
        BY <1>1, TypeParts DEF StartChain, PlacesOK
    <2>2. BoundsOK'
        <3>1. sessions \in 0..MaxSessions /\ sessions < MaxSessions
            BY <1>1, TypeParts DEF StartChain, BoundsOK
        <3>2. sessions + 1 \in 0..MaxSessions
            BY <3>1, PyRobotAssumption
        <3> QED BY <1>1, <3>2, TypeParts DEF StartChain, BoundsOK
    <2>3. FlagsOK'
        BY <1>1, TypeParts DEF StartChain, FlagsOK
    <2>4. BuffersOK'
        BY <1>1, TypeParts, TargetsType DEF StartChain, BuffersOK, SetPoint
    <2> QED BY <2>1, <2>2, <2>3, <2>4, TypePartsNext
<1>2. CASE InitTarget
    BY <1>2, TargetsType DEF TypeOK, InitTarget
<1>3. CASE StartServer
    BY <1>3 DEF TypeOK, StartServer
<1>4. CASE Disconnect
    BY <1>4 DEF TypeOK, Disconnect
<1>5. CASE ServerJoined
    BY <1>5 DEF TypeOK, ServerJoined
<1>6. CASE ChainStopped
    BY <1>6, TargetsType DEF TypeOK, ChainStopped, Limp, SetPoint, Frames, Unpowered
<1>7. CASE CommandJointPos
    <2>1. PlacesOK'
        BY <1>7, TypeParts DEF CommandJointPos, PlacesOK
    <2>2. BoundsOK'
        BY <1>7, TypeParts, TargetsType, PyRobotAssumption DEF CommandJointPos, BoundsOK
    <2>3. FlagsOK'
        BY <1>7, TypeParts DEF CommandJointPos, FlagsOK
    <2>4. BuffersOK'
        BY <1>7, TypeParts DEF CommandJointPos, BuffersOK
    <2> QED BY <2>1, <2>2, <2>3, <2>4, TypePartsNext
<1>8. CASE CommandGripper
    <2>1. PlacesOK'
        BY <1>8, TypeParts DEF CommandGripper, PlacesOK
    <2>2. BoundsOK'
        BY <1>8, TypeParts, TargetsType, PyRobotAssumption DEF CommandGripper, BoundsOK
    <2>3. FlagsOK'
        BY <1>8, TypeParts DEF CommandGripper, FlagsOK
    <2>4. BuffersOK'
        BY <1>8, TypeParts DEF CommandGripper, BuffersOK
    <2> QED BY <2>1, <2>2, <2>3, <2>4, TypePartsNext
<1>9. CASE CommandExpires
    <2>1. PlacesOK'
        BY <1>9, TypeParts DEF CommandExpires, PlacesOK
    <2>2. BoundsOK'
        BY <1>9, TypeParts DEF CommandExpires, BoundsOK
    <2>3. FlagsOK'
        BY <1>9, TypeParts DEF CommandExpires, FlagsOK
    <2>4. BuffersOK'
        BY <1>9, TypeParts DEF CommandExpires, BuffersOK
    <2> QED BY <2>1, <2>2, <2>3, <2>4, TypePartsNext
<1>10. CASE ServerStep
    <2>1. CASE ServerRead
        BY <2>1 DEF TypeOK, ServerRead, At, Snap
    <2>2. CASE ServerSnapshot
        BY <2>2 DEF TypeOK, ServerSnapshot, At, Snap
    <2>3. CASE ServerWarns
        BY <2>3 DEF TypeOK, ServerWarns, At
    <2>4. CASE ServerWarned
        BY <2>4 DEF TypeOK, ServerWarned, At
    <2>5. CASE ServerChecks
        <3>1. overcurrent_count' \in 0..OvercurrentThreshold
            BY <2>5, CountType DEF TypeOK, ServerChecks, Snap
        <3> QED BY <2>5, <3>1 DEF TypeOK, ServerChecks
    <2>6. CASE ServerTrips
        BY <2>6 DEF TypeOK, ServerTrips, At, Snap
    <2>7. CASE ServerPushesArm
        <3>1. arm_cmd' \in SetPoint
            BY <2>7, TargetsType DEF TypeOK, ServerPushesArm, Limp, SetPoint, Snap
        <3> QED BY <2>7, <3>1 DEF TypeOK, ServerPushesArm, At
    <2>8. CASE ServerPushesGripper
        <3>1. PlacesOK'
            BY <2>8, TypeParts DEF ServerPushesGripper, At, PlacesOK
        <3>2. BoundsOK'
            BY <2>8, TypeParts DEF ServerPushesGripper, At, BoundsOK, BuffersOK, Snap
        <3>3. FlagsOK'
            BY <2>8, TypeParts DEF ServerPushesGripper, At, FlagsOK
        <3>4. BuffersOK'
            BY <2>8, TypeParts DEF ServerPushesGripper, At, BuffersOK
        <3> QED BY <3>1, <3>2, <3>3, <3>4, TypePartsNext
    <2> QED BY <1>10, <2>1, <2>2, <2>3, <2>4, <2>5, <2>6, <2>7, <2>8 DEF ServerStep
<1>11. CASE MotorStep
    <2>1. CASE MotorSnapshot
        <3>1. arm_cmd \in SetPoint /\ grip_cmd \in Targets /\ sending \in Frames
            BY DEF TypeOK
        <3>2. [arm |-> arm_cmd, grip |-> grip_cmd] \in Frames
            BY <3>1 DEF Frames
        <3>3. sending' \in Frames
            BY <2>1, <3>1, <3>2 DEF MotorSnapshot
        <3> QED BY <2>1, <3>3 DEF TypeOK, MotorSnapshot
    <2>2. CASE MotorSend
        BY <2>2 DEF TypeOK, MotorSend
    <2>3. CASE MotorPublish
        BY <2>3 DEF TypeOK, MotorPublish
    <2> QED BY <1>11, <2>1, <2>2, <2>3 DEF MotorStep
<1>12. CASE UNCHANGED vars
    <2>1. PlacesOK'
        BY <1>12, TypeParts DEF vars, PlacesOK
    <2>2. BoundsOK'
        BY <1>12, TypeParts DEF vars, BoundsOK
    <2>3. FlagsOK'
        BY <1>12, TypeParts DEF vars, FlagsOK
    <2>4. BuffersOK'
        BY <1>12, TypeParts DEF vars, BuffersOK
    <2> QED BY <2>1, <2>2, <2>3, <2>4, TypePartsNext
<1> QED
    BY <1>1, <1>2, <1>3, <1>4, <1>5, <1>6, <1>7, <1>8, <1>9, <1>10, <1>11, <1>12 DEF Next

(* Every thread of the controller keeps every variable in its type.         *)
THEOREM PyTypeCorrect == Spec => []TypeOK
<1>1. Init => TypeOK
    BY TypeInit
<1>2. TypeOK /\ [Next]_vars => TypeOK'
    BY TypeInductive
<1> QED BY <1>1, <1>2, PTL DEF Spec
-----------------------------------------------------------------------------
(* What a thread may run while the session is where it is.                  *)
InSession ==
    /\ server # "off" => session \in {"on", "stopping"}
    /\ session = "off" => motor = "off" /\ drive = Unpowered

Aboard == server \in {"warn", "warned", "check", "trip", "arm", "gripper"}
AtStartOrLimp(set) == set.stiff => set.q = AtStart

(* No target but the measured pose is anywhere on its way to the arm.       *)
NothingOldAboard ==
    ~commanded =>
        /\ session \in {"target set", "on", "stopping"} => q_des = AtStart
        /\ Aboard => snap.q = AtStart
        /\ session # "off" => AtStartOrLimp(arm_cmd)
        /\ motor = "send" => AtStartOrLimp(sending.arm)
        /\ AtStartOrLimp(drive.arm)

(* A server cycle in flight knows of the damping that is on.                *)
DampingKnown ==
    tripped => damping_mode /\ (Aboard => snap.damping)
               /\ (server = "arm" \/ ~arm_cmd.stiff)

PyInvariant == TypeOK /\ InSession /\ NothingOldAboard /\ DampingKnown

LEMMA LimpIsLimp == AtStartOrLimp(Limp)
BY DEF AtStartOrLimp, Limp

LEMMA PyInit == Init => PyInvariant
<1> SUFFICES ASSUME Init PROVE PyInvariant
    OBVIOUS
<1>1. InSession /\ DampingKnown
    BY DEF Init, InSession, DampingKnown
<1>2. NothingOldAboard
    BY LimpIsLimp DEF Init, NothingOldAboard, Aboard, Unpowered
<1> QED BY <1>1, <1>2, TypeInit DEF PyInvariant

LEMMA SessionStep ==
    ASSUME PyInvariant,
           \/ StartChain \/ InitTarget \/ StartServer \/ Disconnect \/ ServerJoined \/ ChainStopped
    PROVE  InSession' /\ NothingOldAboard' /\ DampingKnown'
<1> USE DEF PyInvariant, InSession, NothingOldAboard, DampingKnown, Aboard, AtStartOrLimp
<1>1. CASE StartChain
    <2>1. arm_cmd'.q = AtStart
        BY <1>1 DEF StartChain, TypeOK, SetPoint
    <2>2. drive = Unpowered /\ drive' = drive /\ motor' = "snapshot" /\ server' = "off"
        BY <1>1 DEF StartChain
    <2>3. NothingOldAboard'
        <3>1. AtStartOrLimp(drive'.arm)
            BY <2>2, LimpIsLimp DEF Unpowered
        <3>2. AtStartOrLimp(arm_cmd')
            BY <2>1
        <3> QED BY <1>1, <2>2, <3>1, <3>2 DEF StartChain
    <2>4. DampingKnown'
        BY <1>1, <2>1, <2>2 DEF StartChain, TypeOK, SetPoint
    <2> QED BY <1>1, <2>2, <2>3, <2>4 DEF StartChain
<1>2. CASE InitTarget
    BY <1>2 DEF InitTarget
<1>3. CASE StartServer
    BY <1>3 DEF StartServer
<1>4. CASE Disconnect
    BY <1>4 DEF Disconnect
<1>5. CASE ServerJoined
    BY <1>5 DEF ServerJoined
<1>6. CASE ChainStopped
    BY <1>6, LimpIsLimp DEF ChainStopped, Unpowered
<1> QED BY <1>1, <1>2, <1>3, <1>4, <1>5, <1>6

LEMMA CommandStep ==
    ASSUME PyInvariant, CommandJointPos \/ CommandGripper \/ CommandExpires
    PROVE  InSession' /\ NothingOldAboard' /\ DampingKnown'
<1> USE DEF PyInvariant, InSession, NothingOldAboard, DampingKnown, Aboard, AtStartOrLimp
<1>1. CASE CommandJointPos
    BY <1>1 DEF CommandJointPos
<1>2. CASE CommandGripper
    BY <1>2 DEF CommandGripper
<1>3. CASE CommandExpires
    BY <1>3 DEF CommandExpires
<1> QED BY <1>1, <1>2, <1>3

LEMMA ServerKeeps ==
    ASSUME PyInvariant, ServerStep
    PROVE  InSession' /\ NothingOldAboard' /\ DampingKnown'
<1> USE DEF PyInvariant, InSession, NothingOldAboard, DampingKnown, Aboard, AtStartOrLimp
<1>1. CASE ServerRead
    BY <1>1 DEF ServerRead, At
<1>2. CASE ServerSnapshot
    <2>1. snap'.q = q_des /\ snap'.damping = damping_mode
        BY <1>2 DEF ServerSnapshot, TypeOK, Snap
    <2> QED BY <1>2, <2>1 DEF ServerSnapshot, At
<1>3. CASE ServerWarns
    BY <1>3 DEF ServerWarns, At
<1>4. CASE ServerWarned
    BY <1>4 DEF ServerWarned, At
<1>5. CASE ServerChecks
    BY <1>5 DEF ServerChecks
<1>6. CASE ServerTrips
    <2>1. snap'.q = snap.q /\ snap'.damping
        BY <1>6 DEF ServerTrips, TypeOK, Snap
    <2> QED BY <1>6, <2>1 DEF ServerTrips, At
<1>7. CASE ServerPushesArm
    <2>1. ~commanded => AtStartOrLimp(arm_cmd')
        BY <1>7, LimpIsLimp DEF ServerPushesArm, At
    <2>2. tripped => ~arm_cmd'.stiff
        BY <1>7 DEF ServerPushesArm, At, Limp
    <2> QED BY <1>7, <2>1, <2>2 DEF ServerPushesArm, At
<1>8. CASE ServerPushesGripper
    BY <1>8 DEF ServerPushesGripper, At
<1> QED BY <1>1, <1>2, <1>3, <1>4, <1>5, <1>6, <1>7, <1>8 DEF ServerStep

LEMMA MotorKeeps ==
    ASSUME PyInvariant, MotorStep
    PROVE  InSession' /\ NothingOldAboard' /\ DampingKnown'
<1> USE DEF PyInvariant, InSession, NothingOldAboard, DampingKnown, Aboard, AtStartOrLimp
<1>1. CASE MotorSnapshot
    <2>1. [arm |-> arm_cmd, grip |-> grip_cmd].arm = arm_cmd
        OBVIOUS
    <2>2. motor' = "send" => sending'.arm = arm_cmd
        BY <1>1, <2>1 DEF MotorSnapshot
    <2>3. session # "off"
        BY <1>1 DEF MotorSnapshot
    <2>4. motor = "snapshot" /\ UNCHANGED <<session, server, commanded, q_des, snap, arm_cmd, drive,
                                            tripped, damping_mode>>
        BY <1>1 DEF MotorSnapshot
    <2> QED BY <2>2, <2>3, <2>4
<1>2. CASE MotorSend
    BY <1>2 DEF MotorSend
<1>3. CASE MotorPublish
    BY <1>3 DEF MotorPublish
<1> QED BY <1>1, <1>2, <1>3 DEF MotorStep

LEMMA PyInductive ==
    ASSUME PyInvariant, [Next]_vars PROVE PyInvariant'
<1>1. TypeOK'
    BY TypeInductive DEF PyInvariant
<1>2. InSession' /\ NothingOldAboard' /\ DampingKnown'
    <2>1. CASE UNCHANGED vars
        BY <2>1 DEF vars, PyInvariant, InSession, NothingOldAboard, DampingKnown, Aboard
    <2> QED BY <2>1, SessionStep, CommandStep, ServerKeeps, MotorKeeps DEF Next
<1> QED BY <1>1, <1>2 DEF PyInvariant

LEMMA PyInvariantHolds == Spec => []PyInvariant
<1>1. PyInvariant /\ [Next]_vars => PyInvariant'
    BY PyInductive
<1> QED BY <1>1, PyInit, PTL DEF Spec

(* The arm is held where it was found until it is commanded, whatever any
   earlier session left in the buffers.  This is the arm alone: the gripper
   is not held, as GripperHeldAtStart's counterexample shows.               *)
THEOREM HoldCorrect == Spec => []HoldsUntilCommanded
<1>1. PyInvariant => HoldsUntilCommanded
    BY DEF PyInvariant, NothingOldAboard, AtStartOrLimp, HoldsUntilCommanded
<1> QED BY <1>1, PyInvariantHolds, PTL

(* Once pushed, damping keeps the arm's set-point without stiffness until the
   next joint command, across sessions too.                                 *)
THEOREM DampingCorrect == Spec => []DampingHolds
<1>1. PyInvariant => DampingHolds
    BY DEF PyInvariant, DampingKnown, DampingHolds
<1> QED BY <1>1, PyInvariantHolds, PTL
================================================================================
