------------------------------- MODULE SerialArm -------------------------------
(***************************************************************************)
(* The two owners of the serial driver: DK1MotorChain (motor_chain.py),    *)
(* with its 250 Hz motor thread, and DK1Follower in pos_vel mode           *)
(* (follower.py), which calls the driver from the session's thread and,   *)
(* through get_proprioception(), from a publisher that reads the motors.   *)
(*                                                                         *)
(* A method is a script, the sequence of driver calls it makes; an         *)
(* exception empties it.  Other MotorControl objects of the process share  *)
(* nothing with this one but the frame.                                    *)
(***************************************************************************)
EXTENDS DmCan

CONSTANTS
    Kinds,          \* which owners to explore: "chain", "follower"
    Foreign,        \* per kind: calls that other MotorControl objects of the process make
    ReadDuring,     \* the phases in which the publisher may begin a read
    Refreshes,      \* status requests before a motor is detected: 3
    MaxSessions     \* bound on the times the port is opened

(* The session's thread, and the second one: the chain's motor thread or the
   follower's publisher.                                                    *)
ASSUME OwnerAssumption ==
    /\ Threads = {"user", "motor"}
    /\ Kinds \subseteq {"chain", "follower"}
    /\ Foreign \in [Kinds -> SUBSET DriverCalls]
    /\ ReadDuring \subseteq {"start", "idle", "act", "off"}
    /\ Refreshes \in Nat /\ MaxSessions \in Nat

VARIABLES
    kind,       \* the owner of the port
    running,    \* chain: _running; follower: bus_connected
    release,    \* follower: _disable_torque_on_disconnect
    script,     \* per thread: the calls still to make
    phase,      \* the session's thread: the method it is in
    worker,     \* the chain's motor thread
    ready,      \* start() or configure() completed on the open port (history)
    sessions,   \* times the port was opened
    timed_out   \* the last stop() gave up waiting for the motor thread (history)

owner == <<kind, running, release, script, phase, worker, ready, sessions, timed_out>>
vars  == <<driver, owner>>

Adds == [op : {"add"}, m : Motors, arg : {"none"}]

TypeOK ==
    /\ DriverTypeOK
    /\ kind \in Kinds /\ running \in BOOLEAN /\ release \in BOOLEAN
    /\ script \in [Threads -> Seq(DriverCalls \cup Adds)]
    /\ phase \in {"idle", "start", "act", "join", "off"}
    /\ worker \in {"none", "loop", "exited"}
    /\ ready \in BOOLEAN /\ sessions \in 0..MaxSessions /\ timed_out \in BOOLEAN

Init ==
    /\ DriverInit
    /\ kind \in Kinds /\ running = FALSE /\ release = FALSE
    /\ script = [t \in Threads |-> <<>>]
    /\ phase = "idle" /\ worker = "none" /\ ready = FALSE
    /\ sessions = 0 /\ timed_out = FALSE
-----------------------------------------------------------------------------
Do(op, m) == Call(op, m, "none")
Switch(m, md) == Call("switch", m, md)
ForEach(ms, S(_)) == FlattenSeq([i \in DOMAIN ms |-> S(ms[i])])

(* addMotor(), some refreshes, and a parameter read that must be answered.  *)
Detect(m) == <<Do("add", m)>> \o [i \in 1..Refreshes |-> Do("refresh", m)] \o <<Do("read", m)>>

(* _calibrate_gripper(), and the end of the follower's configure(): open the
   gripper until its torque rises, make that its zero.                      *)
HomingLeavesLimp ==
    <<Do("vel", gripper), Do("home", gripper), Do("vel", gripper), Do("disable", gripper),
      Do("zero", gripper), Switch(gripper, "Torque_Pos")>>
Homing == <<Do("vel", gripper), Do("home", gripper), Do("vel", gripper),
            Do("disable", gripper), Do("zero", gripper), Do("enable", gripper),
            Switch(gripper, "Torque_Pos")>>

ChainConfigure ==
    ForEach(Order, Detect)
    \o ForEach(Arm, LAMBDA m : <<Switch(m, "MIT"), Do("enable", m)>>)
    \o ForEach(Arm, LAMBDA m : <<Do("refresh", m)>>)
    \o <<Switch(gripper, "VEL"), Do("enable", gripper)>> \o Homing
    \o <<Do("refresh", gripper)>>

FollowerConfigure ==
    ForEach(Order, LAMBDA m : Detect(m) \o <<Switch(m, "POS_VEL"), Do("enable", m)>>)
    \o ForEach(Order, LAMBDA m : <<Do("change", m)>>)
    \o <<Switch(gripper, "VEL")>> \o Homing

MotorCycle == ForEach(Arm, LAMBDA m : <<Do("mit", m)>>) \o <<Do("emit", gripper)>>
SendAction == ForEach(Arm, LAMBDA m : <<Do("posvel", m)>>)
              \o <<Do("refresh", gripper), Do("emit", gripper)>>
ReadMotors == ForEach(Order, LAMBDA m : <<Do("refresh", m)>>)
DisableArm == ForEach(Arm, LAMBDA m : <<Do("disable", m)>>)
DisableAll == ForEach(Order, LAMBDA m : <<Do("disable", m)>>)

Run(t, s) == script' = [script EXCEPT ![t] = s]
Pop(t) == Run(t, Tail(script[t]))

(* The Motor objects a configure() starts from: the chain makes them anew,
   the follower made them in its constructor.                               *)
MotorObjectsKept == UNCHANGED <<param, torque>>
MotorObjects ==
    IF kind = "chain" THEN param' = FreshParams /\ torque' = FreshTorque
    ELSE UNCHANGED <<param, torque>>

(* start(); the follower's connect() in pos_vel mode, which counts as
   connected from here on.  A restart is explored behind an exited motor
   thread, a reconnect behind a publisher between two reads.                *)
Start ==
    /\ phase = "idle" /\ ~running /\ worker # "loop" /\ script["motor"] = <<>>
    /\ sessions < MaxSessions /\ sessions' = sessions + 1
    /\ OpenBus /\ MotorObjects
    /\ running' = (kind = "follower")
    /\ release' = FALSE /\ timed_out' = FALSE
    /\ phase' = "start" /\ ready' = FALSE
    /\ Run("user", IF kind = "chain" THEN ChainConfigure ELSE FollowerConfigure)
    /\ UNCHANGED <<frame, out, calls, motors, adapter, faults, kind, worker>>

Started ==
    /\ phase = "start" /\ script["user"] = <<>>
    /\ phase' = "idle" /\ running' = TRUE /\ ready' = TRUE
    /\ worker' = IF kind = "chain" THEN "loop" ELSE worker
    /\ UNCHANGED <<driver, kind, release, script, sessions, timed_out>>

(* The follower's send_action() and get_observation() on the serial path.   *)
Act ==
    /\ kind = "follower" /\ phase = "idle" /\ running
    /\ phase' = "act"
    /\ \E s \in {SendAction, ReadMotors} : Run("user", s)
    /\ UNCHANGED <<driver, kind, running, release, worker, ready, sessions, timed_out>>

Acted ==
    /\ phase = "act" /\ script["user"] = <<>>
    /\ phase' = "idle"
    /\ UNCHANGED <<driver, kind, running, release, script, worker, ready, sessions, timed_out>>

(* get_proprioception(), on the publisher's thread: refused only while the
   bus is down.  It takes no lock.                                          *)
Observe ==
    /\ kind = "follower" /\ running /\ phase \in ReadDuring
    /\ script["motor"] = <<>>
    /\ Run("motor", ReadMotors)
    /\ UNCHANGED <<driver, kind, running, release, phase, worker, ready, sessions, timed_out>>

(* Another MotorControl object, the other arm's say, writes the id or the
   data of its own call into the frame of the class.  That matters only
   while a call of this object is between composing a frame and copying it;
   MaxFaults bounds it with the faults.                                     *)
OtherObject ==
    /\ \E t \in Threads : at[t] \in {"data", "copy"}
    /\ \E c \in Foreign[kind] : \/ frame' = [frame EXCEPT !.id = IdOf(c)]
                                \/ frame' = [frame EXCEPT !.data = c]
    /\ Fault(TRUE)
    /\ UNCHANGED <<out, known, param, torque, data_save, port_open, calls, wire, motors,
                   adapter, history, owner>>

SetRelease ==
    /\ kind = "follower" /\ phase = "idle" /\ running
    /\ release' = ~release
    /\ UNCHANGED <<driver, kind, running, script, phase, worker, ready, sessions, timed_out>>

(* stop(): the flag, then the join; the follower's _disconnect_bus() has no
   thread to wait for.                                                      *)
Stop ==
    /\ phase = "idle" /\ running
    /\ IF kind = "chain"
       THEN running' = FALSE /\ phase' = "join" /\ UNCHANGED script
       ELSE /\ phase' = "off" /\ UNCHANGED running
            /\ Run("user", IF release THEN DisableAll ELSE <<>>)
    /\ ready' = FALSE
    /\ UNCHANGED <<driver, kind, release, worker, sessions, timed_out>>

JoinedAtOnce ==
    /\ phase = "join"
    /\ phase' = "off" /\ Run("user", DisableAll)
    /\ UNCHANGED <<driver, kind, running, release, worker, ready, sessions, timed_out>>
Joined ==
    /\ phase = "join" /\ worker = "exited"
    /\ phase' = "off" /\ Run("user", DisableAll)
    /\ UNCHANGED <<driver, kind, running, release, worker, ready, sessions, timed_out>>

(* join(timeout=2.0): a cycle takes 4 ms, unless a write does not return.   *)
JoinTimeout ==
    /\ phase = "join" /\ adapter = "wedged" /\ at["motor"] = "write"
    /\ phase' = "off" /\ Run("user", DisableAll)
    /\ timed_out' = TRUE
    /\ UNCHANGED <<driver, kind, running, release, worker, ready, sessions>>

Stopped ==
    /\ phase = "off" /\ script["user"] = <<>>
    /\ port_open' = FALSE
    /\ phase' = "idle" /\ running' = FALSE
    /\ UNCHANGED <<frame, out, known, param, torque, data_save, calls, wire, motors,
                   adapter, faults, history, kind, release, script, worker, ready, sessions, timed_out>>
-----------------------------------------------------------------------------
(* A thread makes the next call of its script.                              *)
NextCall(t) ==
    /\ at[t] = "idle" /\ script[t] # <<>>
    /\ LET c == Head(script[t])
       IN IF c.op = "add"
          THEN known' = known \cup {c.m} /\ Pop(t) /\ UNCHANGED calls
          ELSE Enter(t, c) /\ UNCHANGED <<known, ret, script>>
    /\ UNCHANGED <<frame, out, param, torque, data_save, port_open, wire, motors, adapter,
                   faults, history, kind, running, release, phase, worker, ready, sessions, timed_out>>

(* A call returns.  A motor whose parameter could not be read ends the
   method with an exception; homing repeats until the torque is high.       *)
Unanswered(t) == call[t].op = "read" /\ ret[t] = "none"
StillOpening(t) == call[t].op = "home" /\ torque # "high"
Returned(t) ==
    /\ at[t] = "done" /\ ~Unanswered(t)
    /\ IF StillOpening(t) THEN Enter(t, call[t]) /\ UNCHANGED script
       ELSE Leave(t) /\ Pop(t)
    /\ ret' = [ret EXCEPT ![t] = "none"]
    /\ UNCHANGED <<host, wire, motors, adapter, faults, history,
                   kind, running, release, phase, worker, ready, sessions, timed_out>>

(* An exception: stop() swallows it and goes on with the next motor; it ends
   the motor thread with _running still set; any other method, a read of the
   publisher's too, it leaves with port, flags and motors as they are.      *)
Failed(t) ==
    /\ at[t] = "raised" \/ (at[t] = "done" /\ Unanswered(t))
    /\ Leave(t)
    /\ IF t = "user" /\ phase = "off" /\ kind = "chain" THEN Pop(t) ELSE Run(t, <<>>)
    /\ worker' = IF t = "motor" /\ kind = "chain" THEN "exited" ELSE worker
    /\ phase' = IF t = "motor" \/ (phase = "off" /\ kind = "chain") THEN phase ELSE "idle"
    /\ UNCHANGED <<host, ret, wire, motors, adapter, faults, history,
                   kind, running, release, ready, sessions, timed_out>>

(* _motor_loop(): _running is looked at between cycles only.                *)
Cycle ==
    /\ worker = "loop" /\ at["motor"] = "idle" /\ script["motor"] = <<>>
    /\ IF running THEN Run("motor", MotorCycle) /\ UNCHANGED worker
       ELSE worker' = "exited" /\ UNCHANGED script
    /\ UNCHANGED <<driver, kind, running, release, phase, ready, sessions, timed_out>>

ThreadStep(t) ==
    \/ CallStep(t) /\ UNCHANGED owner
    \/ NextCall(t) \/ Returned(t) \/ Failed(t)

Next ==
    \/ Start \/ Started \/ Act \/ Acted \/ SetRelease \/ Stop \/ Joined \/ JoinTimeout
    \/ Stopped \/ Cycle \/ Observe \/ OtherObject
    \/ \E t \in Threads : ThreadStep(t)
    \/ BusStep /\ UNCHANGED owner

Spec == Init /\ [][Next]_vars
-----------------------------------------------------------------------------
(* A motor whose detection the chain has passed answered a parameter read on
   this very connection: an old answer is never taken for a new one, however
   replies were lost, delayed or split.                                     *)
Detected == {m \in known : \A i \in DOMAIN script["user"] : script["user"][i] # Do("read", m)}
ConnectedMeansAnswered == phase = "start" => Detected \subseteq answered
DetectedMeansAnswered == kind = "chain" => ConnectedMeansAnswered

(* Whatever replies were lost, late, split or misread during the set-up:
   once it is complete, and unless power failed or a frame was mixed up,
   every motor is energised and in the mode whose set-points it gets.       *)
ArmMode == IF kind = "chain" THEN "MIT" ELSE "POS_VEL"
ReadyMeansReady ==
    ready /\ clean /\ ~mixed =>
        \A m \in Motors : on[m] /\ mode[m] = IF m = gripper THEN "Torque_Pos" ELSE ArmMode

(* stop(), and a disconnect() with the release armed, leave no motor under
   power, unless stop() ran into its timeout, a frame was mixed up or the
   adapter is unplugged.                                                    *)
StopDisables ==
    [][port_open /\ ~port_open' /\ (kind = "chain" \/ release)
       /\ ~timed_out /\ ~mixed /\ adapter # "gone" => \A m \in Motors : ~on'[m]]_vars

(* The chain's two threads share the frame without a lock: what keeps them
   apart is the protocol of start(), the motor thread and stop().  Alone in
   its process, the chain puts no frame on the bus but those its calls
   composed, unless a stop() went on beside a thread it could not wait for. *)
FramesUnmixed == kind = "chain" /\ Foreign[kind] = {} /\ mixed => timed_out

(* The follower has no such protocol.  get_proprioception() is documented as
   an observation only: beside a send_action() it asks the motors for their
   state, and sends nothing else.                                           *)
ObservationsOnlyAsk ==
    [][kind = "follower" /\ ready /\ phase = "act" /\ at["motor"] = "write" /\ at'["motor"] = "reply"
       => Meaning(out["motor"]) = "refresh"]_vars
================================================================================
