--------------------------------- MODULE DmCan ---------------------------------
(***************************************************************************)
(* The serial driver DM_CAN.py (class MotorControl), as its callers        *)
(* motor_chain.py and follower.py use it, with the motors behind it.       *)
(*                                                                         *)
(* A call is a record [op, m, arg].  Its steps are those another thread    *)
(* can get between: the two halves of the frame that all MotorControl      *)
(* objects share, the copy handed to write(), the write, and the reads.    *)
(* A reply is two tokens on the wire, its first and its second part, since *)
(* a read takes whatever has arrived and may split it.                     *)
(* Motors, adapter and power are external.                                 *)
(***************************************************************************)
EXTENDS Naturals, Sequences, SequencesExt

CONSTANTS
    Arm,        \* the joints, in the order of the code's dictionary
    gripper,    \* the last motor
    Threads,    \* host threads that use one MotorControl object
    MaxWire,    \* bound on the reply tokens in flight; more are lost
    MaxFaults   \* bound on the faults of adapter and power, and on the times
                \* another object gets in between

Order == Append(Arm, gripper)
Motors == ToSet(Order)
NoMotor == "none"

(* The motors are told apart: the gripper is none of the joints.            *)
ASSUME DriverAssumption ==
    /\ Arm \in Seq(Motors) /\ gripper \notin ToSet(Arm) /\ NoMotor \notin Motors
    /\ MaxWire \in Nat /\ MaxFaults \in Nat

(* The CAN id a call uses: the motor's own, an offset for the set-points of
   a mode, or the common id 0x7FF with the motor named in the data.         *)
ModeOf == [mit |-> "MIT", posvel |-> "POS_VEL", vel |-> "VEL", emit |-> "Torque_Pos"]
SetPoints == DOMAIN ModeOf
Commands == {"enable", "disable", "zero"}
ParamCalls == {"read", "switch", "change"}
StatusCalls == {"refresh", "home"}
Ops == SetPoints \cup Commands \cup ParamCalls \cup StatusCalls
Modes == {ModeOf[op] : op \in SetPoints}
Call(op, m, arg) == [op |-> op, m |-> m, arg |-> arg]
NoCall == Call("none", NoMotor, "none")
IdOf(c) ==
    IF c.op \in ParamCalls \cup StatusCalls THEN [off |-> "param", m |-> NoMotor]
    ELSE [off |-> IF c.op \in SetPoints \ {"mit"} THEN c.op ELSE "own", m |-> c.m]
Composed(c) == [id |-> IdOf(c), data |-> c]

VARIABLES
    frame,      \* send_data_frame, a class attribute
    out,        \* per thread: the bytes it passed to write()
    known,      \* motors_map
    param,      \* per motor: temp_param_dict[CTRL_MODE]
    torque,     \* the gripper's state_tau, against the homing threshold
    data_save,  \* what recv() could not parse yet
    port_open,  \* serial_.is_open
    call, at,   \* per thread: the call it is in, and where
    ret,        \* per thread: the result of its last parameter call
    wire,       \* reply tokens that have not been read
    on, mode,   \* per motor: powered by its driver; its control mode
    power,      \* the arm's motor supply
    adapter,    \* "ok"; "wedged": it takes no bytes; "gone": unplugged
    faults,     \* faults so far
    answered,   \* motors that answered a parameter call since the port was opened (history)
    clean,      \* the motors had power ever since the port was opened (history)
    mixed       \* since the port was opened, a thread wrote another frame than
                \* the one its call composed (history)

host  == <<frame, out, known, param, torque, data_save, port_open>>
calls == <<call, at, ret>>
motors == <<on, mode, power>>
history == <<answered, clean, mixed>>
driver == <<host, calls, wire, motors, adapter, faults, history>>

DriverCalls == [op : {"switch"}, m : Motors, arg : Modes]
               \cup [op : Ops \ {"switch"}, m : Motors, arg : {"none"}]
Calls == DriverCalls \cup {NoCall}
Frames == [id : [off : {"own", "vel", "posvel", "emit", "param"}, m : Motors \cup {NoMotor}],
           data : Calls]
Replies == [m : Motors, about : {"status"}, val : {"low", "high"}]
           \cup [m : Motors, about : {"mode"}, val : Modes]
           \cup [m : Motors, about : {"other"}, val : {"none"}]
Tokens == [r : Replies, last : BOOLEAN]

DriverTypeOK ==
    /\ frame \in Frames /\ out \in [Threads -> Frames]
    /\ known \subseteq Motors
    /\ param \in [Motors -> Modes \cup {"none"}]
    /\ torque \in {"low", "high"}
    /\ data_save \in Seq(Tokens) /\ Len(data_save) <= 2
    /\ port_open \in BOOLEAN
    /\ call \in [Threads -> Calls]
    /\ at \in [Threads -> {"idle", "id", "data", "copy", "write", "reply", "done", "raised"}]
    /\ ret \in [Threads -> Modes \cup {"none"}]
    /\ wire \in Seq(Tokens) /\ Len(wire) <= MaxWire
    /\ on \in [Motors -> BOOLEAN] /\ mode \in [Motors -> Modes]
    /\ power \in BOOLEAN /\ adapter \in {"ok", "wedged", "gone"}
    /\ faults \in 0..MaxFaults
    /\ answered \subseteq Motors /\ clean \in BOOLEAN /\ mixed \in BOOLEAN

NoFrame == [id |-> IdOf(Call("refresh", NoMotor, "none")), data |-> NoCall]

(* Motor(): a fresh object knows no parameter and reads zero.               *)
FreshParams == [m \in Motors |-> "none"]
FreshTorque == "low"

DriverInit ==
    /\ frame = NoFrame /\ out = [t \in Threads |-> NoFrame]
    /\ known = {} /\ param = FreshParams /\ torque = FreshTorque
    /\ data_save = <<>> /\ port_open = FALSE
    /\ call = [t \in Threads |-> NoCall] /\ at = [t \in Threads |-> "idle"]
    /\ ret = [t \in Threads |-> "none"]
    /\ wire = <<>>
    /\ on = [m \in Motors |-> FALSE] /\ mode = [m \in Motors |-> "MIT"]
    /\ power = TRUE /\ adapter = "ok" /\ faults = 0
    /\ answered = {} /\ clean = FALSE /\ mixed = FALSE

-----------------------------------------------------------------------------
(* Parsing.  A packet is a first part followed by its last part, named by
   the place of the last; everything up to the last packet is consumed, the
   rest is kept.                                                            *)
PacketEnds(s) == {i \in 2..Len(s) : s[i].last /\ ~s[i - 1].last}
RemainderKeepsPackets(s) == s
Remainder(s) == SubSeq(s, 1 + Max(PacketEnds(s) \cup {0}), Len(s))

(* Of the packets about one value, the last overwrites what came before.

   __process_packet(): every packet of a known motor is taken for a status.
   The mode of a late parameter reply reads as a torque far below zero.     *)
ProcessPackets(s) ==
    LET mine == {i \in PacketEnds(s) : s[i].r.m = gripper /\ gripper \in known}
        AsStatus(r) == IF r.about = "status" THEN r.val ELSE "low"
    IN IF mine = {} THEN torque ELSE AsStatus(s[Max(mine)].r)

(* __process_set_param_packet(): status packets are dropped (one whose bytes
   happen to be those of a parameter reply would be taken for one; left out). *)
ModePackets(s, m) ==
    {i \in PacketEnds(s) : s[i].r.m = m /\ m \in known /\ s[i].r.about = "mode"}
ProcessParams(s) ==
    [m \in Motors |-> IF ModePackets(s, m) = {} THEN param[m]
                      ELSE s[Max(ModePackets(s, m))].r.val]
-----------------------------------------------------------------------------
(* The motors (external).  Who a frame speaks to, and what it tells him: the
   halves of a frame that two threads composed need not belong together.    *)
Addressee(f) ==
    IF f.id.off # "param" THEN f.id.m
    ELSE IF f.data.op \in ParamCalls \cup StatusCalls THEN f.data.m ELSE NoMotor
Meaning(f) ==
    IF f.id.off = "param" \/ (f.id.off = "own" /\ f.data.op \in Commands)
    THEN f.data.op ELSE "set-point"

RepliesTo(f) ==
    LET m == Addressee(f)  op == Meaning(f)
        Reply(about, val) == [m |-> m, about |-> about, val |-> val]
    IN CASE op = "read"   -> {Reply("mode", mode[m])}
         [] op = "switch" -> {Reply("mode", f.data.arg)}
         [] op = "change" -> {Reply("other", "none")}
         [] OTHER -> {Reply("status", "low")}
                     \cup (IF m = gripper THEN {Reply("status", "high")} ELSE {})

Obey(f) ==
    LET m == Addressee(f)  op == Meaning(f)
    IN IF ~power \/ m = NoMotor THEN UNCHANGED <<on, mode, wire, answered>>
       ELSE /\ on' = [on EXCEPT ![m] = (@ \/ op = "enable") /\ op # "disable"]
            /\ mode' = [mode EXCEPT ![m] = IF op = "switch" THEN f.data.arg ELSE @]
            /\ \E r \in RepliesTo(f), heard \in BOOLEAN :
                 IF heard /\ Len(wire) + 2 <= MaxWire
                 THEN /\ wire' = wire \o <<[r |-> r, last |-> FALSE], [r |-> r, last |-> TRUE]>>
                      /\ answered' = IF r.about = "status" THEN answered ELSE answered \cup {m}
                 ELSE UNCHANGED <<wire, answered>>

Fault(f) == faults < MaxFaults /\ f /\ faults' = faults + 1
Wedge   == Fault(adapter = "ok" /\ adapter' = "wedged") /\ UNCHANGED <<power, on, clean>>
Unplug  == Fault(adapter # "gone" /\ adapter' = "gone") /\ UNCHANGED <<power, on, clean>>
Drain   == adapter = "wedged" /\ adapter' = "ok" /\ UNCHANGED <<power, on, clean, faults>>
CutPower == /\ Fault(power /\ power' = FALSE) /\ UNCHANGED adapter
            /\ on' = [m \in Motors |-> FALSE] /\ clean' = FALSE
RestorePower == ~power /\ power' = TRUE /\ UNCHANGED <<adapter, on, clean, faults>>
BusStep == /\ Wedge \/ Unplug \/ Drain \/ CutPower \/ RestorePower
           /\ UNCHANGED <<host, calls, wire, mode, answered, mixed>>
-----------------------------------------------------------------------------
(* MotorControl.__init__(): the port is opened anew, which flushes it.      *)
OpenBus ==
    /\ adapter # "gone"
    /\ port_open' = TRUE /\ known' = {} /\ data_save' = <<>>
    /\ wire' = <<>> /\ answered' = {} /\ clean' = power /\ mixed' = FALSE

Enter(t, c) == call' = [call EXCEPT ![t] = c] /\ at' = [at EXCEPT ![t] = "id"]
Leave(t) == call' = [call EXCEPT ![t] = NoCall] /\ at' = [at EXCEPT ![t] = "idle"]
Goto(t, from, to) == at[t] = from /\ at' = [at EXCEPT ![t] = to]

(* controlMIT(), control_Pos_Vel(), control_Vel(), control_pos_force():
   a motor that was never added is refused with a message.                  *)
Refuse(t) ==
    /\ call[t].op \in SetPoints /\ call[t].m \notin known
    /\ Goto(t, "id", "done")
    /\ UNCHANGED <<host, call, ret, wire, motors, adapter, faults, history>>

SendId(t) ==
    /\ call[t].op \in SetPoints => call[t].m \in known
    /\ Goto(t, "id", "data")
    /\ frame' = [frame EXCEPT !.id = IdOf(call[t])]
    /\ UNCHANGED <<out, known, param, torque, data_save, port_open, call, ret, wire,
                   motors, adapter, faults, history>>

SendData(t) ==
    /\ Goto(t, "data", "copy")
    /\ frame' = [frame EXCEPT !.data = call[t]]
    /\ UNCHANGED <<out, known, param, torque, data_save, port_open, call, ret, wire,
                   motors, adapter, faults, history>>

SendCopy(t) ==
    /\ Goto(t, "copy", "write")
    /\ out' = [out EXCEPT ![t] = frame]
    /\ UNCHANGED <<frame, known, param, torque, data_save, port_open, call, ret, wire,
                   motors, adapter, faults, history>>

(* serial_.write() has no timeout: it waits for a wedged adapter.           *)
Write(t) ==
    /\ adapter = "ok" /\ port_open
    /\ Goto(t, "write", "reply")
    /\ Obey(out[t])
    /\ mixed' = (mixed \/ out[t] # Composed(call[t]))
    /\ out' = [out EXCEPT ![t] = NoFrame]
    /\ UNCHANGED <<frame, known, param, torque, data_save, port_open, call, ret, power,
                   adapter, faults, clean>>

(* Reading or writing a closed port or an unplugged adapter raises.         *)
Raise(t) ==
    /\ adapter = "gone" \/ ~port_open
    /\ at[t] \in {"write", "reply"} /\ at' = [at EXCEPT ![t] = "raised"]
    /\ out' = [out EXCEPT ![t] = NoFrame]
    /\ UNCHANGED <<frame, known, param, torque, data_save, port_open, call, ret, wire, motors, adapter, faults, history>>

(* recv(): takes what has arrived, after what it kept from the last time.   *)
Recv(t) ==
    /\ adapter # "gone" /\ port_open
    /\ call[t].op \notin ParamCalls
    /\ Goto(t, "reply", "done")
    /\ \E n \in 0..Len(wire) :
         LET s == data_save \o SubSeq(wire, 1, n)
         IN /\ torque' = ProcessPackets(s)
            /\ data_save' = Remainder(s)
            /\ wire' = SubSeq(wire, n + 1, Len(wire))
    /\ UNCHANGED <<frame, out, known, param, port_open, call, ret, motors, adapter,
                   faults, history>>

(* One turn of the retry loops of read_motor_param(), switchControlMode()
   and change_motor_param(): recv_set_param_data(), then a look at
   temp_param_dict.  What was kept unparsed is replaced, not prepended.
   change_motor_param() stops as soon as it finds a value of its own
   parameter, be it an older one; nobody reads its result.                  *)
Poll(t) ==
    /\ adapter # "gone" /\ port_open
    /\ at[t] = "reply" /\ call[t].op \in ParamCalls
    /\ \E n \in 0..Len(wire) :
         LET s == SubSeq(wire, 1, n)
             value == param'[call[t].m]
         IN /\ param' = ProcessParams(s)
            /\ data_save' = Remainder(s)
            /\ wire' = SubSeq(wire, n + 1, Len(wire))
            /\ \/ /\ value # "none" \/ call[t].op = "change"
                  /\ at' = [at EXCEPT ![t] = "done"]
                  /\ ret' = [ret EXCEPT ![t] = value]
               \/ /\ value = "none" \/ call[t].op = "change"
                  /\ UNCHANGED <<at, ret>>
    /\ UNCHANGED <<frame, out, known, torque, port_open, call, motors, adapter,
                   faults, history>>

(* The retries are used up: everything that came was read, for over 1 s.    *)
GiveUp(t) ==
    /\ adapter # "gone" /\ port_open
    /\ call[t].op \in ParamCalls /\ wire = <<>>
    /\ param[call[t].m] = "none"
    /\ Goto(t, "reply", "done")
    /\ ret' = [ret EXCEPT ![t] = "none"]
    /\ UNCHANGED <<host, call, wire, motors, adapter, faults, history>>

CallStep(t) ==
    \/ Refuse(t) \/ SendId(t) \/ SendData(t) \/ SendCopy(t) \/ Write(t)
    \/ Raise(t) \/ Recv(t) \/ Poll(t) \/ GiveUp(t)
================================================================================
