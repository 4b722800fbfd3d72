-------------------------------- MODULE HostArms -------------------------------
(***************************************************************************)
(* The follower arms as the host's Python sees them: DK1Follower over      *)
(* DK1RobotRT over the native loop, alone with its cameras ("single") or   *)
(* as the two arms of a BiDK1Follower that owns the cameras ("pair",       *)
(* "teleop").  One thread makes the session's calls, a second publishes    *)
(* the arms' state; wedged buses and dead cameras may come at any moment.  *)
(*                                                                         *)
(* A call is a script of steps, one per statement whose effect another     *)
(* thread or a later call can see; a step that raises ends the script, or  *)
(* goes on with the except block.  A loop is the number of the native      *)
(* object; rt[s] is the wrapper in _rt_robot, named by the loop it made.   *)
(* Inside the loop, stop() is RtLoop's: here it joins or abandons.         *)
(***************************************************************************)
EXTENDS Integers, Sequences, FiniteSets

CONSTANTS
    Kinds,          \* the set-ups to look at
    Cameras,
    Release,        \* config.disable_torque_on_disconnect
    MaxLoops        \* bound on the native loops made

ASSUME HostAssumption ==
    /\ Kinds \subseteq {"single", "pair", "teleop"} /\ Kinds # {}
    /\ Release \in BOOLEAN /\ MaxLoops \in Nat

None == 0
Arms == {"left", "right"}

VARIABLES
    kind, old_build,    \* the set-up; an extension without the release toggle
    loops,              \* the native loops made so far
    rt, bus_connected,  \* per arm: _rt_robot and bus_connected of its follower
    power, wedged,      \* per arm: its motors and its bus
    cams_on,            \* cameras that are connected
    call, todo, raised, \* the session's call, the steps left, an exception is out
    asked, took,        \* the release toggle's argument, the arms that took it
    scratch,            \* nothing was connected when the call began (history)
    promise,            \* per arm: what the next disconnect() owes (history)
    pub, shown          \* the publisher's read, and what it got

arms    == <<loops, rt, bus_connected, power>>
fixed   == <<kind, old_build>>
outside == <<wedged, cams_on>>
session == <<call, todo, raised, asked, took, scratch, promise>>
readers == <<pub, shown>>
hostVars == <<fixed, arms, outside, session, readers>>

Loop == [arm : Arms, thread : {"none", "live", "gone"}, release : BOOLEAN,
         wrapped : BOOLEAN,     \* _loop of its wrapper
         kept : BOOLEAN]        \* in _ABANDONED_LOOPS

Do(op, s) == [op |-> op, arm |-> s]
Ops == {"guard", "new", "start", "up", "cameras", "check", "stop", "drop", "clear",
        "cameras off", "take", "send"}
Steps == [op : Ops, arm : Arms]
Idle == [at |-> "idle", arm |-> "left", holds |-> None]

HostTypeOK ==
    /\ kind \in Kinds /\ old_build \in BOOLEAN
    /\ Len(loops) <= MaxLoops /\ \A l \in DOMAIN loops : loops[l] \in Loop
    /\ rt \in [Arms -> {None} \cup DOMAIN loops] /\ bus_connected \in [Arms -> BOOLEAN]
    /\ \A s \in Arms : rt[s] # None => loops[rt[s]].arm = s
    /\ \A s \in Arms : bus_connected[s] => rt[s] # None
    /\ power \in [Arms -> {"limp", "stiff"}] /\ wedged \in [Arms -> BOOLEAN]
    /\ cams_on \subseteq Cameras
    /\ call \in {"none", "connect", "disconnect", "toggle", "rollback", "send"}
    /\ Len(todo) <= 9 /\ \A i \in DOMAIN todo : todo[i] \in Steps
    /\ raised \in BOOLEAN /\ asked \in BOOLEAN /\ took \subseteq Arms
    /\ scratch \in BOOLEAN /\ promise \in [Arms -> BOOLEAN]
    /\ pub \in [at : {"idle", "checked", "picked"}, arm : Arms, holds : {None} \cup DOMAIN loops]
    /\ shown \in {"none", "state", "zeros", "error"}

HostInit ==
    /\ kind \in Kinds /\ old_build \in BOOLEAN
    /\ loops = <<>> /\ rt = [s \in Arms |-> None] /\ bus_connected = [s \in Arms |-> FALSE]
    /\ power = [s \in Arms |-> "limp"] /\ wedged = [s \in Arms |-> FALSE]
    /\ cams_on = {}
    /\ call = "none" /\ todo = <<>> /\ raised = FALSE
    /\ asked = Release /\ took = {} /\ scratch = TRUE
    /\ promise = [s \in Arms |-> Release]
    /\ pub = Idle /\ shown = "none"

Mine == IF kind = "single" THEN {"left"} ELSE Arms
ArmUp(s) == bus_connected[s] \/ rt[s] # None
Live(l) == loops[l].thread = "live"
Running(s) == IF rt[s] = None THEN FALSE ELSE Live(rt[s])
-----------------------------------------------------------------------------
(* The scripts.                                                             *)
ArmConnect(s) == <<Do("guard", s), Do("new", s), Do("start", s), Do("up", s)>>
DisconnectBusDropFirst(s) == <<Do("drop", s), Do("stop", s), Do("clear", s)>>
DisconnectBus(s) == <<Do("stop", s), Do("drop", s), Do("clear", s)>>
ArmDisconnect(s) == <<Do("check", s)>> \o DisconnectBus(s)
Both(script) ==
    IF kind = "single" THEN script["left"] ELSE script["left"] \o script["right"]

Connect == Both([s \in Arms |-> ArmConnect(s)]) \o <<Do("cameras", "left")>>
Cleanup == IF kind = "single" THEN DisconnectBus("left") ELSE Both([s \in Arms |-> ArmDisconnect(s)])
Disconnect == Both([s \in Arms |-> ArmDisconnect(s)]) \o <<Do("cameras off", "left")>>
ToggleArm(s) == <<Do("take", s)>>
SendArm(s) == <<Do("send", s)>>
-----------------------------------------------------------------------------
Begin(name, script) ==
    /\ call = "none"
    /\ call' = name /\ todo' = script /\ raised' = FALSE /\ took' = {}
    /\ scratch' = (cams_on = {} /\ \A s \in Arms : ~ArmUp(s))
    /\ UNCHANGED promise

SessionCall ==
    /\ kind # "teleop"
    /\ \/ /\ Len(loops) + Cardinality(Mine) <= MaxLoops
          /\ Begin("connect", Connect) /\ UNCHANGED asked
       \/ Begin("disconnect", Disconnect) /\ UNCHANGED asked
       \/ \E e \in BOOLEAN : Begin("toggle", Both([s \in Arms |-> ToggleArm(s)])) /\ asked' = e
    /\ UNCHANGED <<fixed, arms, outside, readers>>

(* Both toggles took the setting, or the pair goes back to the config's.    *)
Rollback ==
    /\ call = "toggle" /\ todo = <<>> /\ took # Mine /\ kind # "single"
    /\ call' = "rollback" /\ todo' = Both([s \in Arms |-> ToggleArm(s)]) /\ asked' = Release
    /\ UNCHANGED <<fixed, arms, outside, raised, took, scratch, promise, readers>>

Owed(s) ==
    CASE call = "toggle"   -> IF took = Mine THEN asked ELSE Release
      [] call = "rollback" -> Release
      [] OTHER             -> promise[s]

Return ==
    /\ call # "none" /\ todo = <<>>
    /\ call = "toggle" => took = Mine \/ kind = "single"
    /\ call' = "none" /\ raised' = FALSE /\ asked' = Release /\ took' = {} /\ scratch' = TRUE
    /\ promise' = [s \in Arms |-> Owed(s)]
    /\ UNCHANGED <<fixed, arms, outside, todo, readers>>

At(op) == todo # <<>> /\ Head(todo).op = op
Here == Head(todo).arm
Continue == todo' = Tail(todo) /\ UNCHANGED raised
Throw == todo' = <<>> /\ raised' = TRUE
Quiet == UNCHANGED <<fixed, call, asked, scratch, promise, readers>>
-----------------------------------------------------------------------------
(* connect().  is_connected folds a single arm's own cameras in.            *)
GuardDropped ==
    /\ At("guard") /\ Continue
    /\ UNCHANGED <<arms, outside, took>> /\ Quiet
Guard ==
    /\ At("guard")
    /\ IF ArmUp(Here) /\ (kind = "single" => cams_on = Cameras) THEN Throw ELSE Continue
    /\ UNCHANGED <<arms, outside, took>> /\ Quiet

(* How a stop() leaves loop l and the motors of its arm.  The disable frames
   of an armed release are a best effort: an adapter may refuse them.       *)
Joined(l) == [loops[l] EXCEPT !.thread = "gone"]
Powers(l, after) ==
    IF Live(l) /\ after.thread = "gone" /\ loops[l].release
    THEN {power, [power EXCEPT ![loops[l].arm] = "limp"]} ELSE {power}

(* A loop whose last reference goes is stopped by its destructor, which may
   have to give up the thread of a wedged bus.                              *)
Destroyed(l) ==
    {[loops[l] EXCEPT !.wrapped = FALSE, !.thread = t] :
        t \in (IF Live(l) THEN {"gone"} ELSE {loops[l].thread})
             \cup (IF wedged[loops[l].arm] THEN {loops[l].thread} ELSE {})}

(* _rt_robot = DK1RobotRT(...) and its loop; the wrapper that was there goes,
   unless the publisher is inside a call of it.                             *)
New ==
    /\ At("new")
    /\ LET old == rt[Here]
           goes == old # None /\ pub.holds # old
           fresh == [arm |-> Here, thread |-> "none", release |-> Release,
                     wrapped |-> TRUE, kept |-> FALSE]
       IN /\ IF goes
             THEN \E after \in Destroyed(old) :
                     /\ loops' = Append([loops EXCEPT ![old] = after], fresh)
                     /\ power' \in Powers(old, after)
             ELSE loops' = Append(loops, fresh) /\ UNCHANGED power
          /\ rt' = [rt EXCEPT ![Here] = Len(loops) + 1]
    /\ promise' = [promise EXCEPT ![Here] = Release]
    /\ Continue
    /\ UNCHANGED <<fixed, bus_connected, outside, call, asked, took, scratch, readers>>

(* start(): up and running, or a throw of configure_motors(), which disables
   the arm, or of calibrate_gripper(), which leaves it enabled.             *)
Start ==
    /\ At("start")
    /\ \/ ~wedged[Here] /\ Continue /\ power' = [power EXCEPT ![Here] = "stiff"]
          /\ loops' = [loops EXCEPT ![rt[Here]].thread = "live"]
       \/ Throw /\ UNCHANGED loops
          /\ power' = IF wedged[Here] THEN power ELSE [power EXCEPT ![Here] = "limp"]
       \/ ~wedged[Here] /\ Throw /\ power' = [power EXCEPT ![Here] = "stiff"] /\ UNCHANGED loops
    /\ UNCHANGED <<rt, bus_connected, outside, took>> /\ Quiet

Up ==
    /\ At("up") /\ Continue
    /\ bus_connected' = [bus_connected EXCEPT ![Here] = TRUE]
    /\ UNCHANGED <<loops, rt, power, outside, took>> /\ Quiet

(* The cameras, one after the other: one that is connected already raises, as
   one that is not there does.  A single arm disconnects those of this call. *)
CamerasUp ==
    /\ At("cameras")
    /\ \/ cams_on = {} /\ cams_on' = Cameras /\ Continue
       \/ \E done \in SUBSET (Cameras \ cams_on) :
             /\ Cameras # {} /\ (cams_on = {} => done # Cameras)
             /\ cams_on' = IF kind = "single" THEN cams_on ELSE cams_on \cup done
             /\ todo' = Cleanup /\ raised' = TRUE
    /\ UNCHANGED <<arms, wedged, took>> /\ Quiet
-----------------------------------------------------------------------------
(* disconnect().                                                            *)
Check ==
    /\ At("check")
    /\ IF ArmUp(Here) \/ (kind = "single" /\ cams_on # {}) THEN Continue ELSE Throw
    /\ UNCHANGED <<arms, outside, took>> /\ Quiet

(* The native stop(): it joins the thread, also that of a wedged bus if it
   comes out of its bounded write in time, and then releases the motors if
   the loop's flag says so; or gives the thread up and keeps the loop.       *)
StopNobodyThere ==
    /\ At("stop") /\ ~Running(Here)
    /\ Continue /\ UNCHANGED <<arms, outside, took>> /\ Quiet

StopJoins ==
    /\ At("stop") /\ Running(Here)
    /\ loops' = [loops EXCEPT ![rt[Here]] = Joined(rt[Here])]
    /\ power' \in Powers(rt[Here], Joined(rt[Here]))
    /\ Continue /\ UNCHANGED <<rt, bus_connected, outside, took>> /\ Quiet

StopAbandonsAndRaises ==
    /\ At("stop") /\ Running(Here) /\ wedged[Here]
    /\ loops' = [loops EXCEPT ![rt[Here]].kept = TRUE]
    /\ Throw /\ UNCHANGED <<rt, bus_connected, power, outside, took>> /\ Quiet
StopAbandons ==
    /\ At("stop") /\ Running(Here) /\ wedged[Here]
    /\ loops' = [loops EXCEPT ![rt[Here]].kept = TRUE]
    /\ Continue /\ UNCHANGED <<rt, bus_connected, power, outside, took>> /\ Quiet

Drop ==
    /\ At("drop") /\ Continue
    /\ loops' = IF rt[Here] = None THEN loops ELSE [loops EXCEPT ![rt[Here]].wrapped = FALSE]
    /\ UNCHANGED <<rt, bus_connected, power, outside, took>> /\ Quiet

ClearWrapperOnly ==
    /\ At("clear") /\ Continue
    /\ rt' = [rt EXCEPT ![Here] = None]
    /\ UNCHANGED <<loops, bus_connected, power, outside, took>> /\ Quiet
Clear ==
    /\ At("clear") /\ Continue
    /\ rt' = [rt EXCEPT ![Here] = None]
    /\ bus_connected' = [bus_connected EXCEPT ![Here] = FALSE]
    /\ UNCHANGED <<loops, power, outside, took>> /\ Quiet

(* A pair disconnects every camera, and one that is gone raises.            *)
CamerasOff ==
    /\ At("cameras off")
    /\ \/ (kind = "single" \/ cams_on = Cameras) /\ cams_on' = {} /\ Continue
       \/ kind # "single" /\ cams_on # Cameras /\ cams_on' \in SUBSET cams_on /\ Throw
    /\ UNCHANGED <<arms, wedged, took>> /\ Quiet
-----------------------------------------------------------------------------
(* set_disable_torque_on_disconnect() of one arm, and its answer.           *)
Takes(s) == rt[s] # None /\ loops[rt[s]].wrapped /\ ~old_build
TakeForgotten ==
    /\ At("take") /\ Continue
    /\ took' = IF Takes(Here) THEN took \cup {Here} ELSE took
    /\ UNCHANGED <<arms, outside>> /\ Quiet
Take ==
    /\ At("take") /\ Continue
    /\ IF Takes(Here)
       THEN took' = took \cup {Here} /\ loops' = [loops EXCEPT ![rt[Here]].release = asked]
       ELSE UNCHANGED <<took, loops>>
    /\ UNCHANGED <<rt, bus_connected, power, outside>> /\ Quiet

(* send_action(): a set-point for whatever loop the wrapper has.            *)
Send ==
    /\ At("send") /\ IF ArmUp(Here) THEN Continue ELSE Throw
    /\ UNCHANGED <<arms, outside, took>> /\ Quiet

CallStep ==
    \/ Guard \/ New \/ Start \/ Up \/ CamerasUp
    \/ Check \/ StopNobodyThere \/ StopJoins \/ StopAbandons \/ Drop \/ Clear \/ CamerasOff
    \/ Take \/ Send \/ Rollback
-----------------------------------------------------------------------------
(* The publisher: get_proprioception() looks at _rt_robot at each use, and its
   wrapper at _loop; nothing locks any of them.                             *)
PubCheck ==
    /\ pub.at = "idle" /\ kind # "teleop"
    /\ \E s \in Mine : ArmUp(s) /\ pub' = [at |-> "checked", arm |-> s, holds |-> None]
    /\ shown' = "none"
    /\ UNCHANGED <<fixed, arms, outside, session>>

PubPick ==
    /\ pub.at = "checked"
    /\ IF rt[pub.arm] = None
       THEN pub' = Idle /\ shown' = "error"
       ELSE pub' = [pub EXCEPT !.at = "picked", !.holds = rt[pub.arm]] /\ UNCHANGED shown
    /\ UNCHANGED <<fixed, arms, outside, session>>

(* The last reference to a replaced wrapper may be this one.  A read of the
   gripper looks at _rt_robot again, and may find it gone.                  *)
PubRead ==
    /\ pub.at = "picked"
    /\ shown' \in (IF loops[pub.holds].wrapped THEN {"state"} ELSE {"zeros", "error"})
                 \cup (IF rt[pub.arm] = None THEN {"error"} ELSE {})
    /\ LET l == pub.holds
       IN IF loops[l].wrapped /\ rt[pub.arm] # l
          THEN \E after \in Destroyed(l) :
                  loops' = [loops EXCEPT ![l] = after] /\ power' \in Powers(l, after)
          ELSE UNCHANGED <<loops, power>>
    /\ pub' = Idle
    /\ UNCHANGED <<fixed, rt, bus_connected, outside, session>>

Publish == PubCheck \/ PubPick \/ PubRead
-----------------------------------------------------------------------------
(* What comes from outside: a bus that stops taking frames, for good, and a
   camera that dies.                                                        *)
Wedge ==
    /\ \E s \in Mine : ~wedged[s] /\ wedged' = [wedged EXCEPT ![s] = TRUE]
    /\ UNCHANGED <<fixed, arms, cams_on, session, readers>>

CameraDies ==
    /\ \E c \in cams_on : cams_on' = cams_on \ {c}
    /\ UNCHANGED <<fixed, arms, wedged, session, readers>>

HostNext == SessionCall \/ CallStep \/ Return \/ Publish \/ Wedge \/ CameraDies
HostSpec == HostInit /\ [][HostNext]_hostVars
-----------------------------------------------------------------------------
(* A thread that is still running is the one of the wrapper that disconnect()
   would stop, or is kept for good: no arm has a loop nobody can stop, and no
   loop is freed under its thread.  A single arm is the exception: with a dead
   camera its is_connected lets connect() replace a running loop.           *)
ThreadsAreOwned ==
    kind # "single" =>
        \A l \in DOMAIN loops : Live(l) =>
            loops[l].kept \/ (loops[l].wrapped /\ rt[loops[l].arm] = l)

(* disconnect() leaves no thread running that it did not have to give up, and
   this although a left arm that raises skips the right one.                *)
DisconnectStops ==
    call = "disconnect" /\ todo = <<>> /\ kind # "single" =>
        \A l \in DOMAIN loops : Live(l) => loops[l].kept

(* When disconnect() joins a thread, it sends the disable frames if and only
   if that is what the last toggle, by its answer, or the config said; without
   that word no motor loses its power then.                                 *)
PromiseKept ==
    [][At("stop") /\ todo' # todo /\ Running(Here)
       /\ loops'[rt[Here]].thread = "gone"
       => /\ loops[rt[Here]].release = promise[Here]
          /\ power'[Here] # power[Here] => promise[Here]]_hostVars

(* The zeros that stand for "no loop" are published only of a loop whose
   thread is not running any more, or was given up.                         *)
ZerosMeanStopped ==
    [][shown' = "zeros" /\ shown # "zeros" =>
          ~Live(pub.holds) \/ loops[pub.holds].kept]_hostVars

(* "Don't leave the RT loop running behind a failed connect": after a connect()
   that raised, of a pair of which nothing was connected before, no thread runs
   that was not given up.                                                   *)
FailedConnectStopsLoops ==
    call = "connect" /\ todo = <<>> /\ raised /\ scratch =>
        \A l \in DOMAIN loops : Live(l) => loops[l].kept
================================================================================
