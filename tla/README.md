# TLA+ models of the TRLC-DK1 control stack

This directory holds TLA+ specifications of the robot arm's control software,
the TLC runs that check them on small instances, and TLAPS proofs of the
results that matter most for every value of the constants. All paths below are
relative to the repository root.

## 1. The system

| Component | Source | State it keeps | Operations | Talks to |
|---|---|---|---|---|
| RT control thread | `csrc/control_loop.cpp` (`rt_thread_func`), `csrc/safety.h`, `csrc/slew.h` | cycle count, watchdog counters, latches (`comm_loss`, `tx_stalled`, `damping_mode`), slew target, last command | one cycle: receive, watch, publish, reset, read command, ramp, check, send | motors over CAN, Python through shared memory |
| Shared buffers | `csrc/control_loop.h:234-283` | command, state and health seqlocks; timestamped state ring; reset request and acknowledgement | `command_*`, `get_*`, `get_state_at`, `reset_errors` | RT thread, any number of Python threads |
| Start and stop | `control_loop.cpp:91-213`, `358-634` | `running_`, `thread_exited_`, `thread_abandoned_`, release toggle, open port | `start`, `configure_motors`, `calibrate_gripper`, `stop` | serial port, motors |
| Performance counters | `csrc/perf_counters.h` | running statistics, snapshot seqlock, ring, reset handshake | `record`, `snapshot`, `read_ring`, `reset` | RT thread, Python |
| Serial port, protocol | `csrc/serial_port.cpp`, `csrc/dm_protocol.h` | file descriptor, parser residue | `write`, `read_all`, `close_bounded`; `feed`, `extract` | USB-CAN adapter |
| RT robot wrapper | `trlc_dk1_control/rt_robot.py` | loop object, list of abandoned loops, stall clock | `connect`, `disconnect`, `health_problems`, toggles | RT loop |
| Python control path | `trlc_dk1_control/robot.py`, `motor_chain.py` | commands and state under a lock, damping flag, two threads | `connect`, `command_*`, server loop, motor loop | `DM_CAN.py` |
| Followers, leaders | `lerobot_robot_trlc_dk1/*.py`, `examples/bi_teleop.py` | connected flags, pair of arms, read pool, cameras | `connect`, `send_action`, `get_observation`, `get_action`, `disconnect`, paired toggle | wrapper or vendor driver |
| Vendor driver | `lerobot_robot_trlc_dk1/motors/DM_Control_Python/DM_CAN.py` | motor map, reply dictionaries, receive residue | enable, control, parameter read and write | serial port |
| Episode recorder | `recorder/src/*.rs` | ring cursors, open episode, episode list, event set, generation counter | read rings, roll episodes over, write manifest, handle events | shared memory, files, event socket |

What makes them correct, and what is hard about it:

* **RT thread.** Two watchdogs (received bytes, failed writes), one safety
  check and one reset handshake set and clear four latches in four different
  places of a cycle that another thread can observe in the middle. Correct
  means: a fault is latched at its threshold, shown by the next publication,
  cleared only by a reset, and no motor is given stiffness behind it.
* **Shared buffers.** Lock-free reads and writes with bounded retries. Correct
  means: what is accepted is one command or one sample, a recent one, and a
  reader that never gets a whole one keeps what it had.
* **Start and stop.** Every wait has a deadline; giving up leaves things
  behind (a live thread, an open port, motors under power). Correct means:
  nothing is touched behind a live thread, and motors lose power only by
  decision.
* **Python control path.** Flags copied under a lock and used after it; joins
  that time out while the thread goes on. Correct means: an entered damping mode
  holds until somebody commands again, and a new session starts from the pose
  the arm was found in.
* **Vendor driver.** One frame buffer for all objects and threads, replies that
  are lost, late, split between reads or taken for another kind, parameters
  remembered from earlier. Correct means: a completed set-up leaves every motor
  powered and in its mode, a motor counts as connected because it answered, and
  a stop leaves none under power.
* **Followers, leaders.** Two arms that must end in the same state although each
  operation can fail on either arm; a publisher that reads what a disconnect is
  taking down; leader reads that nobody waits for any more.
* **Recorder.** Files, a manifest, and events that arrive in any order with
  respect to the rollover of episodes; crashes between the steps.

`PROJECT.json` lists every component with its status, and the hazards at the
lines where they bite, each with the properties that cover it or the reason
why none does.

## 2. Plan

Order of work, the most important behaviour first. Steps 1 to 8 are done.

1. `Safety`, `RtLoop`: the RT thread, callers of `reset_errors()`, `stop()`.
2. `RtLoopHistory`: the same with an observer, to compare the loop's verdicts
   with what happened to it.
3. `CommandSeqlock`, `StateRing`: the two lock-free buffers where a torn or
   wrong read moves the arm or corrupts an observation.
4. `RtLoopProofs`: the theorems of both. `Slew` with
   `SlewProofs`: the position ramp.
5. `DmCan`, `SerialArm`, `PyRobot`: the Python control path, down to the bus.
6. `HostArms`, `Teleop`: the followers over the native loops, composed with the
   leaders and the bimanual script.
7. `Recorder`, shown to implement `Catalogue`.
8. `StateRingProofs`, `CommandSeqlockProofs`, `RecorderProofs`, `TeleopProofs`
   and `SerialArmProofs`: the theorems about the buffers, the recorder as an
   implementation of `Catalogue`, the pair of arms under its script, and the
   serial path from the scripts of its owners down to the frames.
9. Left, models: the byte level below `RtLoop` (partial writes of the serial
   port, the C++ parser's residue) and the performance counters' handshake.

How the modules build on one another:

| Module | Builds on |
|---|---|
| `RtLoop` | `Safety` |
| `RtLoopHistory`, `MCRtLoop` | `RtLoop` |
| `SerialArm`, `MCSerialArm` | `DmCan` |
| `Teleop` | `HostArms`, which takes the loop's `stop()` as `RtLoop` has it: joined or abandoned, and once joined only an armed release moves a motor, if the adapter takes its frames |
| `PyRobot` | takes the chain's start and stop as `SerialArm` has them |
| `Recorder` | `Catalogue`, as the specification it implements |

## 3. The modules

### RtLoop (with Safety)

One cycle of `rt_thread_func()` is cut into actions where another thread can
see or change something:

| Action | Code | What it is |
|---|---|---|
| `Receive` | 739-831 | loop head, bytes and packets, staleness, RX watchdog |
| `Publish` | 833-869 | `health_rt_` copied to `health_buf_` |
| `Warmup` | 869-912 | a refresh-only cycle with its TX accounting |
| `TakeReset`, `AckReset`, `NoReset` | 914-931 | exchange of the request flag, clearing, acknowledgement |
| `CheckSafety` | 1002-1017, `safety.h` | the leaky counters and the damping latch |
| `Send` | 1029-1092 | the burst chosen by the latches, up to the first refused frame, then `account_tx()` |
| `ExitLoop` | 739, 1093 | the loop condition is false |
| `ResetBegin`, `ResetRequest`, `ResetReturn`, `ResetTimeout` | 334-346 | one caller in `reset_errors()` |
| `SetRelease` | `control_loop.h:214` | the release toggle |
| `StopBegin`, `StopAbandon`, `StopJoin`, `StopClose` | 153-213 | `stop()` |

Data is abstracted to what the decisions depend on. A reply is the set of
motors that answered; a measurement is whether it is over its limit; a burst is
the number of frames the adapter took. `drive` records, per motor, the kind of
the last frame that reached it and stands for the motor itself (`Obey` is the
one external definition: a disabled motor ignores set-points).

Counters saturate where no test of the code tells larger values apart
(`loop_count` at `LoopCap`, the watchdog counters at their limits, the safety
counters at their thresholds, a motor's silence at the staleness threshold).
The saturation of a safety counter at its threshold is exact in its effects:
at the threshold damping is latched, and the reset that clears it zeroes the
counter.

Assumed: a frame the adapter accepts reaches its motor; a refused frame does
not (the partial frame a refused write may leave behind is not modelled); reads and writes of the shared words happen in program order, as
on x86-64.

`RtLoopHistory` adds one history variable: whether bytes and bursts got through
since the watchdogs last started over, runs of over-limit cycles, and what
happened during each `reset_errors()` call. `HistoryImplementsLoop` proves that
it only watches.

### Slew

`slew_step()` and the step of the cycle that calls it, for one joint: commands
jump at any time, the guard is toggled at any time, every cycle reports any
position, and a cycle may take a reset. Positions are integers, so sums are exact
where the code rounds to doubles: the model settles exactly where the code
settles up to the last bit. The properties hold for every limit and are proved
(section 5); no run repeats them on an instance.

### CommandSeqlock

`cmd_seq_` and `cmd_buf_` with their writers (Python's two commands, and the
warm-up's own write at line 884) and both read loops of the RT thread. Each
store and each load is a step. The joint vector is two words, so that a mixed
copy can be seen; a word holds the number of its command. `floor` and
`completed` are history. The read before the loop copies straight into
`last_cmd` and keeps what it has when its attempts are used up, torn or not; no
cycle acts on it before the warm-up is over, so `CommandUntorn` is about the
cycles.

### StateRing

The push of each cycle (timestamp, state, index: three steps) and
`get_state_at()`: load the index, scan from the newest sample, copy, check,
retry. Sample *n* is taken at time *n* with state *n*, so a torn slot shows. The
timestamp of a hit is loaded once for test and copy, as the compiler does.

### DmCan

`DM_CAN.py` as its two callers use it. A call is a record (operation, motor,
argument); its steps are the places where another thread can get in between:

| Action | Code | What it is |
|---|---|---|
| `Refuse` | 104-106 | a set-point for a motor that was never added |
| `SendId`, `SendData` | 341-343 | the two halves of the class-level frame |
| `SendCopy`, `Write` | 344 | the copy handed to `write()`, and the write, which waits for a wedged adapter |
| `Recv` | 244-252 | read what has arrived, prepend what was kept, parse as statuses |
| `Poll`, `GiveUp` | 364-383, 421-459 | one turn of a parameter call's retries, and their end |
| `Raise` | 344 | a closed or unplugged port |

A reply is two tokens, its first and its last part, because a read takes
whatever has arrived and may split it; `PacketEnds` and `Remainder` are
what `__extract_packets()` finds and keeps. A reply may be lost or late. A status of
the gripper says whether its torque is over the homing threshold; a parameter
reply carries a control mode. `Obey`, `Addressee`, `Meaning` and `RepliesTo` are
the motors (external): they answer a frame by its id and its data, which need
not belong to one call. `MaxWire` bounds the tokens in flight, `MaxFaults` the
faults of adapter and motor supply and the times another object gets in between.

Simplified: `recv()` is one step, although two threads could come between its
read of `data_save` and its write. A status whose bytes happen to be those of a
parameter reply (`DM_CAN.py:295` looks at one byte) is never misread as one. A
`change` call, whose result nobody reads, may end after any turn of its retries
(`DM_CAN.py:433` makes at most 20).

### SerialArm

The two owners of the driver: `DK1MotorChain` (a session thread and the 250 Hz
motor thread) and `DK1Follower` in `pos_vel` mode (a session thread, and a
publisher that calls `get_proprioception()` whenever it likes). A method is a
script of driver calls (`ChainConfigure`, `FollowerConfigure`, `MotorCycle`,
`SendAction`, `ReadMotors`, `DisableAll`), so that its order is the code's and a
fault can come at any of its steps; an exception empties the script, except in
`stop()`, which goes on with the next motor.

The frame of the driver belongs to the class. `Observe` is the publisher's read,
beside any call of the session in a phase of `ReadDuring`; it takes no lock.
`OtherObject` is another `MotorControl` of the process, the other arm's say: it
writes the id or the data of one of the calls in `Foreign`, given per kind of owner,
into the shared frame.
Nothing else of it matters here, as it has a port and motors of its own, and it
matters only while a call of this object is between composing and copying.
`mixed` records that a write carried a frame other than the one its call had
composed. The chain's start and stop keep its two threads apart (`FramesUnmixed`,
alone in its process); nothing keeps the follower's apart (`ObservationsOnlyAsk`,
refuted), and what holds of it says "unless a frame was mixed up".

Three status requests before a detection are `Refreshes`, one suffices to have a
status reply in the way. `ready`, `answered`, `clean`, `mixed` and `timed_out`
are history. The arm is one joint and the gripper: the code treats joints alike
and the gripper apart. A reconnect is explored behind a publisher that is between
two reads, a restart of the chain behind a motor thread that has ended.

### PyRobot

`robot.py` over the buffers of `motor_chain.py`: the session's thread, the
server thread, the motor thread, and callers on any thread. Every block under
`_cmd_lock` or the chain's `_lock` is one step, and what the code does between
two blocks may be late: `ServerRead` (184), `ServerSnapshot` (186-190),
`ServerWarns` and `ServerWarned` (203-208), `ServerChecks` (233-245),
`ServerTrips` (242-243), `ServerPushesArm` (262), `ServerPushesGripper` (276);
`MotorSnapshot`, `MotorSend`, `MotorPublish` (261-313). A target is the number
of the command it came from, for the arm and for the gripper, which every motor
cycle sends; a reading is whether a joint is over its torque limit. The joins of
the server and of the motor thread are taken to succeed; the code gives them up
after 2 s, hundreds of cycles. The over-current counter saturates at its threshold, exactly in its
effects on what trips, but the leak below the threshold starts from there.

### HostArms and Teleop

`HostArms` is `DK1Follower` in RT mode over `DK1RobotRT`, alone with its cameras
(`single`) or as the two arms of a `BiDK1Follower` (`pair`, `teleop`). A call of
the session is a script with one step per statement whose effect another thread
or a later call can see:

| Steps | Code |
|---|---|
| `Guard`, `New`, `Start`, `Up`, `CamerasUp` | `follower.py:139-209`, `bi_follower.py:120-141`, `rt_robot.py:187-205` |
| `Check`, `StopNobodyThere`, `StopJoins`, `StopAbandons`, `Drop`, `Clear`, `CamerasOff` | `follower.py:503-535`, `bi_follower.py:386-391`, `rt_robot.py:253-270` |
| `Take`, `Rollback` | `follower.py:485-501`, `bi_follower.py:369-384`, `rt_robot.py:366-394` |
| `Send` | `follower.py:418-435` |
| `PubCheck`, `PubPick`, `PubRead` | `follower.py:357-403`, `rt_robot.py:284-340` |

`loops` are the native objects ever made, with the thread inside, their release
flag, and who still refers to them; the destructor runs when nobody does
(`Destroyed`). A joined `stop()` whose release is armed leaves the motors limp or
as they were, as its disable frames are written on a best effort
(`Powers`, `control_loop.cpp:191-206`), and a wedged bus may still let its thread
out in time to be joined. The publisher looks at `_rt_robot` at each use, so that
a read may end in an exception after the wrapper was in hand (`PubRead`). `promise` records what the next disconnect owes, by the answers
the toggle gave. Wedged buses and dying cameras may come at any moment.

`Teleop` adds the bimanual leader with its two pool workers and
`examples/bi_teleop.py`: connect both, loop, Ctrl-C anywhere in the loop,
disconnect both. A caller that retries a failed `get_action()`, which
`bi_leader.py:105` mentions, is explored beside the script's own loop, which
dies of it.

### Catalogue and Recorder

`Catalogue` is what the recorder promises of the files it leaves. `Recorder` is
`main.rs`: the main loop (`Top`, `SaveEvents`, `Drain`, `Sample`, `Flush`,
`LoadGen`, `Close`, `CloseSave`, `Open`, `Log`, and past the loop `End`,
`EndFlush`, `Clean`, `FinalSave`), the event thread (`LooksAtFlag`,
`Receive`, `Bump`, `ReceiveTimesOut`: it tests the flag, then blocks, so one more
event may come after the end), a control process that publishes samples and events
(external), and `Crash`, which may come between any two steps. A sample is its
episode index; the stream may bounce back to the take before; the state ring
holds `RingSize` samples and loses its oldest. The refinement mapping is the
identity on files, verdicts and manifest: what is hidden is the program. A file
is `closed` whether or not its flush failed: the code ignores that at a rollover
(`main.rs:393`) and lists the episode all the same. Nothing is synced to the
disk; what a power cut takes of unwritten pages is not modelled.

## 4. The runs

| Run | Instance | Shows |
|---|---|---|
| `rtloop_disable` | 2 motors, DISABLE, warm-up 1, limits 2, two callers (symmetric), partial answers | `TypeOK`, `WatchdogsNeverMiss`, `FaultsArePublished`, `LatchesAgree`, `VerdictSound`, `AckMeansCleared`; `FaultsLatch`, `TeardownIsOrdered` |
| `rtloop_hold` | 2 motors, HOLD, warm-up 1, comm limits 1, over-speed threshold 2, one caller, readings over their limits, fairness | `LoopInvariant`, `TripIsPrompt`, `LimpOnlyByDecision`; `NeverStiffUnderFault`; `RequestsAreTaken`, `SilenceIsReported`, `StopEnds` |
| `seqlock_after_warmup` | 3 commands, 2 attempts per read, commands after the warm-up, fairness | `TypeOK`, `CommandUntorn`; `ReadIsRecent`, `CommandAdopted` |
| `ring_lookup` | ring of 3, 7 samples, 2 attempts | `TypeOK`, `SnapshotUntornWithinLap`, `LatestAtOrBefore`, `MissIsExplained` |
| `serial_arm` | the chain and the follower, one joint and the gripper, 1 refresh, 1 reply in flight; the chain over 2 sessions with 1 fault; the follower over 1 session, with a publisher that reads at any time but during `configure()`, or with 1 fault or interference of another object's `disable` | `TypeOK`, `DetectedMeansAnswered`, `ReadyMeansReady`, `FramesUnmixed`; `StopDisables` |
| `pyrobot` | over-current threshold 2, 2 commands, 2 sessions | `TypeOK`, `HoldsUntilCommanded`, `DampingHolds` |
| `teleop` | single, pair and script, 2 cameras, 4 loops, 2 leader reads | `TypeOK`, `ThreadsAreOwned`, `DisconnectStops`, `OneReadPerPort`; `PromiseKept`, `ZerosMeanStopped` |
| `recorder` | 3 episodes, 4 samples, 2 events, ring of 3 | `TypeOK`, `CoveredMeansListed`; `IsCatalogue` (the refinement) |

What they show, in words: the comment above each property says it. Those that
need a word more. `FramesUnmixed` is about the chain alone in its process: two
threads fill the class-level frame at once only behind a `stop()` that gave its
motor thread up. `SilenceIsReported` is about the report that lasts: if from some
point on no byte comes and no reset is requested, then from some point on
`get_health()` shows the loss, or the loop is stopped; what was shown before a
reset does not count. `PromiseKept` says that a disconnect never takes power
unasked and finds the flag as promised; whether the frames of the release arrive
is the adapter's. `HoldsUntilCommanded` is about the arm: the gripper does not hold
(`bug_GripperHeldAtStart`). `ThreadsAreOwned` is stated for the pair, because
a single arm with a dead camera lets `connect()` replace the wrapper of a loop
that is still running (the guard at `follower.py:140` folds the cameras in), and
the destructor of that loop does not wait for a wedged thread.

Why the bounds are enough. Two motors are the least that make a burst fail half
way and an answer partial; the last one is the gripper, which the code treats
apart. A warm-up of one cycle has a last cycle and a first one after it; a limit
of 2 has a state below it, one at it, and one reached by a second step. `LoopCap`
is more than the verdict count plus one, so both sides of every test of
`loop_count` are reached. Two callers suffice for one to be acknowledged by the
other's request; `MaxResets` bounds when a new call may begin, not how many
requests are pending. A ring of 3 with 7 samples lets the producer lap a reader
twice. In `serial_arm`, a second session of the chain is what makes remembered parameters
matter, and one reply in flight (two tokens) can be lost, late, or split across
two reads of different kinds. For the follower the second user of the frame is
the point, and the state constraint `OneAtATime` keeps the run to it: one
session, and while the publisher reads, no fault and the release armed; and it
stops at the first frame that is mixed up, as nothing is claimed of the follower
behind one. Faults are explored with the publisher silent. Reads during
`configure()` are left out there (`ReadDuring`) for size alone. The proofs have
none of these limits and cover all of it together. In `pyrobot`, two commands and two sessions give
each of the races a command before, between and after, and a target of an
earlier session. In `teleop`, four loops are two connects of a pair or four of a
single arm; two reads are enough for one to overlap the next. In `recorder`,
three episodes have one finished, one open and one to come; four samples roll
over twice and leave one for a replay; two events are a grade and a discard in
either order. For the RT loop, what the bounds leave out the proofs cover.

Deadlock is no error where the program really stops: a stopped loop and a
finished `stop()`, a producer at its bound, a bus session after its last
disconnect, a script that ended, a recorder that is done or dead.

Fairness. In `rtloop_hold` the RT thread keeps cycling, because it runs under
SCHED_FIFO and each of its writes has a deadline; a Python thread inside a call
keeps executing it; `stop()` proceeds once the thread is gone. Nothing is assumed
about which calls are made, whether motors answer, whether the adapter takes
frames, or whether a call times out. In `seqlock_after_warmup` both threads keep
running. The other runs check safety only: homing, `write()` and `join()` of the
serial path have no bound to rely on, and the recorder can always die.

Four runs state what the documentation says and TLC finds the code doing
something else:

| Run | What the text says | What happens |
|---|---|---|
| `bug_ResetRecovers` | recovery "only via `reset_errors()`" (`rt_robot.py:407`) | the reset enables no motor; health is clean, the arm is limp |
| `bug_CommandUntorn` | "Python writes, RT reads" (`control_loop.h:253`) | the warm-up writes too, and can interleave with a command |
| `bug_ConnectedMeansAnswered` | the motor "is connected", or "Unable to read from" it (`follower.py:228`, `:234`) | on a reconnect, a silent motor is detected by the mode its object remembers |
| `bug_GripperHeldAtStart` | "so we don't jump on start" (`motor_chain.py:111`), "no startup jump" (`robot.py:91`) | the first cycles of a session send the gripper the target of the last |

Seven more disagreements are stated as properties in the modules and refuted by
TLC on instances of the same sizes, but are not standing runs:

| Property | What the text says | What happens |
|---|---|---|
| `RtLoop!DisabledMotorsAreLimp` | "motors already disabled" (`control_loop.cpp:1051`) | a DISABLE burst the adapter refused counts as sent and is never repeated |
| `RtLoopHistory!HealthyMeansChecked` | "healthy" is never just "not checked yet" (`rt_robot.py:416`) | a reset starts the watchdogs over, not the count the verdict waits for |
| `RtLoopHistory!ReturnMeansServed` | "blocks until the RT thread processes the reset" (`control_loop.h:191`) | `reset_errors()` returns on another request's acknowledgement |
| `StateRing!SnapshotUntorn` | "Verify the slot we copied wasn't overwritten" (`control_loop.cpp:312`) | a slot exactly one lap old passes while it is rewritten |
| `SerialArm!ObservationsOnlyAsk` | "Joint/gripper observation only" (`follower.py:346`) | the publisher's read shares the frame with `send_action()` and writes a set-point or a mixture |
| `HostArms!FailedConnectStopsLoops` | "Clean up RT loops if camera connection fails" (`bi_follower.py:138`), "Don't leave the RT loop ... running behind a failed connect" (`follower.py:179`) | the right arm's `start()` throws, and the left arm's loop runs on |
| `Recorder!RacingGradesKept` | "folds in ... any grade that raced session_end" (`main.rs:520`, `recorder/README.md:91`) | a grade still in the socket when a signal ends the session is in no manifest |

The counterparts that do hold are checked beside them: `VerdictSound` (before the
first reset), `AckMeansCleared` (whosever request it was, the latches were
clear), `CommandUntorn` when Python waits for the warm-up,
`SnapshotUntornWithinLap`, `DetectedMeansAnswered` and `FramesUnmixed` (the chain,
which makes its Motor objects anew and joins its thread), `HoldsUntilCommanded`
(the arm), `ThreadsAreOwned` (a failed connect leaves loops running, but none that
a later disconnect could not stop), `CoveredMeansListed` (events that were
received).

## 5. What is proved

`RtLoopProofs` proves, from `LoopAssumption` and `ThresholdsPositive` alone, that
`LoopInvariant` is inductive. It conjoins the type invariant, the properties
`WatchdogsNeverMiss`, `LatchesAgree`, `FaultsArePublished`, `LimpOnlyByDecision`,
and `CycleShape`, which none of them states and three of them need: the thread's
place in its cycle tells whether the warm-up is over, and whoever joined the
thread knows that it left. Without it, a TX stall in the warm-up would latch
`tx_stalled` behind a clear `comm_loss`. The proof has one step per action and
below it one per conjunct; the arithmetic is in lemmas about `UpTo`,
`ApplySafety` and `AccountTx`. The action properties `FaultsLatch`,
`NeverStiffUnderFault` and `TeardownIsOrdered` follow by the same case split.

For `RtLoopHistory`, `RtLoopProofs` shows that the observer implements the loop,
then strengthens with `HistoryInvariant`: the leaky counters never fall behind the
runs they count (`RunsAreCounted`), and until the first reset the watchdogs'
counters never fall behind the cycles they count (`CyclesAreCounted`). From these
follow `TripIsPrompt`, `VerdictSound` and `AckMeansCleared`, for every warm-up
length, every pair of limits and thresholds, and any number of callers.

`PyRobotProofs` proves `TypeOK`, `HoldsUntilCommanded` and `DampingHolds` from
`PyRobotAssumption`. The strengthening `PyInvariant` says where a thread can be
(`InSession`: no server cycle outside a session, motors limp between sessions),
what is on its way to the motors before the first command (`NothingOldAboard`:
target, copies, buffers and drive, each from the moment it is filled in a
session), and that a server cycle in flight knows of the damping that is on
(`DampingKnown`). Neither `HoldsUntilCommanded` nor `DampingHolds` is inductive without them: the copies a server
cycle took before a trip or a disconnect could come true later.

`SlewProofs` proves, for integer positions and natural limits, that the ramp's
last step stays within the rate limit (`RateBounded`, the inductive invariant),
and from it that every cycle comes closer to the command and none passes it, that
the guard does not stall a joint in motion, and that the first set-point after a
reset is within a step of the reported pose. The arithmetic is in lemmas about
`SlewStep`; that a ramp whose command stays arrives follows, as its distance is a
natural number that falls with every cycle, but is liveness and not stated.

`StateRingProofs` proves all four invariants of the ring, for every ring size,
any readers and any number of attempts. The inductive invariant adds what the
slots hold: each carries the sample the counters say, except the one being
written (`RingHoldsLastLap`), and what each reader has copied is that sample as
long as its slot is not reused (`ReaderInv`). The slot of a sample is its number
modulo the ring size, so the lemmas below it are about `%`: two samples less than
a lap apart have different slots. Exactly one lap apart they have the same one,
which is where `SnapshotUntorn` fails and the theorem says "less than".

`CommandSeqlockProofs` proves `TypeOK`, and `CommandUntorn` and `ReadIsRecent`
under `EarlyCommands = FALSE`: Python waits for the warm-up, so that the counter
has one writer. That is not an assumption of convenience: with `TRUE` the run
`bug_CommandUntorn` refutes the first. The invariant: an odd counter is exactly a
write in progress (`OddWhileStoring`), outside one the buffer is the last
completed command (`BufferWhole`, `BufferRecent`), and the words a reader has
copied are whole while the counter it started from stands (`CopyFaithful`).

`RecorderProofs` proves `TypeOK`, `CoveredMeansListed` and `IsCatalogue`: every
step of the recorder, `Crash` included, is a step of `Catalogue` or leaves its
state alone, under the mapping written out in `Recorder!Promise`. `Crash` is a
stutter because the catalogue sees files only; the argument is about what the
files are between two saves.

`TeleopProofs` proves everything the run `teleop` checks, from `HostAssumption`
and `TeleopAssumption`, for every set of kinds and cameras and all bounds (the
script's `connect()` makes two loops, so a bound below two would end it in the
middle: `MaxLoops >= 2` where `Kinds` has the script). A call is a script of
steps of which only the rest is in the state, so the invariant `IInv` describes
rests: each step is followed by its successor and the last one by the end of the
call (`ScriptFollowed`). From the step at hand it then says what earlier ones
have seen to (`Stage`). The parts that carry the results: `RightNeedsLeft` (an
exception in the left arm's `disconnect()` skips the right arm, which is then not
up: this is why `DisconnectStops` holds), `Wrapped` and `Picked` (who refers to a
loop, also across the publisher's unlocked reads), `Settings` (during a toggle the
arms that are past their step carry the new flag and have said so; outside one
every flag is the promise, so a joined `stop()` finds the flag that was promised,
whatever of its frames the adapter then takes), and `Jobbed` (a read in the pool is of the last call
and an arm still awaited). `ThreadsAreOwned` is a part of `IInv` as it stands,
and inductive only with `Stage`. The two action properties name their step: only
`StopJoins` ends a thread where `disconnect()` stops one, only `PubRead` makes up
zeros.

`SerialArmProofs` proves everything the run `serial_arm` checks, from
`DriverAssumption` (the gripper is none of the joints, bounds are numbers) and
`OwnerAssumption`, for every arm, any number of refreshes, faults, sessions and
tokens on the wire, any reads of the publisher and any calls of other objects. Scripts are built with `FlattenSeq` and are as long as the
arm has joints; a step takes one call from the front. The proof never looks at
a place in them: it speaks of the calls that are left and of one order among
them, `Mends` (what switches a motor off is followed by what switches it on). For
that it needs what `FlattenSeq` makes of a sequence of scripts, by induction on
its length from the least number of a set (`LeastNumber`), as the library's
induction theorems take an operator and cannot be cited. The invariant `IInv`:

* `Turns` (whose call it is: a script belongs to a method, and the chain's two threads
  are in the driver together only after a `stop()` that gave up), `Methods` (which calls a method
  can have left) and `FramesSound` (what the halves of the frame and the copies
  belong to, at each place within a call): from these, `FramesUnmixed`;
* `Supply` and `SetUp`: throughout the set-up a motor is energised and in its
  mode, or the call that will see to it is still to come, and nothing behind
  that call undoes it (`Settled`): from these, `ReadyMeansReady`;
* `Answers`: a mode that a Motor object of the chain remembers, and one on the
  wire or unparsed, was answered on this port: `DetectedMeansAnswered`;
* `TearDown`: while `stop()` or the armed `disconnect()` goes through the motors,
  each is limp or its disable is still to come (`Doomed`), and a call raises only
  on a closed port or an unplugged adapter: `StopDisables`;
* `Stream`: the tokens unparsed and on the wire alternate, first part and last
  part, so that at most two stay unparsed, which is a conjunct of `TypeOK`.

Only model-checked:

* the liveness properties `RequestsAreTaken`, `SilenceIsReported`, `StopEnds` and
  `CommandAdopted`: fairness and ENABLED are outside the prover's reach. Every
  safety property of a passing run is a theorem.

## 6. What is not modelled

The components marked `not_modelled` in `PROJECT.json`, each with its reason.

* Of the RT thread: the clamping of positions and torques and the
  gravity feed-forward (floating-point data that no modelled decision reads), log
  lines, statistics counters, and the command's age (it only triggers a warning).
* Of the vendor driver: number conversions. One is worth knowing: `LIMIT_MIN_MAX`
  (`DM_CAN.py:483`) returns nothing, so `float_to_uint` does not clamp and a value
  outside its range wraps into its bit field. `enable_old`, `save_motor_param` and
  `change_limit_param` have no caller.
* Of the Python control path: a `start()` behind a motor thread that a timed-out
  `stop()` left running (the flag it looks at is set again, and it goes on), and
  what follows when a join of `robot.py` gives up after its 2 s.
* Of the followers: camera alignment and frames, the acceleration guard's toggle.
* Of the leaders: `setup_motors()`, interactive.
* Of the recorder: images, styling, the shared-memory readers and their lap
  checks, arguments, what a failed flush or a power cut leaves of a file.
