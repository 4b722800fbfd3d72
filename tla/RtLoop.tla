-------------------------------- MODULE RtLoop --------------------------------
(***************************************************************************)
(* csrc/control_loop.cpp: the real-time control thread, the Python threads *)
(* that call reset_errors(), and stop().                                   *)
(*                                                                         *)
(* One cycle of rt_thread_func() is the sequence of actions                *)
(*   Receive -> Publish -> Warmup                        (first cycles)    *)
(*   Receive -> Publish -> TakeReset [-> AckReset] -> CheckSafety -> Send  *)
(* cut where another thread can observe or change something: the running   *)
(* flag, the reset request and its acknowledgement, the published health.  *)
(*                                                                         *)
(* Motors are numbered in the order the loop writes their frames; the last *)
(* one is the gripper.  Joint positions are not modelled here.             *)
(***************************************************************************)
EXTENDS Safety

CONSTANTS
    NumMotors,          \* cfg_.motors.size(): arm joints, then the gripper
    WarmupCycles,       \* WARMUP_CYCLES
    MaxEmpty,           \* cfg_.max_consecutive_empty_cycles
    MaxTxFail,          \* cfg_.max_consecutive_tx_fail_cycles
    StaleThreshold,     \* cfg_.per_motor_stale_threshold
    Action,             \* cfg_.comm_loss_action: "HOLD" or "DISABLE"
    Callers,            \* Python threads that may call reset_errors()
    \* Bounds of the model.
    LoopCap,            \* loop_count saturates here: no test tells larger counts apart
    MaxResets,          \* no reset_errors() call starts once the ack count is here
    \* Inputs the environment may choose from.
    RxPatterns,         \* sets of motors that may answer together
    Readings            \* {FALSE} (always in limits) or BOOLEAN

Motors == 1..NumMotors
Arm == 1..(NumMotors - 1)
Gripper == NumMotors

ASSUME LoopAssumption ==
    /\ NumMotors \in Nat \ {0, 1}
    /\ WarmupCycles \in Nat
    /\ MaxEmpty \in Nat \ {0}
    /\ MaxTxFail \in Nat \ {0}
    /\ StaleThreshold \in Nat \ {0}
    /\ Action \in {"HOLD", "DISABLE"}
    /\ LoopCap \in Nat /\ LoopCap > WarmupCycles + MaxEmpty + 1
    /\ MaxResets \in Nat
    /\ RxPatterns \subseteq SUBSET Motors
    /\ Readings \subseteq BOOLEAN

VARIABLES
    thread,             \* where the RT thread is in its cycle
    loop_count,         \* cycles started, up to LoopCap
    consecutive_empty,  \* cycles in a row without a received byte, up to MaxEmpty
    consecutive_tx_fail,\* cycles in a row with a failed write, up to MaxTxFail
    comm_loss,          \* health_rt_.comm_loss, latched
    tx_stalled,         \* health_rt_.tx_stalled, latched
    disable_sent,       \* comm_error_disable_sent
    unseen,             \* per motor: loop_count - motor_last_seen_cycle, up to StaleThreshold
    fast,               \* arm joints whose last reported velocity is over its limit
    strained,           \* arm joints whose last reported torque is over its limit
    safety,             \* safety_state_
    published,          \* health_buf_, what get_health() returns
    drive,              \* what each motor is doing (external)
    requested,          \* error_reset_requested_
    ack,                \* error_reset_ack_
    caller,             \* per caller: where it is in reset_errors()
    before,             \* per caller: the ack count it loaded
    running,            \* running_
    release,            \* disable_torque_on_disconnect_
    stopper             \* where the thread calling stop() is

latches  == <<comm_loss, tx_stalled, disable_sent, safety>>
counters == <<consecutive_empty, consecutive_tx_fail>>
feedback == <<unseen, fast, strained>>
resets   == <<requested, ack, caller, before>>
control  == <<running, release, stopper>>
vars == <<thread, loop_count, latches, counters, feedback, published, drive,
          resets, control>>

(* Feedback of a motor is stale: motor_stale[i].                           *)
Stale(ages) == {m \in Motors : ages[m] >= StaleThreshold}

Health == [loop_count : 0..LoopCap, comm_loss : BOOLEAN, tx_stalled : BOOLEAN,
           damping : BOOLEAN, stale : SUBSET Motors]

Threads == {"top", "publish", "warmup", "reset", "ack", "safety", "send", "exited"}
Drives == {"enabled", "stiff", "damped", "emit", "limp"}
Calling == {"idle", "begun", "polling"}
Stopping == {"off", "waiting", "joined", "closed", "abandoned"}

TypeOK ==
    /\ thread \in Threads
    /\ loop_count \in 0..LoopCap
    /\ consecutive_empty \in 0..MaxEmpty
    /\ consecutive_tx_fail \in 0..MaxTxFail
    /\ comm_loss \in BOOLEAN /\ tx_stalled \in BOOLEAN /\ disable_sent \in BOOLEAN
    /\ unseen \in [Motors -> 0..StaleThreshold]
    /\ fast \in SUBSET Arm /\ strained \in SUBSET Arm
    /\ safety \in SafetyState
    /\ published \in Health
    /\ drive \in [Motors -> Drives]
    /\ requested \in BOOLEAN /\ ack \in Nat
    /\ caller \in [Callers -> Calling]
    /\ before \in [Callers -> Nat]
    /\ running \in BOOLEAN /\ release \in BOOLEAN
    /\ stopper \in Stopping

--------------------------------------------------------------------------------

(* Mutated forms, one per property, are defined next to what they mutate.    *)
UpToPastCap(n, cap) == IF n <= cap THEN n + 1 ELSE cap
UpTo(n, cap) == IF n < cap THEN n + 1 ELSE cap

(* start() has configured and enabled every motor and spawned the thread.  *)
Init ==
    /\ thread = "top" /\ loop_count = 0
    /\ consecutive_empty = 0 /\ consecutive_tx_fail = 0
    /\ comm_loss = FALSE /\ tx_stalled = FALSE /\ disable_sent = FALSE
    /\ unseen = [m \in Motors |-> 0]
    /\ fast = {} /\ strained = {}
    /\ safety = SafetyClear
    /\ published = [loop_count |-> 0, comm_loss |-> FALSE, tx_stalled |-> FALSE,
                    damping |-> FALSE, stale |-> {}]
    /\ drive = [m \in Motors |-> "enabled"]
    /\ requested = FALSE /\ ack = 0
    /\ caller = [c \in Callers |-> "idle"] /\ before = [c \in Callers |-> 0]
    /\ running = TRUE /\ release \in BOOLEAN /\ stopper = "off"

--------------------------------------------------------------------------------
(* The RT thread.                                                          *)

(* The watchdog on received bytes, armed once the warm-up is over.         *)
RxLostLate(loop, empty) == loop > WarmupCycles /\ empty > MaxEmpty
RxLostLongGrace(loop, empty) == loop > WarmupCycles + MaxEmpty + 1 /\ empty >= MaxEmpty
RxLost(loop, empty) == loop > WarmupCycles /\ empty >= MaxEmpty

WatchRxSelfHealing ==
    IF RxLost(loop_count', consecutive_empty')
    THEN comm_loss' = TRUE /\ disable_sent' = FALSE
    ELSE comm_loss' = (comm_loss /\ consecutive_empty' > 0) /\ UNCHANGED disable_sent
WatchRx ==
    IF ~comm_loss /\ RxLost(loop_count', consecutive_empty')
    THEN comm_loss' = TRUE /\ disable_sent' = FALSE
    ELSE UNCHANGED <<comm_loss, disable_sent>>

(* Steps 1 and 2: read what arrived, parse it, run the RX watchdog.        *)
Receive(bytes, heard) ==
    /\ thread = "top" /\ running
    /\ heard # {} => bytes
    /\ loop_count' = UpTo(loop_count, LoopCap)
    /\ consecutive_empty' = IF bytes THEN 0 ELSE UpTo(consecutive_empty, MaxEmpty)
    /\ unseen' = [m \in Motors |-> IF m \in heard THEN 0 ELSE UpTo(unseen[m], StaleThreshold)]
    /\ \E f, s \in [heard \cap Arm -> Readings] :
          /\ fast' = (fast \ heard) \cup {m \in heard \cap Arm : f[m]}
          /\ strained' = (strained \ heard) \cup {m \in heard \cap Arm : s[m]}
    /\ WatchRx
    /\ thread' = "publish"
    /\ UNCHANGED <<consecutive_tx_fail, tx_stalled, safety, published, drive, resets, control>>

SnapshotWithoutTx == [loop_count |-> loop_count, comm_loss |-> comm_loss,
                      tx_stalled |-> published.tx_stalled, damping |-> safety.damping,
                      stale |-> Stale(unseen)]
Snapshot == [loop_count |-> loop_count, comm_loss |-> comm_loss, tx_stalled |-> tx_stalled,
             damping |-> safety.damping, stale |-> Stale(unseen)]

(* Step 3: health_rt_ becomes visible to Python, before this cycle's reset,
   safety check and writes are accounted for.                              *)
Publish ==
    /\ thread = "publish"
    /\ published' = Snapshot
    /\ thread' = IF loop_count <= WarmupCycles THEN "warmup" ELSE "reset"
    /\ UNCHANGED <<loop_count, latches, counters, feedback, drive, resets, control>>

AccountTxInWarmup(failed) ==
    /\ consecutive_tx_fail' = IF failed THEN UpTo(consecutive_tx_fail, MaxTxFail) ELSE 0
    /\ tx_stalled' = (tx_stalled \/ (~comm_loss /\ consecutive_tx_fail' >= MaxTxFail))
AccountTxAfterWarmup(failed) ==
    /\ consecutive_tx_fail' = IF failed /\ loop_count > WarmupCycles
                              THEN UpTo(consecutive_tx_fail, MaxTxFail) ELSE 0
    /\ tx_stalled' = (tx_stalled \/ (~comm_loss /\ consecutive_tx_fail' >= MaxTxFail))
(* account_tx(): the watchdog on failed writes.                            *)
AccountTx(failed) ==
    /\ consecutive_tx_fail' = IF failed THEN UpTo(consecutive_tx_fail, MaxTxFail) ELSE 0
    /\ tx_stalled' = (tx_stalled \/ (/\ loop_count > WarmupCycles /\ ~comm_loss
                                     /\ consecutive_tx_fail' >= MaxTxFail))

(* A warm-up cycle only sends refresh frames; the last one forgets the empty
   cycles of the warm-up, but not its failed writes.                       *)
Warmup(failed) ==
    /\ thread = "warmup"
    /\ consecutive_empty' = IF loop_count = WarmupCycles THEN 0 ELSE consecutive_empty
    /\ AccountTx(failed)
    /\ thread' = "top"
    /\ UNCHANGED <<loop_count, comm_loss, disable_sent, safety, feedback, published, drive,
                   resets, control>>

ClearLatchesButTx ==
    /\ safety' = SafetyClear
    /\ comm_loss' = FALSE /\ disable_sent' = FALSE /\ UNCHANGED tx_stalled
    /\ consecutive_empty' = 0 /\ consecutive_tx_fail' = 0
ClearLatches ==
    /\ safety' = SafetyClear
    /\ comm_loss' = FALSE /\ tx_stalled' = FALSE /\ disable_sent' = FALSE
    /\ consecutive_empty' = 0 /\ consecutive_tx_fail' = 0

(* Step 4: exchange the request flag; if it was set, clear every latch.    *)
TakeReset ==
    /\ thread = "reset" /\ requested
    /\ requested' = FALSE
    /\ ClearLatches
    /\ thread' = "ack"
    /\ UNCHANGED <<loop_count, feedback, published, drive, ack, caller, before, control>>

AckReset ==
    /\ thread = "ack"
    /\ ack' = ack + 1
    /\ thread' = "safety"
    /\ UNCHANGED <<loop_count, latches, counters, feedback, published, drive,
                   requested, caller, before, control>>

NoResetRacy ==
    /\ thread = "reset"
    /\ thread' = "safety"
    /\ UNCHANGED <<loop_count, latches, counters, feedback, published, drive, resets, control>>
NoReset ==
    /\ thread = "reset" /\ ~requested
    /\ thread' = "safety"
    /\ UNCHANGED <<loop_count, latches, counters, feedback, published, drive, resets, control>>

(* Step 9.                                                                 *)
CheckSafety ==
    /\ thread = "safety"
    /\ safety' = ApplySafety(safety, fast, strained)
    /\ thread' = "send"
    /\ UNCHANGED <<loop_count, comm_loss, tx_stalled, disable_sent, counters, feedback,
                   published, drive, resets, control>>

FrameKeepsStiffness(m) ==
    IF comm_loss
    THEN IF Action = "DISABLE"
         THEN IF disable_sent THEN "none" ELSE "disable"
         ELSE IF m \in Arm THEN "damped" ELSE "none"
    ELSE IF m = Gripper THEN "emit" ELSE "stiff"

(* The frame step 10 builds for motor m, "none" if it builds none.         *)
Frame(m) ==
    IF comm_loss
    THEN IF Action = "DISABLE"
         THEN IF disable_sent THEN "none" ELSE "disable"
         ELSE IF m \in Arm THEN "damped" ELSE "none"
    ELSE IF m = Gripper THEN "emit" ELSE IF safety.damping THEN "damped" ELSE "stiff"

(* External: what a motor does once a frame reached it.  A disabled motor
   ignores set-points; only an enable frame, which the loop never sends,
   would wake it.                                                          *)
Obey(old, frame) ==
    CASE frame = "none"    -> old
      [] frame = "disable" -> "limp"
      [] OTHER             -> IF old = "limp" THEN "limp" ELSE frame

(* Step 10: the burst.  The adapter takes the first n frames; after the
   first refusal the rest of the cycle's frames are skipped.               *)
Send(n) ==
    /\ thread = "send"
    /\ drive' = [m \in Motors |-> IF m <= n THEN Obey(drive[m], Frame(m)) ELSE drive[m]]
    /\ AccountTx(\E m \in Motors : m > n /\ Frame(m) # "none")
    /\ LET burst   == comm_loss /\ Action = "DISABLE"
           stalled == tx_stalled' /\ ~tx_stalled
       IN  /\ comm_loss' = (comm_loss \/ stalled)
           /\ disable_sent' = (~stalled /\ (disable_sent \/ burst))
    /\ thread' = "top"
    /\ UNCHANGED <<loop_count, consecutive_empty, safety, feedback, published, resets, control>>

(* The loop condition is read once per cycle.                              *)
ExitLoopUnlessLost ==
    /\ thread = "top" /\ ~running /\ ~comm_loss
    /\ thread' = "exited"
    /\ UNCHANGED <<loop_count, latches, counters, feedback, published, drive, resets, control>>
ExitLoop ==
    /\ thread = "top" /\ ~running
    /\ thread' = "exited"
    /\ UNCHANGED <<loop_count, latches, counters, feedback, published, drive, resets, control>>

ReceiveAny == \E bytes \in BOOLEAN, heard \in RxPatterns : Receive(bytes, heard)
WarmupAny == \E failed \in BOOLEAN : Warmup(failed)
SendAny == \E n \in 0..NumMotors : Send(n)

RtStep ==
    \/ ReceiveAny \/ Publish \/ WarmupAny \/ TakeReset \/ AckReset \/ NoReset
    \/ CheckSafety \/ SendAny \/ ExitLoop

--------------------------------------------------------------------------------
(* reset_errors(), called by any Python thread without the GIL.            *)

ResetBegin(c) ==
    /\ caller[c] = "idle" /\ running
    /\ ack < MaxResets
    /\ before' = [before EXCEPT ![c] = ack]
    /\ caller' = [caller EXCEPT ![c] = "begun"]
    /\ UNCHANGED <<thread, loop_count, latches, counters, feedback, published, drive,
                   requested, ack, control>>

(* timeout_ms = 0 returns at once, otherwise the caller starts polling.    *)
ResetRequest(c, wait) ==
    /\ caller[c] = "begun"
    /\ requested' = TRUE
    /\ caller' = [caller EXCEPT ![c] = IF wait THEN "polling" ELSE "idle"]
    /\ UNCHANGED <<thread, loop_count, latches, counters, feedback, published, drive,
                   ack, before, control>>

(* The call returns: acknowledged, or the loop is being stopped.           *)
ResetReturn(c) ==
    /\ caller[c] = "polling"
    /\ ack # before[c] \/ ~running
    /\ caller' = [caller EXCEPT ![c] = "idle"]
    /\ UNCHANGED <<thread, loop_count, latches, counters, feedback, published, drive,
                   requested, ack, before, control>>

(* The call throws after timeout_ms; its request stays set.  After the last
   sleep it does not look at the count or at running_ again.               *)
ResetTimeout(c) ==
    /\ caller[c] = "polling"
    /\ caller' = [caller EXCEPT ![c] = "idle"]
    /\ UNCHANGED <<thread, loop_count, latches, counters, feedback, published, drive,
                   requested, ack, before, control>>

ResetStep ==
    \E c \in Callers :
        \/ ResetBegin(c) \/ \E wait \in BOOLEAN : ResetRequest(c, wait)
        \/ ResetReturn(c) \/ ResetTimeout(c)

--------------------------------------------------------------------------------
(* stop() and the release toggle.                                          *)

(* set_disable_torque_on_disconnect().                                     *)
SetRelease(on) ==
    /\ stopper \in {"off", "waiting", "joined"} /\ release # on
    /\ release' = on
    /\ UNCHANGED <<thread, loop_count, latches, counters, feedback, published, drive,
                   resets, running, stopper>>

StopBegin ==
    /\ stopper = "off" /\ running
    /\ running' = FALSE /\ stopper' = "waiting"
    /\ UNCHANGED <<thread, loop_count, latches, counters, feedback, published, drive,
                   resets, release>>

(* The deadline passed and the thread has not left its loop.               *)
StopAbandon ==
    /\ stopper = "waiting" /\ thread # "exited"
    /\ stopper' = "abandoned"
    /\ UNCHANGED <<thread, loop_count, latches, counters, feedback, published, drive,
                   resets, running, release>>

StopJoinEarly ==
    /\ stopper = "waiting"
    /\ stopper' = "joined"
    /\ UNCHANGED <<thread, loop_count, latches, counters, feedback, published, drive,
                   resets, running, release>>
StopJoin ==
    /\ stopper = "waiting" /\ thread = "exited"
    /\ stopper' = "joined"
    /\ UNCHANGED <<thread, loop_count, latches, counters, feedback, published, drive,
                   resets, running, release>>

StopCloseAlwaysReleases(n) ==
    /\ stopper = "joined"
    /\ drive' = [m \in Motors |-> IF m <= n THEN "limp" ELSE drive[m]]
    /\ stopper' = "closed"
    /\ UNCHANGED <<thread, loop_count, latches, counters, feedback, published,
                   resets, running, release>>

(* Disable frames for the first n motors (none unless released), then the
   port is closed.                                                         *)
StopClose(n) ==
    /\ stopper = "joined"
    /\ n > 0 => release
    /\ drive' = [m \in Motors |-> IF m <= n THEN "limp" ELSE drive[m]]
    /\ stopper' = "closed"
    /\ UNCHANGED <<thread, loop_count, latches, counters, feedback, published,
                   resets, running, release>>

StopCloseAny == \E n \in 0..NumMotors : StopClose(n)

StopStep ==
    \/ \E on \in BOOLEAN : SetRelease(on)
    \/ StopBegin \/ StopAbandon \/ StopJoin \/ StopCloseAny

Next == RtStep \/ ResetStep \/ StopStep

(* The RT thread keeps cycling: it runs at SCHED_FIFO priority and each of
   its writes is bounded by a deadline.  A Python thread inside a call keeps
   executing it; that a call is made, or times out, is never assumed.       *)
Fairness ==
    /\ WF_vars(RtStep)
    /\ \A c \in Callers : WF_vars(\E w \in BOOLEAN : ResetRequest(c, w)) /\ WF_vars(ResetReturn(c))
    /\ WF_vars(StopJoin) /\ WF_vars(StopCloseAny)

Spec == Init /\ [][Next]_vars
FairSpec == Spec /\ Fairness

--------------------------------------------------------------------------------
(* Properties.                                                             *)

(* No watchdog is ever late: when a cycle has been accounted for, a counter
   at its limit has latched its fault.  (After the last warm-up cycle the TX
   counter may be past its limit: it is only looked at one cycle later.)    *)
WatchdogsNeverMiss ==
    /\ thread \notin {"top", "exited"} /\ loop_count > WarmupCycles /\ ~comm_loss
          => consecutive_empty < MaxEmpty
    /\ thread \in {"top", "exited"} /\ loop_count > WarmupCycles /\ ~comm_loss
          => consecutive_tx_fail < MaxTxFail
    /\ ~safety.damping => /\ safety.overspeed < OverspeedThreshold
                          /\ safety.overcurrent < OvercurrentThreshold

(* get_health() hides a latched fault only between the write that latched it
   and the next publication, one read later; it never skips a cycle.        *)
FaultsArePublished ==
    thread \notin {"top", "publish", "exited"} =>
        /\ comm_loss => published.comm_loss
        /\ tx_stalled => published.tx_stalled
        /\ published.loop_count = loop_count
        /\ published.stale = Stale(unseen)

(* The latches agree with one another: a stalled TX is a comm loss, comm loss
   is only entered after the warm-up, and the disable burst belongs to it.  *)
LatchesAgree ==
    /\ tx_stalled => comm_loss
    /\ comm_loss => loop_count > WarmupCycles
    /\ disable_sent => comm_loss /\ Action = "DISABLE"

(* Motors lose power only by decision: while the loop runs only by the
   DISABLE action, and at teardown only if the release was armed, so that an
   aborted session leaves the arm holding.                                  *)
LimpOnlyByDecision ==
    (\E m \in Motors : drive[m] = "limp")
        => Action = "DISABLE" \/ (stopper = "closed" /\ release)

(* Where the thread is in its cycle tells whether the warm-up is over, and
   whoever joined the thread knows that it left its loop.                   *)
CycleShape ==
    /\ thread = "warmup" => loop_count <= WarmupCycles
    /\ thread \in {"reset", "ack", "safety", "send"} => loop_count > WarmupCycles
    /\ stopper \in {"joined", "closed"} => thread = "exited"

(* The inductive invariant: what every step of the loop, of the callers of
   reset_errors() and of stop() relies on and keeps.                        *)
LoopInvariant ==
    /\ TypeOK
    /\ CycleShape
    /\ LatchesAgree
    /\ WatchdogsNeverMiss
    /\ FaultsArePublished
    /\ LimpOnlyByDecision

(* No cycle stiffens a motor behind a latched fault, whichever watchdog latched
   it and wherever in the cycle; and once the adapter takes a whole burst the
   arm is soft (under DISABLE the burst is sent only once, see below).        *)
NeverStiffUnderFault ==
    [][comm_loss \/ safety.damping \/ loop_count <= WarmupCycles =>
         /\ \A m \in Motors : drive'[m] = "stiff" => drive[m] = "stiff"
         /\ thread = "send" /\ thread' = "top" /\ consecutive_tx_fail' = 0
            /\ (Action = "HOLD" \/ ~comm_loss)
               => \A m \in Arm : drive'[m] # "stiff"]_vars

(* Faults stay latched until a request of reset_errors() is consumed.       *)
FaultsLatch ==
    [][\/ comm_loss /\ ~comm_loss'
       \/ tx_stalled /\ ~tx_stalled'
       \/ safety.damping /\ ~safety'.damping
       => requested /\ ~requested']_vars

(* stop(): nothing touches the motors or the port behind the thread's back:
   the port is closed only after the thread left its loop, and once it did
   only the release moves a motor.                                          *)
TeardownIsOrdered ==
    [][/\ stopper' = "closed" => thread = "exited"
       /\ thread = "exited" /\ drive' # drive => release /\ stopper' = "closed"]_vars

(* control_loop.cpp: after its first cycle DISABLE mode sends nothing because
   the "motors [are] already disabled".                                     *)
DisabledMotorsAreLimp ==
    thread = "top" /\ disable_sent => \A m \in Motors : drive[m] = "limp"

(* rt_robot.py: recovery from comm loss is "only via reset_errors()": with no
   fault latched and the last burst written in full, every motor is driven.  *)
ResetRecovers ==
    /\ thread = "top" /\ running /\ loop_count > WarmupCycles
    /\ ~comm_loss /\ consecutive_tx_fail = 0
    => \A m \in Motors : drive[m] # "limp"

(* Every request is taken as long as the loop is not stopped: the warm-up
   only delays it.                                                          *)
RequestsAreTaken == requested ~> (~requested \/ ~running)

(* A bus that falls silent for good, on a loop that is not reset for ever,
   ends up reported for good: what get_health() returned before a reset, or
   of a fault that has passed, does not count.                              *)
SilenceIsReported ==
    /\ <>[][~ \E heard \in RxPatterns : Receive(TRUE, heard)]_vars
    /\ <>[]~requested
    => <>[](published.comm_loss \/ ~running)

(* stop() returns: the thread leaves its loop and is joined, or the caller
   gave up on it.                                                           *)
StopEnds == stopper = "waiting" ~> stopper \in {"closed", "abandoned"}

================================================================================
