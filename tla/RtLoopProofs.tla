----------------------------- MODULE RtLoopProofs -----------------------------
(***************************************************************************)
(* Theorems about RtLoop, for every number of motors and callers and every *)
(* value of the thresholds; then those of RtLoopHistory, which compare     *)
(* what the loop decided with what happened to it.                         *)
(***************************************************************************)
EXTENDS RtLoopHistory, TLAPS

(* The groups of variables an action may leave alone.                      *)
USE DEF latches, counters, feedback, resets, control

LEMMA UpToType ==
    ASSUME NEW cap \in Nat, NEW n \in 0..cap
    PROVE  UpTo(n, cap) \in 0..cap
BY DEF UpTo

LEMMA SafetyClearType == SafetyClear \in SafetyState
BY ThresholdsPositive DEF SafetyClear, SafetyState

(* apply_safety() keeps its counters within their thresholds.               *)
LEMMA ApplySafetyType ==
    ASSUME NEW s \in SafetyState, NEW f, NEW st
    PROVE  ApplySafety(s, f, st) \in SafetyState
<1>1. Leak(s.overspeed, f # {}, OverspeedThreshold) \in 0..OverspeedThreshold
    BY ThresholdsPositive DEF SafetyState, Leak
<1>2. Leak(s.overcurrent, st # {}, OvercurrentThreshold) \in 0..OvercurrentThreshold
    BY ThresholdsPositive DEF SafetyState, Leak
<1> DEFINE trip == \/ f # {} /\ Leak(s.overspeed, f # {}, OverspeedThreshold) >= OverspeedThreshold
                   \/ st # {} /\ Leak(s.overcurrent, st # {}, OvercurrentThreshold) >= OvercurrentThreshold
<1>3. (s.damping \/ trip) \in BOOLEAN
    OBVIOUS
<1> QED
    BY <1>1, <1>2, <1>3 DEF ApplySafety, SafetyState

LEMMA FrameType == \A m \in Motors : Frame(m) \in {"none", "disable", "damped", "emit", "stiff"}
BY DEF Frame

LEMMA ObeyType ==
    ASSUME NEW d \in Drives, NEW f \in {"none", "disable", "damped", "emit", "stiff"}
    PROVE  Obey(d, f) \in Drives
BY DEF Obey, Drives

LEMMA AccountTxType ==
    ASSUME TypeOK, NEW failed, AccountTx(failed)
    PROVE  consecutive_tx_fail' \in 0..MaxTxFail /\ tx_stalled' \in BOOLEAN
<1>1. consecutive_tx_fail' \in 0..MaxTxFail
    BY UpToType, LoopAssumption DEF AccountTx, TypeOK
<1>2. tx_stalled' \in BOOLEAN
    BY DEF AccountTx, TypeOK
<1> QED BY <1>1, <1>2

(* start() leaves every variable in its type.                               *)
LEMMA TypeInit == Init => TypeOK
<1> SUFFICES ASSUME Init PROVE TypeOK
    OBVIOUS
<1>1. published \in Health
    BY LoopAssumption DEF Init, Health
<1>2. safety \in SafetyState
    BY SafetyClearType DEF Init
<1>3. unseen \in [Motors -> 0..StaleThreshold]
    BY LoopAssumption DEF Init
<1>4. drive \in [Motors -> Drives]
    BY DEF Init, Drives
<1>5. caller \in [Callers -> Calling] /\ before \in [Callers -> Nat]
    BY DEF Init, Calling
<1>6. /\ loop_count \in 0..LoopCap
      /\ consecutive_empty \in 0..MaxEmpty /\ consecutive_tx_fail \in 0..MaxTxFail
    BY LoopAssumption DEF Init
<1> QED
    BY <1>1, <1>2, <1>3, <1>4, <1>5, <1>6 DEF Init, TypeOK, Threads, Stopping

(* Every step keeps it there.                                               *)
LEMMA TypeStep == TypeOK /\ [Next]_vars => TypeOK'
<1> SUFFICES ASSUME TypeOK, [Next]_vars PROVE TypeOK'
    OBVIOUS
<1>1. ASSUME NEW bytes \in BOOLEAN, NEW heard \in RxPatterns, Receive(bytes, heard)
      PROVE  TypeOK'
    <2>1. loop_count' \in 0..LoopCap /\ consecutive_empty' \in 0..MaxEmpty
        BY <1>1, UpToType, LoopAssumption DEF Receive, TypeOK
    <2>2. unseen' \in [Motors -> 0..StaleThreshold]
        BY <1>1, UpToType, LoopAssumption DEF Receive, TypeOK
    <2>3. fast' \in SUBSET Arm /\ strained' \in SUBSET Arm
        BY <1>1 DEF Receive, TypeOK
    <2>4. comm_loss' \in BOOLEAN /\ disable_sent' \in BOOLEAN
        BY <1>1 DEF Receive, WatchRx, TypeOK
    <2> QED BY <1>1, <2>1, <2>2, <2>3, <2>4 DEF Receive, TypeOK, Threads
<1>2. CASE Publish
    <2>1. safety.damping \in BOOLEAN
        BY DEF TypeOK, SafetyState
    <2>2. Stale(unseen) \in SUBSET Motors
        BY DEF Stale
    <2>3. Snapshot \in Health
        BY <2>1, <2>2 DEF Snapshot, Health, TypeOK
    <2> QED BY <1>2, <2>3 DEF Publish, TypeOK, Threads
<1>3. ASSUME NEW failed \in BOOLEAN, Warmup(failed) PROVE TypeOK'
    BY <1>3, AccountTxType, LoopAssumption DEF Warmup, TypeOK, Threads
<1>4. CASE TakeReset
    <2>1. consecutive_empty' \in 0..MaxEmpty /\ consecutive_tx_fail' \in 0..MaxTxFail
        BY <1>4, LoopAssumption DEF TakeReset, ClearLatches
    <2>2. safety' \in SafetyState
        BY <1>4, SafetyClearType DEF TakeReset, ClearLatches
    <2>3. UNCHANGED <<loop_count, feedback, published, drive, ack, caller, before, control>>
        BY <1>4 DEF TakeReset
    <2>4. thread' \in Threads /\ requested' \in BOOLEAN
        BY <1>4 DEF TakeReset, Threads
    <2> QED BY <1>4, <2>1, <2>2, <2>3, <2>4 DEF TakeReset, ClearLatches, TypeOK
<1>5. CASE AckReset
    BY <1>5 DEF AckReset, TypeOK, Threads
<1>6. CASE NoReset
    BY <1>6 DEF NoReset, TypeOK, Threads
<1>7. CASE CheckSafety
    BY <1>7, ApplySafetyType DEF CheckSafety, TypeOK, Threads
<1>8. ASSUME NEW n \in 0..NumMotors, Send(n) PROVE TypeOK'
    <2>1. drive' \in [Motors -> Drives]
        BY <1>8, FrameType, ObeyType DEF Send, TypeOK
    <2>2. consecutive_tx_fail' \in 0..MaxTxFail /\ tx_stalled' \in BOOLEAN
        BY <1>8, AccountTxType DEF Send
    <2>3. comm_loss' \in BOOLEAN /\ disable_sent' \in BOOLEAN
        BY <1>8 DEF Send, TypeOK
    <2> QED BY <1>8, <2>1, <2>2, <2>3 DEF Send, TypeOK, Threads
<1>9. CASE ExitLoop
    BY <1>9 DEF ExitLoop, TypeOK, Threads
<1>10. CASE ResetStep
    BY <1>10 DEF ResetStep, ResetBegin, ResetRequest, ResetReturn, ResetTimeout, TypeOK, Calling
<1>11. CASE StopStep
    <2>1. ASSUME NEW n \in 0..NumMotors, StopClose(n) PROVE TypeOK'
        BY <2>1 DEF StopClose, TypeOK, Stopping, Drives
    <2> QED BY <1>11, <2>1 DEF StopStep, SetRelease, StopBegin, StopAbandon, StopJoin,
                             StopCloseAny, TypeOK, Stopping
<1>12. CASE UNCHANGED vars
    BY <1>12 DEF vars, TypeOK
<1> QED BY <1>1, <1>2, <1>3, <1>4, <1>5, <1>6, <1>7, <1>8, <1>9, <1>10, <1>11, <1>12
        DEF Next, RtStep, ReceiveAny, WarmupAny, SendAny

(* Every variable keeps its type: no counter of the loop, the watchdogs or the
   safety check leaves its range, whatever its threshold.                   *)
THEOREM TypeCorrect == Spec => []TypeOK
BY TypeInit, TypeStep, PTL DEF Spec

--------------------------------------------------------------------------------
(* Facts about the helpers that the invariant rests on.                     *)

LEMMA UpToGrows ==
    ASSUME NEW cap \in Nat, NEW n \in 0..cap
    PROVE  UpTo(n, cap) >= n
BY DEF UpTo

(* A counter below its cap that passes it, reaches it.                      *)
LEMMA UpToPassed ==
    ASSUME NEW cap \in Nat, NEW n \in 0..cap, NEW w \in Nat, w < cap, n > w
    PROVE  UpTo(n, cap) > w
BY DEF UpTo

(* apply_safety() that does not trip leaves both counters below threshold.  *)
LEMMA ApplySafetyPrompt ==
    ASSUME NEW s \in SafetyState, NEW f, NEW st,
           ~s.damping => /\ s.overspeed < OverspeedThreshold
                         /\ s.overcurrent < OvercurrentThreshold,
           ~ApplySafety(s, f, st).damping
    PROVE  /\ ApplySafety(s, f, st).overspeed < OverspeedThreshold
           /\ ApplySafety(s, f, st).overcurrent < OvercurrentThreshold
<1> DEFINE speed   == Leak(s.overspeed, f # {}, OverspeedThreshold)
           current == Leak(s.overcurrent, st # {}, OvercurrentThreshold)
<1>1. s.overspeed \in 0..OverspeedThreshold /\ s.overcurrent \in 0..OvercurrentThreshold
    BY DEF SafetyState
<1>2. /\ ~s.damping
      /\ ~(f # {} /\ speed >= OverspeedThreshold)
      /\ ~(st # {} /\ current >= OvercurrentThreshold)
    BY Zenon DEF ApplySafety
<1>3. s.overspeed < OverspeedThreshold /\ s.overcurrent < OvercurrentThreshold
    BY <1>2
<1>4. speed < OverspeedThreshold
    <2>1. CASE f # {}
        BY <2>1, <1>1, <1>2, ThresholdsPositive DEF Leak
    <2>2. CASE ~(f # {})
        BY <2>2, <1>1, <1>3, ThresholdsPositive DEF Leak
    <2> QED BY <2>1, <2>2
<1>5. current < OvercurrentThreshold
    <2>1. CASE st # {}
        BY <2>1, <1>1, <1>2, ThresholdsPositive DEF Leak
    <2>2. CASE ~(st # {})
        BY <2>2, <1>1, <1>3, ThresholdsPositive DEF Leak
    <2> QED BY <2>1, <2>2
<1> QED BY <1>4, <1>5 DEF ApplySafety

(* account_tx() on a cycle that stays without a fault leaves the TX counter
   below its limit, once the warm-up is over.                               *)
LEMMA AccountTxPrompt ==
    ASSUME TypeOK, NEW failed, AccountTx(failed), loop_count > WarmupCycles,
           ~comm_loss, ~tx_stalled'
    PROVE  consecutive_tx_fail' < MaxTxFail
<1>1. consecutive_tx_fail' \in 0..MaxTxFail
    BY AccountTxType
<1>2. ~(consecutive_tx_fail' >= MaxTxFail)
    BY DEF AccountTx
<1> QED BY <1>1, <1>2, LoopAssumption

LEMMA FrameOfHold ==
    ASSUME NEW m \in Motors, Frame(m) = "disable"
    PROVE  Action = "DISABLE"
BY DEF Frame

LEMMA ObeyLimp ==
    ASSUME NEW d \in Drives, NEW f, f # "disable", Obey(d, f) = "limp",
           f \in {"none", "disable", "damped", "emit", "stiff"}
    PROVE  d = "limp"
BY DEF Obey

--------------------------------------------------------------------------------
(* The invariant.                                                           *)

LEMMA InvariantInit == Init => LoopInvariant
<1> SUFFICES ASSUME Init PROVE LoopInvariant
    OBVIOUS
<1>1. TypeOK
    BY TypeInit
<1>2. CycleShape /\ LatchesAgree
    BY DEF Init, CycleShape, LatchesAgree
<1>3. WatchdogsNeverMiss
    BY LoopAssumption, ThresholdsPositive DEF Init, WatchdogsNeverMiss, SafetyClear
<1>4. FaultsArePublished
    BY DEF Init, FaultsArePublished
<1>5. LimpOnlyByDecision
    BY DEF Init, LimpOnlyByDecision
<1> QED BY <1>1, <1>2, <1>3, <1>4, <1>5 DEF LoopInvariant

LEMMA InvariantStep == LoopInvariant /\ [Next]_vars => LoopInvariant'
<1> SUFFICES ASSUME LoopInvariant, [Next]_vars PROVE LoopInvariant'
    OBVIOUS
<1> USE DEF LoopInvariant
<1>t. TypeOK'
    BY TypeStep
<1>1. ASSUME NEW bytes \in BOOLEAN, NEW heard \in RxPatterns, Receive(bytes, heard)
      PROVE  LoopInvariant'
    <2>1. loop_count' \in Nat /\ (loop_count > WarmupCycles => loop_count' > WarmupCycles)
        BY <1>1, UpToType, UpToPassed, LoopAssumption DEF Receive, TypeOK
    <2>2. CycleShape'
        BY <1>1 DEF Receive, CycleShape
    <2>3. LatchesAgree'
        BY <1>1, <2>1 DEF Receive, WatchRx, RxLost, LatchesAgree
    <2>4. WatchdogsNeverMiss'
        <3>1. loop_count' > WarmupCycles /\ ~comm_loss' => consecutive_empty' < MaxEmpty
            BY <1>1, <1>t, LoopAssumption DEF Receive, WatchRx, RxLost, TypeOK
        <3> QED BY <1>1, <3>1 DEF Receive, WatchdogsNeverMiss
    <2>5. FaultsArePublished' /\ LimpOnlyByDecision'
        BY <1>1 DEF Receive, FaultsArePublished, LimpOnlyByDecision
    <2> QED BY <1>t, <2>2, <2>3, <2>4, <2>5
<1>2. CASE Publish
    <2>1. CycleShape' /\ LatchesAgree'
        BY <1>2, LoopAssumption DEF Publish, CycleShape, LatchesAgree, TypeOK
    <2>2. WatchdogsNeverMiss' /\ LimpOnlyByDecision'
        BY <1>2 DEF Publish, WatchdogsNeverMiss, LimpOnlyByDecision
    <2>3. FaultsArePublished'
        BY <1>2 DEF Publish, Snapshot, FaultsArePublished
    <2> QED BY <1>t, <2>1, <2>2, <2>3
<1>3. ASSUME NEW failed \in BOOLEAN, Warmup(failed)
      PROVE  LoopInvariant'
    <2>1. loop_count <= WarmupCycles /\ UNCHANGED tx_stalled
        BY <1>3, LoopAssumption DEF Warmup, CycleShape, AccountTx, TypeOK
    <2>2. CycleShape' /\ LatchesAgree'
        BY <1>3, <2>1 DEF Warmup, CycleShape, LatchesAgree
    <2>3. WatchdogsNeverMiss'
        BY <1>3, <2>1, LoopAssumption DEF Warmup, WatchdogsNeverMiss, TypeOK
    <2>4. FaultsArePublished' /\ LimpOnlyByDecision'
        BY <1>3 DEF Warmup, FaultsArePublished, LimpOnlyByDecision
    <2> QED BY <1>t, <2>2, <2>3, <2>4
<1>4. CASE TakeReset
    <2>1. CycleShape' /\ LatchesAgree'
        BY <1>4 DEF TakeReset, ClearLatches, CycleShape, LatchesAgree
    <2>2. WatchdogsNeverMiss'
        BY <1>4, LoopAssumption, ThresholdsPositive
        DEF TakeReset, ClearLatches, SafetyClear, WatchdogsNeverMiss
    <2>3. FaultsArePublished' /\ LimpOnlyByDecision'
        BY <1>4 DEF TakeReset, ClearLatches, FaultsArePublished, LimpOnlyByDecision
    <2> QED BY <1>t, <2>1, <2>2, <2>3
<1>5. CASE AckReset
    BY <1>t, <1>5 DEF AckReset, CycleShape, LatchesAgree, WatchdogsNeverMiss,
                      FaultsArePublished, LimpOnlyByDecision
<1>6. CASE NoReset
    BY <1>t, <1>6 DEF NoReset, CycleShape, LatchesAgree, WatchdogsNeverMiss,
                      FaultsArePublished, LimpOnlyByDecision
<1>7. CASE CheckSafety
    <2>1. CycleShape' /\ LatchesAgree'
        BY <1>7 DEF CheckSafety, CycleShape, LatchesAgree
    <2>2. WatchdogsNeverMiss'
        <3>1. ~safety'.damping => /\ safety'.overspeed < OverspeedThreshold
                                  /\ safety'.overcurrent < OvercurrentThreshold
            BY <1>7, ApplySafetyPrompt DEF CheckSafety, WatchdogsNeverMiss, TypeOK
        <3> QED BY <1>7, <3>1 DEF CheckSafety, WatchdogsNeverMiss
    <2>3. FaultsArePublished' /\ LimpOnlyByDecision'
        BY <1>7 DEF CheckSafety, FaultsArePublished, LimpOnlyByDecision
    <2> QED BY <1>t, <2>1, <2>2, <2>3
<1>8. ASSUME NEW n \in 0..NumMotors, Send(n)
      PROVE  LoopInvariant'
    <2>1. loop_count > WarmupCycles /\ UNCHANGED loop_count
        BY <1>8 DEF Send, CycleShape
    <2>2. CycleShape'
        BY <1>8 DEF Send, CycleShape
    <2>3. LatchesAgree'
        BY <1>8, <2>1 DEF Send, LatchesAgree, TypeOK
    <2>4. WatchdogsNeverMiss'
        <3>1. ~comm_loss' => consecutive_tx_fail' < MaxTxFail
            BY <1>8, <2>1, AccountTxPrompt DEF Send, LatchesAgree, TypeOK
        <3> QED BY <1>8, <3>1 DEF Send, WatchdogsNeverMiss
    <2>5. FaultsArePublished'
        BY <1>8 DEF Send, FaultsArePublished
    <2>6. LimpOnlyByDecision'
        <3> SUFFICES ASSUME NEW m \in Motors, drive'[m] = "limp", Action # "DISABLE"
                     PROVE  stopper' = "closed" /\ release'
            BY DEF LimpOnlyByDecision
        <3>1. Frame(m) # "disable"
            BY FrameOfHold
        <3>2. drive[m] = "limp"
            BY <1>8, <3>1, ObeyLimp, FrameType DEF Send, TypeOK
        <3> QED BY <1>8, <3>2 DEF Send, LimpOnlyByDecision
    <2> QED BY <1>t, <2>2, <2>3, <2>4, <2>5, <2>6
<1>9. CASE ExitLoop
    BY <1>t, <1>9 DEF ExitLoop, CycleShape, LatchesAgree, WatchdogsNeverMiss,
                      FaultsArePublished, LimpOnlyByDecision
<1>10. CASE ResetStep
    <2>1. UNCHANGED <<thread, loop_count, latches, counters, feedback, published, drive, control>>
        BY <1>10 DEF ResetStep, ResetBegin, ResetRequest, ResetReturn, ResetTimeout
    <2> QED BY <1>t, <2>1 DEF CycleShape, LatchesAgree, WatchdogsNeverMiss,
                              FaultsArePublished, LimpOnlyByDecision, Stale
<1>11. CASE StopStep
    <2>1. UNCHANGED <<thread, loop_count, latches, counters, feedback, published, resets>>
        BY <1>11 DEF StopStep, SetRelease, StopBegin, StopAbandon, StopJoin, StopCloseAny, StopClose
    <2>2. LatchesAgree' /\ WatchdogsNeverMiss' /\ FaultsArePublished'
        BY <2>1 DEF LatchesAgree, WatchdogsNeverMiss, FaultsArePublished, Stale
    <2>3. CycleShape'
        BY <1>11, <2>1 DEF CycleShape, StopStep, SetRelease, StopBegin, StopAbandon, StopJoin,
                           StopCloseAny, StopClose
    <2>4. LimpOnlyByDecision'
        <3>1. ASSUME NEW k \in 0..NumMotors, StopClose(k) PROVE LimpOnlyByDecision'
            BY <3>1, LoopAssumption DEF StopClose, LimpOnlyByDecision, Motors
        <3>2. CASE UNCHANGED drive
            BY <1>11, <3>1, <3>2 DEF StopStep, SetRelease, StopBegin, StopAbandon, StopJoin,
                           StopCloseAny, LimpOnlyByDecision
        <3> QED BY <1>11, <3>1, <3>2 DEF StopStep, SetRelease, StopBegin, StopAbandon, StopJoin,
                           StopCloseAny
    <2> QED BY <1>t, <2>2, <2>3, <2>4
<1>12. CASE UNCHANGED vars
    BY <1>t, <1>12 DEF vars, CycleShape, LatchesAgree, WatchdogsNeverMiss,
                       FaultsArePublished, LimpOnlyByDecision, Stale
<1> QED BY <1>1, <1>2, <1>3, <1>4, <1>5, <1>6, <1>7, <1>8, <1>9, <1>10, <1>11, <1>12
        DEF Next, RtStep, ReceiveAny, WarmupAny, SendAny

--------------------------------------------------------------------------------
(* The theorems.                                                            *)

(* The inductive invariant holds in every reachable state.                  *)
THEOREM LoopInvariantHolds == Spec => []LoopInvariant
BY InvariantInit, InvariantStep, PTL DEF Spec

(* No watchdog is ever late, however many cycles it waits for: a counter at its
   limit has latched comm loss or damping mode by the end of the cycle.     *)
THEOREM WatchdogsCorrect == Spec => []WatchdogsNeverMiss
BY LoopInvariantHolds, PTL DEF LoopInvariant

(* comm_loss, tx_stalled and the disable burst never contradict each other. *)
THEOREM LatchesCorrect == Spec => []LatchesAgree
BY LoopInvariantHolds, PTL DEF LoopInvariant

(* From the publication of a cycle to its end, get_health() shows every comm
   fault that is latched, and the cycle's own count and staleness.          *)
THEOREM PublicationCorrect == Spec => []FaultsArePublished
BY LoopInvariantHolds, PTL DEF LoopInvariant

(* Under HOLD no motor ever loses power while the loop is not torn down, and
   never at all unless the release was armed.                               *)
THEOREM PowerCorrect == Spec => []LimpOnlyByDecision
BY LoopInvariantHolds, PTL DEF LoopInvariant

(* Only a consumed request of reset_errors() clears a latched fault.        *)
THEOREM LatchingCorrect == Spec => FaultsLatch
<1> DEFINE Latched == \/ comm_loss /\ ~comm_loss'
                      \/ tx_stalled /\ ~tx_stalled'
                      \/ safety.damping /\ ~safety'.damping
                      => requested /\ ~requested'
<1>1. TypeOK /\ [Next]_vars => [Latched]_vars
    <2> SUFFICES ASSUME TypeOK, Next PROVE Latched
        OBVIOUS
    <2>1. ASSUME NEW bytes \in BOOLEAN, NEW heard \in RxPatterns, Receive(bytes, heard)
          PROVE  Latched
        BY <2>1 DEF Receive, WatchRx
    <2>2. CASE TakeReset
        BY <2>2 DEF TakeReset
    <2>3. CASE CheckSafety
        BY <2>3, Zenon DEF CheckSafety, ApplySafety
    <2>4. ASSUME NEW failed \in BOOLEAN, Warmup(failed) PROVE Latched
        BY <2>4 DEF Warmup, AccountTx
    <2>5. ASSUME NEW n \in 0..NumMotors, Send(n) PROVE Latched
        BY <2>5 DEF Send, AccountTx
    <2>6. CASE Publish \/ AckReset \/ NoReset \/ ExitLoop
        BY <2>6 DEF Publish, AckReset, NoReset, ExitLoop
    <2>7. CASE ResetStep
        BY <2>7 DEF ResetStep, ResetBegin, ResetRequest, ResetReturn, ResetTimeout
    <2>8. CASE StopStep
        BY <2>8 DEF StopStep, SetRelease, StopBegin, StopAbandon, StopJoin, StopCloseAny, StopClose
    <2> QED BY <2>1, <2>2, <2>3, <2>4, <2>5, <2>6, <2>7, <2>8
            DEF Next, RtStep, ReceiveAny, WarmupAny, SendAny
<1> QED BY <1>1, TypeCorrect, PTL DEF Spec, FaultsLatch

(* A set-point with stiffness is only ever sent by a cycle that latched no
   fault, neither before its burst nor in its safety check; and a cycle that
   did latch one softens the arm as soon as the adapter takes its burst.    *)
THEOREM StiffnessCorrect == Spec => NeverStiffUnderFault
<1> DEFINE Fault == comm_loss \/ safety.damping \/ loop_count <= WarmupCycles
           Kept == \A m \in Motors : drive'[m] = "stiff" => drive[m] = "stiff"
           Soft == thread = "send" /\ thread' = "top" /\ consecutive_tx_fail' = 0
                   /\ (Action = "HOLD" \/ ~comm_loss)
                      => \A m \in Arm : drive'[m] # "stiff"
<1>1. LoopInvariant /\ [Next]_vars => [Fault => Kept /\ Soft]_vars
    <2> SUFFICES ASSUME LoopInvariant, Next, Fault PROVE Kept /\ Soft
        OBVIOUS
    <2>1. ASSUME NEW n \in 0..NumMotors, Send(n) PROVE Kept /\ Soft
        <3>1. loop_count > WarmupCycles /\ loop_count \in Nat /\ (comm_loss \/ safety.damping)
            BY <2>1, LoopAssumption DEF Send, LoopInvariant, CycleShape, TypeOK
        <3>2. \A m \in Motors : Frame(m) # "stiff"
            BY <3>1 DEF Frame
        <3>3. Kept
            <4> SUFFICES ASSUME NEW m \in Motors, drive'[m] = "stiff" PROVE drive[m] = "stiff"
                OBVIOUS
            <4>1. drive'[m] = drive[m] \/ drive'[m] = Obey(drive[m], Frame(m))
                BY <2>1 DEF Send
            <4> QED BY <3>2, <4>1, FrameType DEF Obey
        <3>4. Soft
            <4> SUFFICES ASSUME consecutive_tx_fail' = 0, Action = "HOLD" \/ ~comm_loss,
                                NEW m \in Arm
                         PROVE  drive'[m] # "stiff"
                OBVIOUS
            <4>1. m \in Motors
                BY LoopAssumption DEF Arm, Motors
            <4>2. Frame(m) = "damped"
                BY <3>1, LoopAssumption DEF Frame, Arm, Gripper
            <4>3. ~(\E k \in Motors : k > n /\ Frame(k) # "none")
                BY <2>1, LoopAssumption DEF Send, AccountTx, UpTo, LoopInvariant, TypeOK
            <4>4. drive'[m] = Obey(drive[m], "damped")
                BY <2>1, <4>1, <4>2, <4>3 DEF Send, Motors
            <4> QED BY <4>4 DEF Obey
        <3> QED BY <3>3, <3>4
    <2>2. ASSUME NEW n \in 0..NumMotors, StopClose(n) PROVE Kept /\ Soft
        BY <2>2 DEF StopClose
    <2>3. CASE RtStep /\ ~SendAny
        <3>1. UNCHANGED drive /\ thread # "send"
            BY <2>3 DEF RtStep, ReceiveAny, Receive, Publish, WarmupAny, Warmup, TakeReset,
                        AckReset, NoReset, CheckSafety, ExitLoop
        <3> QED BY <3>1
    <2>4. CASE ResetStep
        BY <2>4 DEF ResetStep, ResetBegin, ResetRequest, ResetReturn, ResetTimeout
    <2>5. CASE StopStep
        <3>1. UNCHANGED thread
            BY <2>5 DEF StopStep, SetRelease, StopBegin, StopAbandon, StopJoin, StopCloseAny,
                        StopClose
        <3> QED BY <2>2, <2>5, <3>1 DEF StopStep, SetRelease, StopBegin, StopAbandon, StopJoin,
                                        StopCloseAny
    <2> QED BY <2>1, <2>3, <2>4, <2>5 DEF Next, SendAny
<1> QED BY <1>1, LoopInvariantHolds, PTL DEF Spec, NeverStiffUnderFault

(* stop(): the port closes only behind a thread that left its loop, and from
   then on only an armed release moves a motor.                             *)
THEOREM TeardownCorrect == Spec => TeardownIsOrdered
<1> DEFINE Ordered == /\ stopper' = "closed" => thread = "exited"
                      /\ thread = "exited" /\ drive' # drive => release /\ stopper' = "closed"
<1>1. LoopInvariant /\ [Next]_vars => [Ordered]_vars
    <2> SUFFICES ASSUME LoopInvariant, Next PROVE Ordered
        OBVIOUS
    <2> USE DEF LoopInvariant, CycleShape
    <2>1. CASE RtStep
        BY <2>1 DEF RtStep, ReceiveAny, Receive, Publish, WarmupAny, Warmup, TakeReset, AckReset,
                    NoReset, CheckSafety, SendAny, Send, ExitLoop
    <2>2. CASE ResetStep
        BY <2>2 DEF ResetStep, ResetBegin, ResetRequest, ResetReturn, ResetTimeout
    <2>3. ASSUME NEW n \in 0..NumMotors, StopClose(n) PROVE Ordered
        <3>1. drive' # drive => n > 0
            BY <2>3 DEF StopClose, TypeOK, Motors
        <3> QED BY <2>3, <3>1 DEF StopClose
    <2>4. CASE StopStep
        BY <2>3, <2>4 DEF StopStep, SetRelease, StopBegin, StopAbandon, StopJoin, StopCloseAny
    <2> QED BY <2>1, <2>2, <2>4 DEF Next
<1> QED BY <1>1, LoopInvariantHolds, PTL DEF Spec, TeardownIsOrdered

-----------------------------------------------------------------------------
(* The observer only watches: a step of RtLoopHistory is a step of RtLoop.  *)
LEMMA HistoryStep == HNext => Next
BY DEF HNext, HReceive, HWarmup, HTakeReset, HCheckSafety, HSend, HAckReset, HResetBegin,
       Next, RtStep, ResetStep, ReceiveAny, WarmupAny, SendAny

LEMMA HistoryBox == [HNext]_hvars => [Next]_vars
BY HistoryStep DEF hvars

(* RtLoopHistory implements RtLoop, so that every theorem about the loop holds
   of it as well.                                                           *)
THEOREM HistoryImplementsLoop == HSpec => Spec
<1>1. HInit => Init
    BY DEF HInit
<1> QED BY <1>1, HistoryBox, PTL DEF HSpec, Spec

(* The kinds of step the observer tells apart.                              *)
LEMMA HistoryCases ==
    ASSUME TypeOK, [HNext]_hvars
    PROVE  \/ HReceive \/ HWarmup \/ HTakeReset \/ HCheckSafety \/ HSend \/ HAckReset
           \/ \E c \in Callers : HResetBegin(c)
           \/ Publish /\ UNCHANGED hist
           \/ UNCHANGED <<loop_count, latches, counters, published, hist, ack, before>>
              /\ (UNCHANGED thread \/ (thread = "reset" /\ thread' = "safety")
                                   \/ (thread = "top" /\ thread' = "exited"))
              /\ \A c \in Callers : caller[c] = "idle" => caller'[c] = "idle"
<1>1. CASE NoReset /\ UNCHANGED hist
    BY <1>1 DEF NoReset
<1>2. CASE ExitLoop /\ UNCHANGED hist
    BY <1>2 DEF ExitLoop
<1>3. CASE StopStep /\ UNCHANGED hist
    BY <1>3 DEF StopStep, SetRelease, StopBegin, StopAbandon, StopJoin, StopCloseAny, StopClose
<1>4. ASSUME NEW c \in Callers, NEW wait \in BOOLEAN, ResetRequest(c, wait), UNCHANGED hist
      PROVE  UNCHANGED <<thread, loop_count, latches, counters, published, hist, ack, before>>
              /\ \A d \in Callers : caller[d] = "idle" => caller'[d] = "idle"
    BY <1>4 DEF ResetRequest, TypeOK
<1>5. ASSUME NEW c \in Callers, ResetReturn(c) \/ ResetTimeout(c), UNCHANGED hist
      PROVE  UNCHANGED <<thread, loop_count, latches, counters, published, hist, ack, before>>
              /\ \A d \in Callers : caller[d] = "idle" => caller'[d] = "idle"
    BY <1>5 DEF ResetReturn, ResetTimeout, TypeOK
<1>6. CASE UNCHANGED hvars
    BY <1>6 DEF hvars, vars
<1> QED BY <1>1, <1>2, <1>3, <1>4, <1>5, <1>6 DEF HNext

--------------------------------------------------------------------------------
LEMMA RunType ==
    ASSUME NEW t \in Nat, NEW n \in 0..t, NEW over
    PROVE  Run(n, over, t) \in 0..t
BY DEF Run, UpTo

LEMMA RunFollowed ==
    ASSUME NEW t \in Nat, NEW n \in 0..t, NEW count \in 0..t, NEW over,
           n <= count, count < t
    PROVE  Run(n, over, t) <= Leak(count, over, t)
<1>1. CASE over
    BY <1>1 DEF Run, UpTo, Leak
<1>2. CASE ~over
    BY <1>2 DEF Run, Leak
<1> QED BY <1>1, <1>2

LEMMA HistoryInit == HInit => HistoryInvariant
<1> SUFFICES ASSUME HInit PROVE HistoryInvariant
    OBVIOUS
<1>1. hist \in History
    BY ThresholdsPositive DEF HInit, History
<1>2. RunsAreCounted
    BY DEF HInit, Init, SafetyClear, RunsAreCounted
<1>3. CyclesAreCounted
    BY LoopAssumption DEF HInit, Init, CyclesAreCounted, SendsDone, MidCycle
<1>4. VerdictSound
    BY LoopAssumption DEF HInit, Init, VerdictSound, VerdictCycles
<1>5. AckMeansCleared
    BY DEF HInit, Init, AckMeansCleared, InCall
<1> QED BY <1>1, <1>2, <1>3, <1>4, <1>5 DEF HInit, Init, HistoryInvariant

(* The observer keeps its type.                                             *)
LEMMA HistoryType == hist \in History /\ TypeOK /\ [HNext]_hvars => hist' \in History
<1> SUFFICES ASSUME hist \in History, TypeOK, [HNext]_hvars PROVE hist' \in History
    OBVIOUS
<1>1. CASE HReceive
    BY <1>1 DEF HReceive, History
<1>2. CASE HWarmup
    BY <1>2 DEF HWarmup, History
<1>3. CASE HTakeReset
    <2>1. 0 \in 0..OverspeedThreshold /\ 0 \in 0..OvercurrentThreshold
        BY ThresholdsPositive
    <2> DEFINE S == hist.served \cup {c \in Callers : caller[c] = "polling"}
    <2>2. S \in SUBSET Callers
        BY DEF History
    <2>3. hist' = [hist EXCEPT !.rx = FALSE, !.tx = FALSE, !.fastRun = 0, !.strainedRun = 0,
                               !.served = S]
        BY <1>3 DEF HTakeReset
    <2> HIDE DEF S
    <2> QED BY <2>1, <2>2, <2>3 DEF History
<1>4. CASE HCheckSafety
    <2>1. /\ Run(hist.fastRun, fast # {}, OverspeedThreshold) \in 0..OverspeedThreshold
          /\ Run(hist.strainedRun, strained # {}, OvercurrentThreshold) \in 0..OvercurrentThreshold
        BY RunType, ThresholdsPositive DEF History
    <2> QED BY <1>4, <2>1 DEF HCheckSafety, History
<1>5. CASE HSend
    BY <1>5 DEF HSend, History
<1>6. CASE HAckReset
    BY <1>6 DEF HAckReset, History, InCall
<1>7. ASSUME NEW c \in Callers, HResetBegin(c) PROVE hist' \in History
    BY <1>7 DEF HResetBegin, History
<1>8. CASE UNCHANGED hist
    BY <1>8
<1> QED BY <1>1, <1>2, <1>3, <1>4, <1>5, <1>6, <1>7, <1>8, HistoryCases

(* A leaky counter never falls behind the run it counts.                    *)
LEMMA RunsKept ==
    hist \in History /\ LoopInvariant /\ RunsAreCounted /\ [HNext]_hvars => RunsAreCounted'
<1> SUFFICES ASSUME hist \in History, LoopInvariant, RunsAreCounted, [HNext]_hvars
             PROVE  RunsAreCounted'
    OBVIOUS
<1> USE DEF RunsAreCounted
<1>1. CASE HReceive \/ HWarmup \/ HSend \/ HAckReset \/ \E c \in Callers : HResetBegin(c)
    <2>1. UNCHANGED <<safety, hist.fastRun, hist.strainedRun>>
        BY <1>1 DEF HReceive, Receive, HWarmup, Warmup, HSend, Send, HAckReset, AckReset,
                    HResetBegin, ResetBegin, History
    <2> QED BY <2>1
<1>2. CASE HTakeReset
    BY <1>2 DEF HTakeReset, TakeReset, ClearLatches, SafetyClear, History
<1>3. CASE HCheckSafety
    <2> SUFFICES ASSUME ~safety'.damping
                 PROVE  /\ hist'.fastRun <= safety'.overspeed
                        /\ hist'.strainedRun <= safety'.overcurrent
        OBVIOUS
    <2>1. safety' = ApplySafety(safety, fast, strained)
        BY <1>3 DEF HCheckSafety, CheckSafety
    <2>2. ~safety.damping
        BY <2>1, Zenon DEF ApplySafety
    <2>3. /\ safety.overspeed \in 0..OverspeedThreshold /\ safety.overspeed < OverspeedThreshold
          /\ safety.overcurrent \in 0..OvercurrentThreshold /\ safety.overcurrent < OvercurrentThreshold
        BY <2>2 DEF LoopInvariant, TypeOK, SafetyState, WatchdogsNeverMiss
    <2>4. Run(hist.fastRun, fast # {}, OverspeedThreshold)
             <= Leak(safety.overspeed, fast # {}, OverspeedThreshold)
        BY <2>2, <2>3, RunFollowed, ThresholdsPositive DEF History
    <2>5. Run(hist.strainedRun, strained # {}, OvercurrentThreshold)
             <= Leak(safety.overcurrent, strained # {}, OvercurrentThreshold)
        BY <2>2, <2>3, RunFollowed, ThresholdsPositive DEF History
    <2>6. /\ hist'.fastRun = Run(hist.fastRun, fast # {}, OverspeedThreshold)
          /\ hist'.strainedRun = Run(hist.strainedRun, strained # {}, OvercurrentThreshold)
        BY <1>3 DEF HCheckSafety, History
    <2>7. /\ safety'.overspeed = Leak(safety.overspeed, fast # {}, OverspeedThreshold)
          /\ safety'.overcurrent = Leak(safety.overcurrent, strained # {}, OvercurrentThreshold)
        BY <2>1 DEF ApplySafety
    <2> QED BY <2>4, <2>5, <2>6, <2>7
<1>4. CASE UNCHANGED <<safety, hist>>
    BY <1>4
<1>5. CASE Publish /\ UNCHANGED hist
    BY <1>5 DEF Publish
<1> QED BY <1>1, <1>2, <1>3, <1>4, <1>5, HistoryCases DEF LoopInvariant

(* The loop acknowledges a reset before it can latch a fault again, so every
   caller whose count moved has seen a moment without one.                  *)
LEMMA AcksKept ==
    /\ hist \in History /\ TypeOK /\ AckMeansCleared /\ (thread = "ack" => Faultless)
    /\ [HNext]_hvars
    => AckMeansCleared' /\ (thread = "ack" => Faultless)'
<1> SUFFICES ASSUME hist \in History, TypeOK, AckMeansCleared, thread = "ack" => Faultless,
                    [HNext]_hvars
             PROVE  AckMeansCleared' /\ (thread = "ack" => Faultless)'
    OBVIOUS
<1> USE DEF AckMeansCleared, Faultless, InCall
<1>1. CASE HReceive
    BY <1>1 DEF HReceive, Receive, History
<1>2. CASE HWarmup \/ HCheckSafety \/ HSend
    BY <1>2 DEF HWarmup, Warmup, HCheckSafety, CheckSafety, HSend, Send, History
<1>3. CASE HTakeReset
    BY <1>3 DEF HTakeReset, TakeReset, ClearLatches, SafetyClear, History
<1>4. CASE HAckReset
    <2>1. UNCHANGED <<caller, before>> /\ thread' = "safety"
        BY <1>4 DEF HAckReset, AckReset
    <2>2. hist'.calm = hist.calm \cup InCall
        BY <1>4 DEF HAckReset, AckReset, History
    <2> QED BY <2>1, <2>2
<1>5. ASSUME NEW c \in Callers, HResetBegin(c)
      PROVE  AckMeansCleared' /\ (thread = "ack" => Faultless)'
    <2>1. hist'.calm = hist.calm \ {c}
        BY <1>5 DEF HResetBegin, History
    <2>2. \A d \in Callers : d # c => before'[d] = before[d] /\ caller'[d] = caller[d]
        BY <1>5 DEF HResetBegin, ResetBegin, TypeOK
    <2>3. before'[c] = ack /\ ack' = ack
        BY <1>5 DEF HResetBegin, ResetBegin, TypeOK
    <2>4. UNCHANGED <<thread, latches>>
        BY <1>5 DEF HResetBegin, ResetBegin
    <2> QED BY <2>1, <2>2, <2>3, <2>4
<1>6. CASE Publish /\ UNCHANGED hist
    BY <1>6 DEF Publish
<1> QED BY <1>1, <1>2, <1>3, <1>4, <1>5, <1>6, HistoryCases

(* The watchdogs' counters never fall behind the cycles they count, until the
   first reset.                                                             *)
LEMMA CyclesKept ==
    hist \in History /\ LoopInvariant /\ CyclesAreCounted /\ [HNext]_hvars => CyclesAreCounted'
<1> SUFFICES ASSUME hist \in History, LoopInvariant, CyclesAreCounted, [HNext]_hvars
             PROVE  CyclesAreCounted'
    OBVIOUS
<1> USE DEF SendsDone, MidCycle
<1> TypeOK /\ TypeOK'
    BY HistoryBox, TypeStep DEF LoopInvariant
<1>t. /\ loop_count \in 0..LoopCap /\ loop_count' \in 0..LoopCap
      /\ consecutive_empty \in 0..MaxEmpty /\ consecutive_empty' \in 0..MaxEmpty
      /\ consecutive_tx_fail \in 0..MaxTxFail /\ consecutive_tx_fail' \in 0..MaxTxFail
      /\ ack \in Nat
    BY DEF TypeOK
<1>1. CASE HReceive
    <2> SUFFICES ASSUME ack' = 0, ~comm_loss' PROVE CyclesAreCounted'
        BY DEF CyclesAreCounted
    <2> PICK bytes \in BOOLEAN, heard \in RxPatterns :
            Receive(bytes, heard) /\ hist' = [hist EXCEPT !.rx = @ \/ bytes]
        BY <1>1 DEF HReceive
    <2>1. /\ ack = 0 /\ ~comm_loss /\ thread = "top" /\ thread' = "publish"
          /\ loop_count' = UpTo(loop_count, LoopCap)
          /\ consecutive_empty' = IF bytes THEN 0 ELSE UpTo(consecutive_empty, MaxEmpty)
          /\ UNCHANGED consecutive_tx_fail
          /\ ~RxLost(loop_count', consecutive_empty')
        BY DEF Receive, WatchRx
    <2>2. loop_count' = loop_count + 1 \/ (loop_count' = loop_count /\ loop_count = LoopCap)
        BY <2>1, <1>t DEF UpTo
    <2>3. loop_count' > WarmupCycles /\ ~hist'.rx
             => consecutive_empty' >= loop_count' - WarmupCycles
        <3> SUFFICES ASSUME loop_count' > WarmupCycles, ~hist'.rx
                     PROVE  consecutive_empty' >= loop_count' - WarmupCycles
            OBVIOUS
        <3>1. ~hist.rx /\ ~bytes
            BY DEF History
        <3>2. consecutive_empty' = consecutive_empty + 1
            BY <2>1, <3>1, <1>t, LoopAssumption DEF UpTo, RxLost
        <3>3. CASE loop_count > WarmupCycles
            BY <3>1, <3>2, <3>3, <2>1, <2>2, <1>t, LoopAssumption DEF CyclesAreCounted
        <3>4. CASE loop_count <= WarmupCycles
            BY <3>2, <3>4, <2>2, <1>t, LoopAssumption
        <3> QED BY <3>3, <3>4, <1>t, LoopAssumption
    <2>4. hist'.tx = hist.tx
        BY DEF History
    <2>5. ~hist'.tx => consecutive_tx_fail' >= loop_count' - 1 \/ consecutive_tx_fail' = MaxTxFail
        BY <2>1, <2>2, <2>4, <1>t, LoopAssumption DEF CyclesAreCounted
    <2>6. loop_count' > WarmupCycles + 1 => consecutive_tx_fail' < MaxTxFail
        BY <2>1, <2>2, <1>t, LoopAssumption DEF LoopInvariant, WatchdogsNeverMiss
    <2> QED BY <2>1, <2>3, <2>5, <2>6 DEF CyclesAreCounted
<1>2. CASE HWarmup
    <2> PICK failed \in BOOLEAN :
            /\ Warmup(failed)
            /\ hist' = [hist EXCEPT !.tx = @ \/ ~failed, !.rx = @ /\ loop_count # WarmupCycles]
        BY <1>2 DEF HWarmup
    <2>1. loop_count <= WarmupCycles
        BY DEF Warmup, LoopInvariant, CycleShape
    <2>2. ~hist'.tx => ~hist.tx /\ failed
        BY DEF History
    <2>3. failed => consecutive_tx_fail' = UpTo(consecutive_tx_fail, MaxTxFail)
        BY DEF Warmup, AccountTx
    <2>4. /\ thread = "warmup" /\ thread' = "top"
          /\ UNCHANGED <<ack, comm_loss, loop_count>>
        BY DEF Warmup
    <2>5. ~hist'.tx /\ ack = 0 /\ ~comm_loss
             => consecutive_tx_fail' >= loop_count \/ consecutive_tx_fail' = MaxTxFail
        BY <2>2, <2>3, <2>4, <1>t, LoopAssumption DEF CyclesAreCounted, UpTo
    <2> QED BY <2>1, <2>4, <2>5, <1>t, LoopAssumption DEF CyclesAreCounted
<1>3. CASE HTakeReset
    BY <1>3 DEF HTakeReset, TakeReset, CyclesAreCounted
<1>4. CASE HAckReset
    BY <1>4, <1>t DEF HAckReset, AckReset, CyclesAreCounted
<1>5. CASE HCheckSafety
    BY <1>5 DEF HCheckSafety, CheckSafety, CyclesAreCounted, History
<1>6. CASE HSend
    <2> PICK n \in 0..NumMotors :
            /\ Send(n)
            /\ hist' = [hist EXCEPT !.tx = @ \/ (\A m \in Motors : m > n => Frame(m) = "none")]
        BY <1>6 DEF HSend
    <2> DEFINE failed == \E m \in Motors : m > n /\ Frame(m) # "none"
    <2>1. ~hist'.tx => ~hist.tx /\ failed
        BY DEF History
    <2>2. failed => consecutive_tx_fail' = UpTo(consecutive_tx_fail, MaxTxFail)
        BY DEF Send, AccountTx
    <2>3. /\ thread = "send" /\ thread' = "top"
          /\ UNCHANGED <<ack, loop_count, consecutive_empty>>
          /\ comm_loss => comm_loss'
        BY DEF Send
    <2>4. hist'.rx = hist.rx
        BY DEF History
    <2> HIDE DEF failed
    <2>5. ~hist'.tx /\ ack = 0 /\ ~comm_loss
             => consecutive_tx_fail' >= loop_count \/ consecutive_tx_fail' = MaxTxFail
        BY <2>1, <2>2, <2>3, <1>t, LoopAssumption DEF CyclesAreCounted, UpTo
    <2> QED BY <2>3, <2>4, <2>5, <1>t, LoopAssumption DEF CyclesAreCounted
<1>7. ASSUME NEW c \in Callers, HResetBegin(c) PROVE CyclesAreCounted'
    BY <1>7 DEF HResetBegin, ResetBegin, CyclesAreCounted, History
<1>8. CASE Publish /\ UNCHANGED hist
    BY <1>8 DEF Publish, CyclesAreCounted
<1>9. CASE /\ UNCHANGED <<loop_count, latches, counters, published, hist, ack, before>>
           /\ (UNCHANGED thread \/ (thread = "reset" /\ thread' = "safety")
                                \/ (thread = "top" /\ thread' = "exited"))
    BY <1>9 DEF CyclesAreCounted
<1> QED BY <1>1, <1>2, <1>3, <1>4, <1>5, <1>6, <1>7, <1>8, <1>9, HistoryCases

(* What get_health() shows at the verdict count has seen both directions of
   the bus.                                                                 *)
LEMMA VerdictKept ==
    /\ hist \in History /\ LoopInvariant /\ CyclesAreCounted /\ VerdictSound /\ [HNext]_hvars
    => VerdictSound'
<1> SUFFICES ASSUME hist \in History, LoopInvariant, CyclesAreCounted, VerdictSound, [HNext]_hvars
             PROVE  VerdictSound'
    OBVIOUS
<1> USE DEF VerdictCycles
<1> TypeOK
    BY DEF LoopInvariant
<1>1. CASE HReceive
    BY <1>1 DEF HReceive, Receive, VerdictSound, History
<1>2. CASE HWarmup
    <2>1. published.loop_count <= WarmupCycles
        BY <1>2 DEF HWarmup, Warmup, LoopInvariant, CycleShape, FaultsArePublished
    <2>2. UNCHANGED published
        BY <1>2 DEF HWarmup, Warmup
    <2>3. published.loop_count \in Nat
        BY DEF TypeOK, Health
    <2> QED BY <2>1, <2>2, <2>3, LoopAssumption DEF VerdictSound
<1>3. CASE HTakeReset
    BY <1>3 DEF HTakeReset, TakeReset, VerdictSound
<1>4. CASE HAckReset
    BY <1>4 DEF HAckReset, AckReset, VerdictSound, TypeOK
<1>5. CASE HCheckSafety \/ HSend
    BY <1>5 DEF HCheckSafety, CheckSafety, HSend, Send, VerdictSound, History
<1>6. ASSUME NEW c \in Callers, HResetBegin(c) PROVE VerdictSound'
    BY <1>6 DEF HResetBegin, ResetBegin, VerdictSound, History
<1>7. CASE Publish /\ UNCHANGED hist
    <2> SUFFICES ASSUME ack = 0, loop_count > VerdictCycles, ~comm_loss
                 PROVE  hist.rx /\ (MaxTxFail <= VerdictCycles => hist.tx)
        BY <1>7 DEF Publish, Snapshot, VerdictSound
    <2>1. /\ thread = "publish" /\ loop_count \in Nat
          /\ consecutive_empty \in 0..MaxEmpty /\ consecutive_tx_fail \in 0..MaxTxFail
        BY <1>7 DEF Publish, TypeOK
    <2>2. hist.rx
        BY <2>1, LoopAssumption DEF CyclesAreCounted, LoopInvariant, WatchdogsNeverMiss
    <2>3. ASSUME MaxTxFail <= VerdictCycles PROVE hist.tx
        <3>1. consecutive_tx_fail < MaxTxFail
            BY <2>1, LoopAssumption DEF CyclesAreCounted
        <3>2. ~hist.tx => consecutive_tx_fail >= loop_count - 1
            BY <2>1, <3>1, LoopAssumption DEF CyclesAreCounted, SendsDone, MidCycle
        <3> QED BY <2>1, <2>3, <3>1, <3>2, LoopAssumption
    <2> QED BY <2>2, <2>3
<1>8. CASE UNCHANGED <<loop_count, latches, counters, published, hist, ack, before>>
           /\ (UNCHANGED thread \/ (thread = "reset" /\ thread' = "safety")
                                \/ (thread = "top" /\ thread' = "exited"))
    BY <1>8 DEF VerdictSound
<1> QED BY <1>1, <1>2, <1>3, <1>4, <1>5, <1>6, <1>7, <1>8, HistoryCases

--------------------------------------------------------------------------------
(* The loop's invariant and the observer's hold together.                   *)
LEMMA HistoryInvariantHolds == HSpec => [](LoopInvariant /\ HistoryInvariant)
<1>1. HInit => LoopInvariant /\ HistoryInvariant
    BY HistoryInit, InvariantInit DEF HInit
<1>2. LoopInvariant /\ HistoryInvariant /\ [HNext]_hvars => (LoopInvariant /\ HistoryInvariant)'
    <2> SUFFICES ASSUME LoopInvariant, HistoryInvariant, [HNext]_hvars
                 PROVE  LoopInvariant' /\ HistoryInvariant'
        OBVIOUS
    <2> TypeOK
        BY DEF LoopInvariant
    <2>1. LoopInvariant'
        BY HistoryBox, InvariantStep
    <2>2. hist' \in History
        BY HistoryType DEF HistoryInvariant
    <2>3. RunsAreCounted' /\ CyclesAreCounted' /\ VerdictSound'
        BY RunsKept, CyclesKept, VerdictKept DEF HistoryInvariant
    <2>4. AckMeansCleared' /\ (thread = "ack" => Faultless)'
        BY AcksKept DEF HistoryInvariant
    <2> QED BY <2>1, <2>2, <2>3, <2>4 DEF HistoryInvariant
<1> QED BY <1>1, <1>2, PTL DEF HSpec

(* A joint over its velocity or torque limit for threshold cycles in a row has
   tripped damping mode by then, whatever the leaky counter went through.   *)
THEOREM TripCorrect == HSpec => []TripIsPrompt
<1>1. LoopInvariant /\ HistoryInvariant => TripIsPrompt
    <2> SUFFICES ASSUME LoopInvariant, HistoryInvariant, ~safety.damping
                 PROVE  /\ hist.fastRun < OverspeedThreshold
                        /\ hist.strainedRun < OvercurrentThreshold
        BY DEF TripIsPrompt
    <2>1. hist.fastRun <= safety.overspeed /\ hist.strainedRun <= safety.overcurrent
        BY DEF HistoryInvariant, RunsAreCounted
    <2>2. safety.overspeed < OverspeedThreshold /\ safety.overcurrent < OvercurrentThreshold
        BY DEF LoopInvariant, WatchdogsNeverMiss
    <2>3. /\ hist.fastRun \in Nat /\ hist.strainedRun \in Nat
          /\ safety.overspeed \in Nat /\ safety.overcurrent \in Nat
        BY ThresholdsPositive DEF LoopInvariant, TypeOK, SafetyState, HistoryInvariant, History
    <2> QED BY <2>1, <2>2, <2>3, ThresholdsPositive
<1> QED BY <1>1, HistoryInvariantHolds, PTL

(* A health verdict without comm loss, once the verdict count has passed and as
   long as no reset started the watchdogs over, means that both directions of
   the bus worked, for every warm-up length and every pair of limits.       *)
THEOREM VerdictCorrect == HSpec => []VerdictSound
BY HistoryInvariantHolds, PTL DEF HistoryInvariant

(* A reset_errors() call whose count moved has seen a moment without any latched
   fault since it began, however many callers there are.                    *)
THEOREM AckCorrect == HSpec => []AckMeansCleared
BY HistoryInvariantHolds, PTL DEF HistoryInvariant

================================================================================
