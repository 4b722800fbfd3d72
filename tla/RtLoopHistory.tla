---------------------------- MODULE RtLoopHistory ----------------------------
(***************************************************************************)
(* RtLoop with an observer: one history variable that records what the     *)
(* environment did, so that the loop's verdicts can be compared with it.   *)
(* The observer never restricts the loop (every disjunct of Next appears   *)
(* below, conjoined with the update of hist only).                         *)
(***************************************************************************)
EXTENDS RtLoop

VARIABLE hist

hvars == <<vars, hist>>

(* rx/tx: a byte was received / a cycle wrote all its frames since the
   counters were last zeroed.  fastRun, strainedRun: over-limit cycles in a
   row, up to the threshold.  calm: callers that were inside reset_errors()
   at a moment when no fault was latched.  served: callers whose request the
   loop took after they made it.                                           *)
History == [rx : BOOLEAN, tx : BOOLEAN,
            fastRun : 0..OverspeedThreshold, strainedRun : 0..OvercurrentThreshold,
            calm : SUBSET Callers, served : SUBSET Callers]

HInit ==
    /\ Init
    /\ hist = [rx |-> FALSE, tx |-> FALSE, fastRun |-> 0, strainedRun |-> 0,
               calm |-> {}, served |-> {}]

Faultless == ~comm_loss /\ ~tx_stalled /\ ~safety.damping
InCall == {c \in Callers : caller[c] # "idle"}

Run(n, over, threshold) == IF over THEN UpTo(n, threshold) ELSE 0

HReceive ==
    \E bytes \in BOOLEAN, heard \in RxPatterns :
        /\ Receive(bytes, heard)
        /\ hist' = [hist EXCEPT !.rx = @ \/ bytes]

HWarmup ==
    \E failed \in BOOLEAN :
        /\ Warmup(failed)
        /\ hist' = [hist EXCEPT !.tx = @ \/ ~failed,
                                !.rx = @ /\ loop_count # WarmupCycles]

HTakeReset ==
    /\ TakeReset
    /\ hist' = [hist EXCEPT !.rx = FALSE, !.tx = FALSE, !.fastRun = 0, !.strainedRun = 0,
                            !.served = @ \cup {c \in Callers : caller[c] = "polling"}]

HCheckSafety ==
    /\ CheckSafety
    /\ hist' = [hist EXCEPT !.fastRun = Run(@, fast # {}, OverspeedThreshold),
                            !.strainedRun = Run(@, strained # {}, OvercurrentThreshold)]

HSend ==
    \E n \in 0..NumMotors :
        /\ Send(n)
        /\ hist' = [hist EXCEPT !.tx = @ \/ (\A m \in Motors : m > n => Frame(m) = "none")]

HAckReset ==
    /\ AckReset
    /\ hist' = [hist EXCEPT !.calm = IF Faultless THEN @ \cup InCall ELSE @]

HResetBegin(c) ==
    /\ ResetBegin(c)
    /\ hist' = [hist EXCEPT !.calm = @ \ {c}, !.served = @ \ {c}]

HNext ==
    \/ HReceive \/ HWarmup \/ HTakeReset \/ HCheckSafety \/ HSend \/ HAckReset
    \/ \E c \in Callers : HResetBegin(c)
    \/ /\ \/ Publish \/ NoReset \/ ExitLoop \/ StopStep
          \/ \E c \in Callers : \/ \E wait \in BOOLEAN : ResetRequest(c, wait)
                                \/ ResetReturn(c) \/ ResetTimeout(c)
       /\ UNCHANGED hist

HSpec == HInit /\ [][HNext]_hvars
HFairSpec == HSpec /\ Fairness

--------------------------------------------------------------------------------
(* Health: a caller of health_problems() that waited for the verdict count
   (rt_robot.py) and reads no comm loss can conclude that the bus answered, and
   that the adapter took a full burst, since the watchdogs last started over. *)
VerdictCycles == WarmupCycles + MaxEmpty

VerdictSound ==
    /\ ack = 0 /\ thread # "ack"
    /\ published.loop_count > VerdictCycles
    /\ ~published.comm_loss
    => /\ hist.rx
       /\ MaxTxFail <= VerdictCycles => hist.tx

(* health_problems(): "'healthy' is never just 'not checked yet'", at the
   moment a cycle has just published its health.  A reset starts the watchdogs
   over, but not the count the verdict waits for.                           *)
HealthyMeansChecked ==
    /\ thread = "reset"
    /\ published.loop_count > VerdictCycles
    /\ ~published.comm_loss
    => hist.rx

(* Safety: a joint over its limit for threshold cycles in a row has always
   tripped damping mode by then, whatever the counter went through before.  *)
TripIsPrompt ==
    \/ safety.damping
    \/ /\ hist.fastRun < OverspeedThreshold
       /\ hist.strainedRun < OvercurrentThreshold

(* reset_errors(): when a call is about to return because the count moved,
   no fault was latched at some moment after the call began.                *)
AckMeansCleared ==
    \A c \in InCall : ack # before[c] => c \in hist.calm

(* What keeps the three invariants above: a leaky counter never falls behind
   the run it counts, the watchdogs' counters never fall behind the cycles they
   count, and the loop acknowledges a reset before it can latch a fault anew. *)
RunsAreCounted ==
    ~safety.damping => /\ hist.fastRun <= safety.overspeed
                       /\ hist.strainedRun <= safety.overcurrent

MidCycle == thread \notin {"top", "exited"}
SendsDone == IF MidCycle THEN loop_count - 1 ELSE loop_count

CyclesAreCounted ==
    ack = 0 /\ thread # "ack" /\ ~comm_loss =>
        /\ loop_count > WarmupCycles /\ ~hist.rx
              => consecutive_empty >= loop_count - WarmupCycles
        /\ ~hist.tx
              => consecutive_tx_fail >= SendsDone \/ consecutive_tx_fail = MaxTxFail
        /\ thread = "publish" /\ loop_count > WarmupCycles + 1
              => consecutive_tx_fail < MaxTxFail

HistoryInvariant ==
    /\ hist \in History
    /\ RunsAreCounted
    /\ CyclesAreCounted
    /\ VerdictSound
    /\ AckMeansCleared
    /\ thread = "ack" => Faultless

(* control_loop.h: reset_errors() "blocks until the RT thread processes the
   reset": a call that returns while the loop runs had its own request taken. *)
ReturnMeansServed ==
    [][\A c \in Callers :
          ResetReturn(c) /\ running => c \in hist.served]_hvars

================================================================================
