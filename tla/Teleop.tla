--------------------------------- MODULE Teleop --------------------------------
(***************************************************************************)
(* bi_teleop.py over the two arms of a BiDK1Leader and the pair of         *)
(* HostArms: connect both, then read the leader and command the follower   *)
(* until Ctrl-C, then disconnect both.  The leader's arms are read by the  *)
(* two workers of a thread pool, which no exception of the caller stops.   *)
(*                                                                         *)
(* A loop that retries a failed read, as the recording session's does with *)
(* its consecutive-error limit, is modelled with the script's own, which   *)
(* dies of it.  Dead is the script past an exception nobody catches.       *)
(***************************************************************************)
EXTENDS HostArms

CONSTANT MaxReads       \* bound on the calls of get_action()
ASSUME TeleopAssumption ==
    /\ MaxReads \in Nat
    /\ "teleop" \in Kinds => MaxLoops >= 2     \* connect() makes a loop per arm

VARIABLES
    script,         \* where the script is
    leader_open,    \* the leader's arms that are connected
    pool_open,      \* _read_pool takes tasks
    jobs,           \* the reads submitted, per arm and call
    reads,          \* calls of get_action() so far
    missed          \* a get_action() ended without both results (history)

leaderVars == <<script, leader_open, pool_open, jobs, reads, missed>>
vars == <<hostVars, leaderVars>>

Looping == {"loop", "await left", "await right", "send", "sending"}
Jobs == Arms \X (1..MaxReads)

TypeOK ==
    /\ HostTypeOK
    /\ script \in Looping \cup {"leader", "follower", "connecting", "stop leader",
                                "stop follower", "stopping", "done", "dead"}
    /\ leader_open \subseteq Arms /\ pool_open \in BOOLEAN
    /\ jobs \in [Jobs -> {"none", "queued", "running", "ok", "failed", "cancelled"}]
    /\ reads \in 0..MaxReads /\ missed \in BOOLEAN

Init ==
    /\ HostInit
    /\ script = "leader" /\ leader_open = {} /\ pool_open = TRUE
    /\ jobs = [j \in Jobs |-> "none"] /\ reads = 0 /\ missed = FALSE

Goes(from, to) == script = from /\ script' = to
-----------------------------------------------------------------------------
(* connect() of the leader, left arm first; either may raise in its bus or in
   the writes of configure(), which happen behind an open port.             *)
LeaderConnect ==
    /\ script = "leader" /\ kind = "teleop"
    /\ \/ script' = "follower" /\ leader_open' = Arms
       \/ script' = "dead" /\ leader_open' \in {{}, {"left"}, Arms}
    /\ UNCHANGED <<hostVars, pool_open, jobs, reads, missed>>

(* connect(), send_action() and disconnect() of the follower pair.          *)
Calls(from, to, name, steps) ==
    /\ Goes(from, to) /\ Begin(name, steps)
    /\ UNCHANGED <<fixed, arms, outside, asked, readers, leader_open, pool_open, jobs, reads,
                   missed>>
Ends(from, to) ==
    /\ Goes(from, IF raised THEN "dead" ELSE to) /\ Return
    /\ UNCHANGED <<leader_open, pool_open, jobs, reads, missed>>

Follower ==
    \/ Calls("follower", "connecting", "connect", Connect)
    \/ Ends("connecting", "loop")
    \/ Calls("send", "sending", "send", Both([s \in Arms |-> SendArm(s)]))
    \/ Ends("sending", "loop")
    \/ Calls("stop follower", "stopping", "disconnect", Disconnect)
    \/ Ends("stopping", "done")
-----------------------------------------------------------------------------
(* get_action(): both reads are submitted, then awaited, left first.        *)
Submit ==
    /\ Goes("loop", "await left") /\ pool_open /\ reads < MaxReads
    /\ reads' = reads + 1
    /\ jobs' = [j \in Jobs |-> IF j[2] = reads + 1 THEN "queued" ELSE jobs[j]]
    /\ UNCHANGED <<hostVars, leader_open, pool_open, missed>>

AwaitLeftOnly ==
    /\ Goes("await left", "send") /\ jobs[<<"left", reads>>] = "ok"
    /\ UNCHANGED <<hostVars, leader_open, pool_open, jobs, reads, missed>>
AwaitLeft ==
    /\ Goes("await left", "await right") /\ jobs[<<"left", reads>>] = "ok"
    /\ UNCHANGED <<hostVars, leader_open, pool_open, jobs, reads, missed>>

AwaitRight ==
    /\ Goes("await right", "send") /\ jobs[<<"right", reads>>] = "ok"
    /\ UNCHANGED <<hostVars, leader_open, pool_open, jobs, reads, missed>>

(* A failed left read leaves the right one behind.                          *)
ReadRaises ==
    /\ \/ script = "await left" /\ jobs[<<"left", reads>>] = "failed"
       \/ script = "await right" /\ jobs[<<"right", reads>>] = "failed"
    /\ script' \in {"loop", "dead"} /\ missed' = TRUE
    /\ UNCHANGED <<hostVars, leader_open, pool_open, jobs, reads>>

(* The pool: two workers, tasks in the order they came; a read raises on an
   arm that is not connected, and may fail on one that is.                  *)
Place(j) == 2 * j[2] + IF j[1] = "left" THEN 0 ELSE 1
Busy == {j \in Jobs : jobs[j] = "running"}
WorkerStart ==
    /\ Cardinality(Busy) < 2
    /\ \E j \in Jobs :
          /\ jobs[j] = "queued"
          /\ \A k \in Jobs : jobs[k] = "queued" => Place(j) <= Place(k)
          /\ jobs' = [jobs EXCEPT ![j] = IF j[1] \in leader_open THEN "running" ELSE "failed"]
    /\ UNCHANGED <<hostVars, script, leader_open, pool_open, reads, missed>>

WorkerEnd ==
    /\ \E j \in Busy, r \in {"ok", "failed"} : jobs' = [jobs EXCEPT ![j] = r]
    /\ UNCHANGED <<hostVars, script, leader_open, pool_open, reads, missed>>
-----------------------------------------------------------------------------
(* Ctrl-C, at any point of the loop.                                        *)
Interrupt ==
    /\ script \in Looping /\ script' = "stop leader"
    /\ call' = "none" /\ todo' = <<>> /\ raised' = FALSE /\ scratch' = TRUE
    /\ UNCHANGED <<fixed, arms, outside, asked, took, promise, readers, leader_open, pool_open,
                   jobs, reads, missed>>

(* disconnect() of the leader: the pool takes nothing more and does not wait
   for what runs; an arm that raises ends the script.                       *)
LeaderDisconnect ==
    /\ script = "stop leader"
    /\ pool_open' = FALSE
    /\ jobs' = [j \in Jobs |-> IF jobs[j] = "queued" THEN "cancelled" ELSE jobs[j]]
    /\ \/ script' = "stop follower" /\ leader_open' = {}
       \/ script' = "dead" /\ leader_open' \in {Arms, {"right"}}
    /\ UNCHANGED <<hostVars, reads, missed>>

TeleopStep ==
    \/ LeaderConnect \/ Follower \/ Submit \/ AwaitLeft \/ AwaitRight \/ ReadRaises
    \/ WorkerStart \/ WorkerEnd \/ Interrupt \/ LeaderDisconnect

(* How a call of the follower ended is for the script to see.               *)
HostStep ==
    /\ \/ SessionCall \/ CallStep \/ Publish \/ Wedge \/ CameraDies
       \/ kind # "teleop" /\ Return
    /\ UNCHANGED leaderVars

Next == HostStep \/ TeleopStep
Spec == Init /\ [][Next]_vars
-----------------------------------------------------------------------------
(* Two reads are on one arm's port at the same time only after a get_action()
   that raised: the sequential order of reads per arm that the pool replaced. *)
OneReadPerPort ==
    missed \/ \A s \in Arms : Cardinality({j \in Busy : j[1] = s}) <= 1
================================================================================
