------------------------------- MODULE StateRing -------------------------------
(***************************************************************************)
(* The timestamped state ring of csrc/control_loop.cpp: the RT thread      *)
(* pushes one sample per cycle (step 3b), any number of Python threads     *)
(* look up the state at a past time with get_state_at().                   *)
(*                                                                         *)
(* A slot is two words, the timestamp and the measured state, written in   *)
(* that order; write_idx counts finished samples and is stored after both. *)
(* Sample n (counting from 0) is taken at time n, and its state is n: a    *)
(* slot or a result whose two words differ is torn.                        *)
(***************************************************************************)
EXTENDS Integers

CONSTANTS
    RingSize,       \* STATE_RING_SIZE
    Readers,        \* threads that may call get_state_at()
    MaxAttempts,    \* MAX_ATTEMPTS
    MaxSamples      \* bound on the samples the RT thread takes

ASSUME RingAssumption ==
    /\ RingSize \in Nat \ {0}
    /\ MaxAttempts \in Nat \ {0}
    /\ MaxSamples \in Nat

Slots == 0..(RingSize - 1)
Times == 0..(MaxSamples - 1)
None == -1
Slot(n) == n % RingSize

VARIABLES
    ring,       \* state_ring_: [ts, val] per slot
    write_idx,  \* state_ring_write_idx_
    writing,    \* words of the current sample already stored: 0, 1 or 2
    pc,         \* per reader: where it is in get_state_at()
    target,     \* per reader: the time asked for
    attempt,    \* per reader: attempts started
    idx,        \* per reader: write_idx as loaded at the start of the attempt
    pos,        \* per reader: the sample number being looked at
    out,        \* per reader: the result so far
    seen        \* per reader: write_idx as loaded by the check (history)

producer == <<ring, write_idx, writing>>
reader   == <<pc, target, attempt, idx, pos, out, seen>>
vars     == <<producer, reader>>

Word == None..(MaxSamples - 1)
Where == {"idle", "load", "scan", "copy", "check", "found", "missing", "gave up"}

TypeOK ==
    /\ ring \in [Slots -> [ts : Word, val : Word]]
    /\ write_idx \in 0..MaxSamples
    /\ writing \in 0..2
    /\ pc \in [Readers -> Where]
    /\ target \in [Readers -> Times \cup {0}]
    /\ attempt \in [Readers -> 0..MaxAttempts]
    /\ idx \in [Readers -> 0..MaxSamples]
    /\ pos \in [Readers -> Word]
    /\ out \in [Readers -> [ts : Word, val : Word]]
    /\ seen \in [Readers -> 0..MaxSamples]

Empty == [ts |-> None, val |-> None]

Init ==
    /\ ring = [s \in Slots |-> Empty]
    /\ write_idx = 0 /\ writing = 0
    /\ pc = [r \in Readers |-> "idle"]
    /\ target = [r \in Readers |-> 0]
    /\ attempt = [r \in Readers |-> 0]
    /\ idx = [r \in Readers |-> 0]
    /\ pos = [r \in Readers |-> None]
    /\ out = [r \in Readers |-> Empty]
    /\ seen = [r \in Readers |-> 0]

--------------------------------------------------------------------------------
(* The RT thread.  (Mutated forms stand next to what they mutate.)          *)

StoreTime ==
    /\ writing = 0 /\ write_idx < MaxSamples
    /\ ring' = [ring EXCEPT ![Slot(write_idx)].ts = write_idx]
    /\ writing' = 1
    /\ UNCHANGED <<write_idx, reader>>

StoreState ==
    /\ writing = 1
    /\ ring' = [ring EXCEPT ![Slot(write_idx)].val = write_idx]
    /\ writing' = 2
    /\ UNCHANGED <<write_idx, reader>>

StoreIndexSkippingState ==
    /\ writing \in {1, 2}
    /\ write_idx' = write_idx + 1
    /\ writing' = 0
    /\ UNCHANGED <<ring, reader>>
StoreIndex ==
    /\ writing = 2
    /\ write_idx' = write_idx + 1
    /\ writing' = 0
    /\ UNCHANGED <<ring, reader>>

--------------------------------------------------------------------------------
(* get_state_at(target).                                                    *)

Call(r, t) ==
    /\ pc[r] = "idle"
    /\ target' = [target EXCEPT ![r] = t]
    /\ attempt' = [attempt EXCEPT ![r] = 0]
    /\ pc' = [pc EXCEPT ![r] = "load"]
    /\ UNCHANGED <<producer, idx, pos, out, seen>>

(* An attempt: load the index; nothing published yet is a miss.             *)
LoadIndexOnceMore(r) ==
    /\ pc[r] = "load"
    /\ IF attempt[r] > MaxAttempts
       THEN pc' = [pc EXCEPT ![r] = "gave up"] /\ UNCHANGED <<attempt, idx, pos>>
       ELSE /\ attempt' = [attempt EXCEPT ![r] = @ + 1]
            /\ idx' = [idx EXCEPT ![r] = write_idx]
            /\ pos' = [pos EXCEPT ![r] = write_idx - 1]
            /\ pc' = [pc EXCEPT ![r] = IF write_idx = 0 THEN "missing" ELSE "scan"]
    /\ UNCHANGED <<producer, target, out, seen>>
LoadIndex(r) ==
    /\ pc[r] = "load"
    /\ IF attempt[r] = MaxAttempts
       THEN pc' = [pc EXCEPT ![r] = "gave up"] /\ UNCHANGED <<attempt, idx, pos>>
       ELSE /\ attempt' = [attempt EXCEPT ![r] = @ + 1]
            /\ idx' = [idx EXCEPT ![r] = write_idx]
            /\ pos' = [pos EXCEPT ![r] = write_idx - 1]
            /\ pc' = [pc EXCEPT ![r] = IF write_idx = 0 THEN "missing" ELSE "scan"]
    /\ UNCHANGED <<producer, target, out, seen>>

(* The samples the ring held when the attempt loaded the index.             *)
Held(r) == {n \in Times : n < idx[r] /\ idx[r] - n <= RingSize}

(* The scan is over once RingSize samples, or all there are, were looked at. *)
LastScannedEarly(r) == pos[r] = 0 \/ idx[r] - pos[r] = RingSize - 1
LastScanned(r) == pos[r] = 0 \/ idx[r] - pos[r] = RingSize

(* From the newest sample down, the first slot stamped at or before target. *)
ScanOldestFirst(r) ==
    /\ pc[r] = "scan"
    /\ \E n \in Held(r) :
          LET ts == ring[Slot(n)].ts
          IN  /\ ts <= target[r]
              /\ pos' = [pos EXCEPT ![r] = n]
              /\ out' = [out EXCEPT ![r].ts = ts]
              /\ pc' = [pc EXCEPT ![r] = "copy"]
    /\ UNCHANGED <<producer, target, attempt, idx, seen>>
Scan(r) ==
    /\ pc[r] = "scan"
    /\ LET ts == ring[Slot(pos[r])].ts
       IN  IF ts <= target[r]
           THEN /\ out' = [out EXCEPT ![r].ts = ts]
                /\ pc' = [pc EXCEPT ![r] = "copy"] /\ UNCHANGED pos
           ELSE /\ UNCHANGED out
                /\ IF LastScanned(r)
                   THEN pc' = [pc EXCEPT ![r] = "missing"] /\ UNCHANGED pos
                   ELSE pos' = [pos EXCEPT ![r] = @ - 1] /\ UNCHANGED pc
    /\ UNCHANGED <<producer, target, attempt, idx, seen>>

CopyState(r) ==
    /\ pc[r] = "copy"
    /\ out' = [out EXCEPT ![r].val = ring[Slot(pos[r])].val]
    /\ pc' = [pc EXCEPT ![r] = "check"]
    /\ UNCHANGED <<producer, target, attempt, idx, pos, seen>>

(* The slot counts as not overwritten if no full lap was published since.   *)
InRing(now, n) == now - n <= RingSize

Check(r) ==
    /\ pc[r] = "check"
    /\ seen' = [seen EXCEPT ![r] = write_idx]
    /\ pc' = [pc EXCEPT ![r] = IF InRing(write_idx, pos[r]) THEN "found" ELSE "load"]
    /\ UNCHANGED <<producer, target, attempt, idx, pos, out>>

Return(r) ==
    /\ pc[r] \in {"found", "missing", "gave up"}
    /\ pc' = [pc EXCEPT ![r] = "idle"]
    /\ UNCHANGED <<producer, target, attempt, idx, pos, out, seen>>

Produce == StoreTime \/ StoreState \/ StoreIndex
Lookup(r) ==
    \/ \E t \in Times : Call(r, t)
    \/ LoadIndex(r) \/ Scan(r) \/ CopyState(r) \/ Check(r) \/ Return(r)

Next == Produce \/ \E r \in Readers : Lookup(r)

Spec == Init /\ [][Next]_vars

--------------------------------------------------------------------------------
Found(r) == pc[r] = "found"

(* What get_state_at() returns is one sample: "verify the slot we copied
   wasn't overwritten while we were reading it".                            *)
SnapshotUntorn == \A r \in Readers : Found(r) => out[r].ts = out[r].val

(* The same, unless the sample was exactly one full lap old at the check:
   then the producer may be in the middle of overwriting its slot.          *)
SnapshotUntornWithinLap ==
    \A r \in Readers :
        Found(r) /\ seen[r] - pos[r] < RingSize
            => out[r].ts = pos[r] /\ out[r].val = pos[r]

(* The result is the latest sample at or before the target among those
   published when the attempt began, not merely some earlier one.           *)
LatestAtOrBefore ==
    \A r \in Readers :
        Found(r) /\ out[r].ts = out[r].val
            => /\ out[r].ts <= target[r]
               /\ out[r].ts = target[r] \/ out[r].ts >= idx[r] - 1

(* The producer has begun to overwrite the slot of sample n.                *)
Overwritten(n) ==
    \/ n + RingSize < write_idx
    \/ n + RingSize = write_idx /\ writing > 0

(* A miss is accounted for: every sample held when the attempt began is newer
   than the target, or the producer has reached its slot since.             *)
MissIsExplained ==
    \A r \in Readers : pc[r] = "missing" =>
        \A n \in Held(r) : n > target[r] \/ Overwritten(n)

================================================================================
