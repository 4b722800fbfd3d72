---------------------------- MODULE StateRingProofs ----------------------------
(***************************************************************************)
(* The invariants of StateRing for every size of the ring, any number of   *)
(* readers and of attempts.  The arithmetic is that of two laps: samples   *)
(* that share a slot are at least RingSize apart.                          *)
(***************************************************************************)
EXTENDS StateRing, TLAPS

(* The producer has stored the timestamp of sample n.                       *)
Stamped(n) == n < write_idx \/ (n = write_idx /\ writing > 0)

(* What the slots hold: the samples of the last lap, except that the one
   being written hides the one it replaces; stamps only ever move on.       *)
RingHoldsLastLap ==
    /\ writing > 0 => write_idx < MaxSamples
    /\ \A n \in Times :
          /\ n < write_idx => Overwritten(n) \/ (ring[Slot(n)].ts = n /\ ring[Slot(n)].val = n)
          /\ Stamped(n) => ring[Slot(n)].ts = n \/ ring[Slot(n)].ts >= n + RingSize
    /\ writing > 0 => ring[Slot(write_idx)].ts = write_idx
    /\ writing = 2 => ring[Slot(write_idx)].val = write_idx

(* An attempt in progress looks at a sample the ring held when it began.    *)
LooksAtHeld(r) ==
    pc[r] \in {"scan", "copy", "check", "found"} =>
        pos[r] \in Times /\ pos[r] < idx[r] /\ idx[r] - pos[r] <= RingSize

(* What it has passed over is newer than the target, or was reached.        *)
PassedOver(r) ==
    pc[r] = "scan" =>
        \A n \in Times : pos[r] < n /\ n < idx[r] => n > target[r] \/ Overwritten(n)

(* The stamp it took is the right one, and that of the sample it looks at
   unless the producer has reached the slot; so is the state it copied.     *)
TookTheLatest(r) ==
    pc[r] \in {"copy", "check", "found"} =>
        out[r].ts <= target[r] /\ (out[r].ts = target[r] \/ out[r].ts >= idx[r] - 1)
TookTheSample(r) ==
    /\ pc[r] \in {"copy", "check"} => out[r].ts = pos[r] \/ Overwritten(pos[r])
    /\ pc[r] = "check" => out[r].val = pos[r] \/ Overwritten(pos[r])


(* What MissIsExplained and SnapshotUntornWithinLap say of one reader.      *)
Answered(r) ==
    /\ pc[r] = "missing" => \A n \in Held(r) : n > target[r] \/ Overwritten(n)
    /\ Found(r) /\ seen[r] - pos[r] < RingSize => out[r].ts = pos[r] /\ out[r].val = pos[r]

ReaderInv(r) ==
    /\ idx[r] <= write_idx
    /\ LooksAtHeld(r) /\ PassedOver(r) /\ TookTheLatest(r) /\ TookTheSample(r)
    /\ Answered(r)

IInv == TypeOK /\ RingHoldsLastLap /\ \A r \in Readers : ReaderInv(r)
--------------------------------------------------------------------------------
(* The slots of the ring.                                                   *)

(* A sample number is a whole number of laps and its slot.                  *)
LEMMA LapsAndSlot ==
    ASSUME NEW n \in Nat
    PROVE  /\ n \div RingSize \in Int
           /\ n = RingSize * (n \div RingSize) + Slot(n)
           /\ Slot(n) \in Slots
  BY RingAssumption DEF Slot, Slots

LEMMA MultipleFarFromZero ==
    ASSUME NEW size \in Nat \ {0}, NEW laps \in Int, laps # 0
    PROVE  size * laps >= size \/ size * laps <= -size
<1>1. CASE laps >= 1
  BY <1>1
<1>2. CASE laps <= -1
  BY <1>2
<1> QED
  BY <1>1, <1>2

(* Two samples that share a slot are at least one lap apart.                *)
LEMMA SameSlotFarApart ==
    ASSUME NEW n \in Nat, NEW m \in Nat, Slot(n) = Slot(m), n > m
    PROVE  n >= m + RingSize
<1> DEFINE a == n \div RingSize
           b == m \div RingSize
<1>1. a \in Int /\ n = RingSize * a + Slot(n) /\ Slot(n) \in Int
  BY LapsAndSlot DEF Slots
<1>2. b \in Int /\ m = RingSize * b + Slot(n)
  BY LapsAndSlot
<1> HIDE DEF a, b
<1>3. n - m = RingSize * (a - b)
  BY <1>1, <1>2, RingAssumption
<1>4. a - b # 0
  BY <1>1, <1>2, <1>3, RingAssumption
<1>5. n - m >= RingSize \/ n - m <= -RingSize
  BY <1>1, <1>2, <1>3, <1>4, MultipleFarFromZero, RingAssumption
<1> QED
  BY <1>5, RingAssumption

(* One lap later the producer is back at the same slot.                     *)
LEMMA NextLapSameSlot ==
    ASSUME NEW n \in Nat
    PROVE  Slot(n + RingSize) = Slot(n)
<1> DEFINE m == n + RingSize
           a == n \div RingSize
           b == m \div RingSize
<1>1. a \in Int /\ n = RingSize * a + Slot(n) /\ Slot(n) \in 0..(RingSize - 1)
  BY LapsAndSlot DEF Slots
<1>2. b \in Int /\ m = RingSize * b + Slot(m) /\ Slot(m) \in 0..(RingSize - 1)
  <2>1. m \in Nat
    BY RingAssumption
  <2> QED
    BY <2>1, LapsAndSlot DEF Slots
<1> HIDE DEF a, b
<1>3. Slot(m) - Slot(n) = RingSize * (a + 1 - b)
  BY <1>1, <1>2, RingAssumption
<1>4. a + 1 - b = 0
  BY <1>1, <1>2, <1>3, MultipleFarFromZero, RingAssumption
<1> QED
  BY <1>1, <1>2, <1>3, <1>4, RingAssumption
--------------------------------------------------------------------------------
(* The producer's steps.                                                    *)

LEMMA ProducerTypes == IInv /\ Produce => TypeOK'
<1> SUFFICES ASSUME IInv, Produce PROVE TypeOK'
  OBVIOUS
<1> USE RingAssumption DEF TypeOK, IInv, RingHoldsLastLap, reader, Word, None, Times
<1>1. CASE StoreTime
  <2>1. Slot(write_idx) \in Slots /\ write_idx \in Word
    BY <1>1, LapsAndSlot DEF StoreTime
  <2> QED
    BY <1>1, <2>1 DEF StoreTime
<1>2. CASE StoreState
  <2>1. Slot(write_idx) \in Slots /\ write_idx \in Word
    BY <1>2, LapsAndSlot DEF StoreState
  <2> QED
    BY <1>2, <2>1 DEF StoreState
<1>3. CASE StoreIndex
  BY <1>3 DEF StoreIndex
<1> QED
  BY <1>1, <1>2, <1>3 DEF Produce

(* What the producer has reached it never gives back.                       *)
LEMMA OverwrittenStays ==
    IInv /\ Produce => \A n \in Int : Overwritten(n) => Overwritten(n)'
<1> USE RingAssumption DEF IInv, TypeOK, Overwritten
<1> QED
  BY DEF Produce, StoreTime, StoreState, StoreIndex

LEMMA ProducerKeepsLap == IInv /\ Produce => RingHoldsLastLap'
<1> SUFFICES ASSUME IInv, Produce PROVE RingHoldsLastLap'
  OBVIOUS
<1> USE RingAssumption DEF IInv, TypeOK, Times
<1>0. write_idx \in Nat /\ Slot(write_idx) \in Slots
  BY LapsAndSlot
<1>1. CASE StoreTime
  <2>1. ring' = [ring EXCEPT ![Slot(write_idx)].ts = write_idx]
        /\ write_idx' = write_idx /\ writing = 0 /\ writing' = 1 /\ write_idx < MaxSamples
    BY <1>1 DEF StoreTime
  <2>3. /\ ring'[Slot(write_idx)].ts = write_idx
        /\ \A s \in Slots : s # Slot(write_idx) => ring'[s] = ring[s]
    BY <1>0, <2>1
  <2> HIDE DEF TypeOK
  <2>2. ASSUME NEW n \in Times
        PROVE  /\ n < write_idx' => Overwritten(n)' \/ (ring[Slot(n)].ts = n /\ ring[Slot(n)].val = n)'
               /\ Stamped(n)' => (ring[Slot(n)].ts = n \/ ring[Slot(n)].ts >= n + RingSize)'
    <3>1. n \in Nat /\ Slot(n) \in Slots
      BY LapsAndSlot
    <3>2. CASE Slot(n) = Slot(write_idx) /\ n < write_idx
      <4>1. write_idx >= n + RingSize
        BY <1>0, <3>1, <3>2, SameSlotFarApart
      <4> QED
        BY <1>0, <2>1, <2>3, <3>1, <3>2, <4>1 DEF Overwritten, Stamped
    <3>3. CASE n = write_idx
      BY <1>0, <2>1, <2>3, <3>3 DEF Stamped
    <3>4. CASE Slot(n) # Slot(write_idx)
      BY <1>0, <2>1, <2>3, <3>1, <3>4 DEF RingHoldsLastLap, Overwritten, Stamped
    <3>5. CASE n > write_idx
      BY <1>0, <2>1, <3>1, <3>5 DEF Stamped
    <3> QED
      BY <1>0, <3>1, <3>2, <3>3, <3>4, <3>5
  <2> QED
    BY <1>0, <2>1, <2>2, <2>3 DEF RingHoldsLastLap
<1>2. CASE StoreState
  <2>1. ring' = [ring EXCEPT ![Slot(write_idx)].val = write_idx]
        /\ write_idx' = write_idx /\ writing = 1 /\ writing' = 2 /\ write_idx < MaxSamples
    BY <1>2 DEF StoreState, RingHoldsLastLap
  <2>3. \A s \in Slots : s # Slot(write_idx) => ring'[s] = ring[s]
    BY <1>0, <2>1
  <2>2. ASSUME NEW n \in Times
        PROVE  /\ n < write_idx' => Overwritten(n)' \/ (ring[Slot(n)].ts = n /\ ring[Slot(n)].val = n)'
               /\ Stamped(n)' => (ring[Slot(n)].ts = n \/ ring[Slot(n)].ts >= n + RingSize)'
    <3>1. n \in Nat /\ Slot(n) \in Slots
      BY LapsAndSlot
    <3>2. ring'[Slot(n)].ts = ring[Slot(n)].ts
      BY <1>0, <2>1, <3>1
    <3>3. Stamped(n)' <=> Stamped(n)
      BY <2>1 DEF Stamped
    <3>4. CASE Slot(n) = Slot(write_idx) /\ n < write_idx
      <4>1. write_idx >= n + RingSize
        BY <1>0, <3>1, <3>4, SameSlotFarApart
      <4> QED
        BY <1>0, <2>1, <3>1, <3>2, <3>3, <3>4, <4>1 DEF Overwritten, RingHoldsLastLap
    <3>5. CASE Slot(n) # Slot(write_idx)
      <4>1. ring'[Slot(n)] = ring[Slot(n)]
        BY <2>3, <3>1, <3>5
      <4>2. Overwritten(n) => Overwritten(n)'
        BY <3>1, OverwrittenStays
      <4>3. /\ n < write_idx => Overwritten(n) \/ (ring[Slot(n)].ts = n /\ ring[Slot(n)].val = n)
            /\ Stamped(n) => ring[Slot(n)].ts = n \/ ring[Slot(n)].ts >= n + RingSize
        BY DEF RingHoldsLastLap
      <4> QED
        BY <2>1, <3>3, <4>1, <4>2, <4>3
    <3>6. CASE ~(n < write_idx)
      BY <1>0, <2>1, <3>1, <3>2, <3>3, <3>6 DEF RingHoldsLastLap
    <3> QED
      BY <3>4, <3>5, <3>6
  <2> QED
    BY <1>0, <2>1, <2>2 DEF RingHoldsLastLap
<1>3. CASE StoreIndex
  <2>1. ring' = ring /\ write_idx' = write_idx + 1 /\ writing = 2 /\ writing' = 0
    BY <1>3 DEF StoreIndex
  <2>2. ring[Slot(write_idx)].ts = write_idx /\ ring[Slot(write_idx)].val = write_idx
    BY <1>0, <2>1 DEF RingHoldsLastLap
  <2> QED
    BY <1>0, <2>1, <2>2 DEF RingHoldsLastLap, Overwritten, Stamped
<1> QED
  BY <1>1, <1>2, <1>3 DEF Produce

(* The readers' invariant only depends on the producer by write_idx and by
   what has been overwritten, and both only grow.                           *)
LEMMA ProducerKeepsReaders == IInv /\ Produce => \A r \in Readers : ReaderInv(r)'
<1> SUFFICES ASSUME IInv, Produce, NEW r \in Readers PROVE ReaderInv(r)'
  OBVIOUS
<1>1. UNCHANGED reader /\ write_idx \in Nat /\ write_idx' \in Nat /\ write_idx <= write_idx'
  BY RingAssumption DEF Produce, StoreTime, StoreState, StoreIndex, IInv, TypeOK
<1>2. \A n \in Int : Overwritten(n) => Overwritten(n)'
  BY OverwrittenStays
<1>3. Times \subseteq Int /\ pos[r] \in Int /\ idx[r] \in Int
  BY RingAssumption DEF Times, IInv, TypeOK, Word, None
<1>4. ReaderInv(r)
  BY DEF IInv
<1> USE <1>1, <1>2, <1>3, <1>4 DEF ReaderInv, reader
<1>5. (idx[r] <= write_idx)' /\ LooksAtHeld(r)' /\ TookTheLatest(r)'
  BY DEF LooksAtHeld, TookTheLatest
<1>6. PassedOver(r)' /\ TookTheSample(r)' /\ Answered(r)'
  BY DEF PassedOver, TookTheSample, Answered, Held, Found
<1> QED
  BY <1>5, <1>6

--------------------------------------------------------------------------------
(* A reader's steps.                                                        *)

(* The slot a reader looks at.                                              *)
LEMMA LookedAt ==
    ASSUME IInv, NEW r \in Readers, pc[r] \in {"scan", "copy", "check", "found"}
    PROVE  /\ pos[r] \in Times /\ pos[r] \in Nat
           /\ pos[r] < idx[r] /\ idx[r] - pos[r] <= RingSize /\ pos[r] < write_idx
           /\ Slot(pos[r]) \in Slots /\ ring[Slot(pos[r])] \in [ts : Word, val : Word]
<1>1. ReaderInv(r) /\ TypeOK
  BY DEF IInv
<1>2. pos[r] \in Times /\ pos[r] < idx[r] /\ idx[r] - pos[r] <= RingSize /\ idx[r] <= write_idx
  BY <1>1 DEF ReaderInv, LooksAtHeld
<1>3. pos[r] \in Nat /\ pos[r] < write_idx
  BY <1>1, <1>2, RingAssumption DEF Times, TypeOK
<1>4. Slot(pos[r]) \in Slots
  BY <1>3, LapsAndSlot
<1> QED
  BY <1>1, <1>2, <1>3, <1>4 DEF TypeOK

LEMMA LookupKeepsRing ==
    ASSUME NEW r \in Readers, Lookup(r)
    PROVE  UNCHANGED producer
  BY DEF Lookup, Call, LoadIndex, Scan, CopyState, Check, Return

LEMMA LookupTypes ==
    ASSUME IInv, NEW r \in Readers, Lookup(r)
    PROVE  TypeOK'
<1>0. TypeOK /\ UNCHANGED producer
  BY LookupKeepsRing DEF IInv
<1>01. Times \subseteq Word /\ Times \subseteq Nat /\ (MaxSamples > 0 => MaxSamples - 1 \in Times)
       /\ Word = (-1)..(MaxSamples - 1)
  BY RingAssumption DEF Times, Word, None
<1>1. ASSUME NEW t \in Times, Call(r, t) PROVE TypeOK'
  <2>1. 0 \in 0..MaxAttempts
    BY RingAssumption
  <2> QED
    BY <1>0, <1>1, <2>1 DEF Call, TypeOK, Where, producer
<1>2. CASE LoadIndex(r)
  <2>1. write_idx \in 0..MaxSamples /\ write_idx - 1 \in Word
    BY <1>0, <1>01, RingAssumption DEF TypeOK
  <2>2. CASE attempt[r] = MaxAttempts
    BY <1>0, <1>2, <2>2 DEF LoadIndex, TypeOK, Where, producer
  <2>3. CASE attempt[r] # MaxAttempts
    <3>1. attempt[r] \in 0..MaxAttempts
      BY <1>0 DEF TypeOK
    <3>2. attempt[r] + 1 \in 0..MaxAttempts
      BY <2>3, <3>1, RingAssumption
    <3> QED
      BY <1>0, <1>2, <2>1, <2>3, <3>2 DEF LoadIndex, TypeOK, Where, producer
  <2> QED
    BY <2>2, <2>3
<1>3. CASE Scan(r)
  <2>1. pos[r] \in Nat /\ pos[r] \in Word /\ ring[Slot(pos[r])].ts \in Word
    BY <1>01, <1>3, LookedAt DEF Scan
  <2>2. pos[r] - 1 \in Word
    BY <1>01, <2>1, RingAssumption
  <2>3. /\ pos' = pos \/ pos' = [pos EXCEPT ![r] = pos[r] - 1]
        /\ out' = out \/ out' = [out EXCEPT ![r].ts = ring[Slot(pos[r])].ts]
        /\ pc' = pc \/ pc' = [pc EXCEPT ![r] = "copy"] \/ pc' = [pc EXCEPT ![r] = "missing"]
        /\ UNCHANGED <<target, attempt, idx, seen>>
    BY <1>3 DEF Scan
  <2>4. pos' \in [Readers -> Word] /\ out' \in [Readers -> [ts : Word, val : Word]]
        /\ pc' \in [Readers -> Where]
    BY <1>0, <2>1, <2>2, <2>3 DEF TypeOK, Where
  <2> QED
    BY <1>0, <2>3, <2>4 DEF TypeOK, producer
<1>4. CASE CopyState(r)
  <2>1. ring[Slot(pos[r])].val \in Word
    BY <1>4, LookedAt DEF CopyState
  <2> QED
    BY <1>0, <1>4, <2>1 DEF CopyState, TypeOK, Where, producer
<1>5. CASE Check(r)
  BY <1>0, <1>5 DEF Check, TypeOK, Where, producer
<1>6. CASE Return(r)
  BY <1>0, <1>6 DEF Return, TypeOK, Where, producer
<1> QED
  BY <1>1, <1>2, <1>3, <1>4, <1>5, <1>6 DEF Lookup

LEMMA LookupKeepsOthers ==
    ASSUME IInv, NEW r \in Readers, Lookup(r), NEW q \in Readers, q # r
    PROVE  ReaderInv(q)'
<1>1. /\ pc'[q] = pc[q] /\ target'[q] = target[q] /\ idx'[q] = idx[q]
      /\ pos'[q] = pos[q] /\ out'[q] = out[q] /\ seen'[q] = seen[q]
  BY DEF IInv, TypeOK, Lookup, Call, LoadIndex, Scan, CopyState, Check, Return
<1>2. UNCHANGED producer
  BY LookupKeepsRing
<1>3. ReaderInv(q)
  BY DEF IInv
<1> QED
  BY <1>1, <1>2, <1>3 DEF ReaderInv, LooksAtHeld, PassedOver, TookTheLatest, TookTheSample,
     Answered, Held, Found, Overwritten, producer

(* What the slot of a sample of the last laps holds.                        *)
LEMMA SlotHolds ==
    ASSUME IInv, NEW n \in Times, n < write_idx
    PROVE  /\ Overwritten(n) \/ (ring[Slot(n)].ts = n /\ ring[Slot(n)].val = n)
           /\ ring[Slot(n)].ts = n \/ ring[Slot(n)].ts >= n + RingSize
           /\ Overwritten(n) => ring[Slot(n)].ts >= n + RingSize
<1>1. RingHoldsLastLap /\ TypeOK
  BY DEF IInv
<1>2. Overwritten(n) \/ (ring[Slot(n)].ts = n /\ ring[Slot(n)].val = n)
  BY <1>1 DEF RingHoldsLastLap
<1>3. ring[Slot(n)].ts = n \/ ring[Slot(n)].ts >= n + RingSize
  BY <1>1 DEF RingHoldsLastLap, Stamped
<1>4. ASSUME Overwritten(n) PROVE ring[Slot(n)].ts >= n + RingSize
  <2> DEFINE m == n + RingSize
  <2>1. n \in Nat /\ m \in Nat /\ m <= write_idx /\ (m = write_idx => writing > 0)
    BY <1>1, <1>4, RingAssumption DEF Times, TypeOK, Overwritten
  <2>2. m < MaxSamples
    BY <1>1, <2>1, RingAssumption DEF RingHoldsLastLap, TypeOK
  <2>3. m \in Times /\ Stamped(m) /\ Slot(m) = Slot(n)
    BY <1>1, <2>1, <2>2, NextLapSameSlot, RingAssumption DEF Times, Stamped, TypeOK
  <2>4. ring[Slot(n)].ts = m \/ ring[Slot(n)].ts >= m + RingSize
    BY <1>1, <2>3 DEF RingHoldsLastLap
  <2>5. ring[Slot(n)].ts \in Int
    BY <1>1, <2>1, LapsAndSlot DEF TypeOK, Word, None
  <2> QED
    BY <2>1, <2>4, <2>5, RingAssumption
<1> QED
  BY <1>2, <1>3, <1>4

LEMMA NothingBetween ==
    ASSUME NEW i \in Int, NEW j \in Int
    PROVE  /\ i <= j /\ i + 1 > j => i = j
           /\ i <= j /\ i # j => i < j
  OBVIOUS

LEMMA LookupKeepsOwn ==
    ASSUME IInv, NEW r \in Readers, Lookup(r)
    PROVE  ReaderInv(r)'
<1>0. /\ UNCHANGED producer /\ ReaderInv(r) /\ RingHoldsLastLap
      /\ write_idx \in Nat /\ write_idx <= MaxSamples
      /\ idx[r] \in Nat /\ pos[r] \in Int /\ target[r] \in Int
      /\ out[r].ts \in Int /\ out[r].val \in Int
      /\ Times \subseteq Nat /\ RingSize \in Nat \ {0}
  BY LookupKeepsRing, RingAssumption DEF IInv, TypeOK, Word, None, Times
<1>01. pc \in [Readers -> Where] /\ target \in [Readers -> Int] /\ idx \in [Readers -> Int]
       /\ pos \in [Readers -> Int] /\ out \in [Readers -> [ts : Int, val : Int]]
       /\ seen \in [Readers -> Int]
  BY RingAssumption DEF IInv, TypeOK, Word, None, Times
<1>02. MaxSamples \in Nat /\ \A n \in Nat : n < MaxSamples => n \in Times
  BY RingAssumption DEF Times
<1>03. \A n \in Times : n \in Nat /\ n < MaxSamples
  BY RingAssumption DEF Times
<1> USE <1>0, <1>01 DEF producer
<1>1. ASSUME NEW t \in Times, Call(r, t) PROVE ReaderInv(r)'
  <2>1. pc'[r] = "load" /\ UNCHANGED idx
    BY <1>1 DEF Call
  <2> QED
    BY <2>1 DEF ReaderInv, LooksAtHeld, PassedOver, TookTheLatest, TookTheSample, Answered, Found
<1>2. CASE LoadIndex(r)
  <2>1. CASE pc'[r] = "gave up"
    BY <1>2, <2>1 DEF LoadIndex, ReaderInv, LooksAtHeld, PassedOver, TookTheLatest,
       TookTheSample, Answered, Found
  <2>2. CASE pc'[r] # "gave up"
    <3>1. /\ idx'[r] = write_idx /\ pos'[r] = write_idx - 1
          /\ pc'[r] = IF write_idx = 0 THEN "missing" ELSE "scan"
      BY <1>2, <2>2 DEF LoadIndex
    <3> QED
      BY <3>1, RingAssumption DEF ReaderInv, LooksAtHeld, PassedOver, TookTheLatest,
         TookTheSample, Answered, Found, Held, Times
  <2> QED
    BY <2>1, <2>2
<1>3. CASE Scan(r)
  <2> DEFINE ts == ring[Slot(pos[r])].ts
  <2>1. /\ pc[r] = "scan" /\ UNCHANGED <<target, idx, seen>>
        /\ pos[r] \in Times /\ pos[r] < idx[r] /\ idx[r] - pos[r] <= RingSize
        /\ pos[r] \in Nat /\ pos[r] < write_idx /\ ts \in Int
    BY <1>3, LookedAt DEF Scan, Word, None
  <2>2. /\ ts = pos[r] \/ Overwritten(pos[r])
        /\ Overwritten(pos[r]) => ts >= pos[r] + RingSize
        /\ ts = pos[r] \/ ts >= pos[r] + RingSize
    BY <2>1, SlotHolds
  <2>4. PassedOver(r)
    BY DEF ReaderInv
  <2> HIDE DEF ts
  <2>5. CASE ts <= target[r]
    <3>1. /\ pc'[r] = "copy" /\ UNCHANGED pos /\ out'[r].ts = ts
      BY <1>3, <2>5 DEF Scan, ts
    <3>2. ts = target[r] \/ ts >= idx[r] - 1
      <4>1. CASE Overwritten(pos[r])
        BY <2>1, <2>2, <4>1
      <4>2. CASE ts = pos[r] /\ ~Overwritten(pos[r]) /\ pos[r] # idx[r] - 1
        <5> DEFINE n == pos[r] + 1
        <5>1. n \in Nat /\ pos[r] < n /\ n < idx[r] /\ n < write_idx
          BY <2>1, <4>2 DEF ReaderInv
        <5>2. n \in Times
          BY <1>02, <5>1
        <5>3. n > target[r] \/ Overwritten(n)
          BY <2>1, <2>4, <5>1, <5>2 DEF PassedOver
        <5>4. ~Overwritten(n)
          BY <2>1, <4>2 DEF Overwritten
        <5>5. pos[r] <= target[r] /\ pos[r] + 1 > target[r]
          BY <2>5, <4>2, <5>3, <5>4
        <5>6. pos[r] = target[r]
          BY <5>5, NothingBetween
        <5> QED
          BY <4>2, <5>6
      <4>3. CASE pos[r] = idx[r] - 1
        BY <2>1, <2>2, <4>3
      <4> QED
        BY <2>2, <4>1, <4>2, <4>3
    <3> QED
      BY <2>1, <2>2, <2>5, <3>1, <3>2 DEF ReaderInv, LooksAtHeld, PassedOver, TookTheLatest,
         TookTheSample, Answered, Found, Overwritten
  <2>6. CASE ts > target[r]
    <3>1. pos[r] > target[r] \/ Overwritten(pos[r])
      BY <2>1, <2>2, <2>6
    <3>2. ASSUME NEW n \in Times, pos[r] <= n, n < idx[r]
          PROVE  n > target[r] \/ Overwritten(n)
      <4>1. n = pos[r] \/ pos[r] < n
        BY <1>03, <2>1, <3>2
      <4> QED
        BY <2>1, <2>4, <3>1, <3>2, <4>1 DEF PassedOver
    <3>3. CASE LastScanned(r)
      <4>1. pc'[r] = "missing"
        BY <1>3, <2>1, <2>6, <3>3 DEF Scan, ts
      <4>2. \A n \in Held(r) : pos[r] <= n /\ n < idx[r]
        BY <2>1, <3>3 DEF Held, LastScanned
      <4> QED
        BY <2>1, <3>2, <4>1, <4>2 DEF ReaderInv, LooksAtHeld, PassedOver, TookTheLatest,
           TookTheSample, Answered, Found, Overwritten, Held
    <3>4. CASE ~LastScanned(r)
      <4>1. pc'[r] = "scan" /\ pos'[r] = pos[r] - 1
        BY <1>3, <2>1, <2>6, <3>4 DEF Scan, ts
      <4>2. pos[r] # 0 /\ idx[r] - pos[r] # RingSize
        BY <3>4 DEF LastScanned
      <4>3. pos'[r] \in Times /\ pos'[r] < idx[r] /\ idx[r] - pos'[r] <= RingSize
        <5>1. pos[r] \in Nat /\ pos[r] # 0 /\ pos[r] < MaxSamples /\ idx[r] \in Nat
          BY <1>03, <2>1, <4>2
        <5>2. pos[r] - 1 \in Times
          BY <1>02, <5>1
        <5>3. idx[r] - (pos[r] - 1) <= RingSize
          <6> DEFINE age == idx[r] - pos[r]
          <6>2. age \in Int /\ RingSize \in Int /\ age <= RingSize /\ age # RingSize
            BY <2>1, <4>2
          <6>1. age < RingSize
            <7> HIDE DEF age
            <7> QED
              BY <6>2, NothingBetween
          <6> QED
            BY <5>1, <6>1, <1>0
        <5> QED
          BY <2>1, <4>1, <5>1, <5>2, <5>3
      <4>4. PassedOver(r)'
        <5>1. \A n \in Times : n > pos'[r] => n >= pos[r]
          BY <1>03, <2>1, <4>1
        <5> QED
          BY <2>1, <3>2, <5>1 DEF PassedOver, Overwritten
      <4> QED
        BY <2>1, <4>1, <4>3, <4>4 DEF ReaderInv, LooksAtHeld, TookTheLatest,
           TookTheSample, Answered, Found
    <3> QED
      BY <3>3, <3>4
  <2> QED
    BY <2>1, <2>5, <2>6
<1>4. CASE CopyState(r)
  <2>1. /\ pc[r] = "copy" /\ pc'[r] = "check" /\ UNCHANGED <<target, idx, pos, seen>>
        /\ out'[r].ts = out[r].ts /\ out'[r].val = ring[Slot(pos[r])].val
    BY <1>4 DEF CopyState
  <2>2. pos[r] \in Times /\ pos[r] < write_idx
    BY <2>1, LookedAt
  <2>3. out'[r].val = pos[r] \/ Overwritten(pos[r])
    BY <2>1, <2>2, SlotHolds
  <2> QED
    BY <2>1, <2>3 DEF ReaderInv, LooksAtHeld, PassedOver, TookTheLatest, TookTheSample,
       Answered, Found, Overwritten
<1>5. CASE Check(r)
  <2>1. /\ pc[r] = "check" /\ UNCHANGED <<target, idx, pos, out>> /\ seen'[r] = write_idx
        /\ pc'[r] \in {"found", "load"}
    BY <1>5 DEF Check
  <2>2. Overwritten(pos[r]) => write_idx - pos[r] >= RingSize
    BY DEF Overwritten
  <2> QED
    BY <2>1, <2>2 DEF ReaderInv, LooksAtHeld, PassedOver, TookTheLatest, TookTheSample,
       Answered, Found
<1>6. CASE Return(r)
  <2>1. pc'[r] = "idle" /\ UNCHANGED idx
    BY <1>6 DEF Return
  <2> QED
    BY <2>1 DEF ReaderInv, LooksAtHeld, PassedOver, TookTheLatest, TookTheSample, Answered, Found
<1> QED
  BY <1>1, <1>2, <1>3, <1>4, <1>5, <1>6 DEF Lookup

--------------------------------------------------------------------------------
LEMMA Initially == Init => IInv
<1> SUFFICES ASSUME Init PROVE IInv
  OBVIOUS
<1> USE RingAssumption DEF Init
<1>1. TypeOK
  BY DEF TypeOK, Empty, Word, None, Where
<1>2. RingHoldsLastLap
  BY DEF RingHoldsLastLap, Stamped, Times
<1>3. ASSUME NEW r \in Readers PROVE ReaderInv(r)
  BY DEF ReaderInv, LooksAtHeld, PassedOver, TookTheLatest, TookTheSample, Answered, Found
<1> QED
  BY <1>1, <1>2, <1>3 DEF IInv

LEMMA Step == IInv /\ [Next]_vars => IInv'
<1> SUFFICES ASSUME IInv, [Next]_vars PROVE IInv'
  OBVIOUS
<1>1. CASE Produce
  BY <1>1, ProducerTypes, ProducerKeepsLap, ProducerKeepsReaders DEF IInv
<1>2. ASSUME NEW r \in Readers, Lookup(r) PROVE IInv'
  <2>1. RingHoldsLastLap'
    BY <1>2, LookupKeepsRing DEF IInv, RingHoldsLastLap, Stamped, Overwritten, producer
  <2>2. \A q \in Readers : ReaderInv(q)'
    BY <1>2, LookupKeepsOthers, LookupKeepsOwn
  <2> QED
    BY <1>2, <2>1, <2>2, LookupTypes DEF IInv
<1>3. CASE UNCHANGED vars
  BY <1>3 DEF vars, producer, reader, IInv, TypeOK, RingHoldsLastLap, Stamped, Overwritten,
     ReaderInv, LooksAtHeld, PassedOver, TookTheLatest, TookTheSample, Answered, Found, Held
<1> QED
  BY <1>1, <1>2, <1>3 DEF Next

LEMMA Inductive == Spec => []IInv
  BY Initially, Step, PTL DEF Spec

(* The variables of the ring and of its readers keep their ranges.          *)
THEOREM RingTypes == Spec => []TypeOK
<1>1. IInv => TypeOK
  BY DEF IInv
<1> QED
  BY <1>1, Inductive, PTL

(* A result found less than a full lap behind the producer is one sample,
   and the one the scan stopped at, however the two threads interleave.     *)
THEOREM UntornWithinLap == Spec => []SnapshotUntornWithinLap
<1>1. IInv => SnapshotUntornWithinLap
  BY DEF IInv, ReaderInv, Answered, SnapshotUntornWithinLap
<1> QED
  BY <1>1, Inductive, PTL

(* Whether or not its slot was overwritten during the scan, an untorn result
   is at or before the target, and nothing newer the attempt could see is.  *)
THEOREM LatestSample == Spec => []LatestAtOrBefore
<1>1. IInv => LatestAtOrBefore
  BY DEF IInv, ReaderInv, TookTheLatest, LatestAtOrBefore, Found
<1> QED
  BY <1>1, Inductive, PTL

(* A miss is never the scan's fault.                                        *)
THEOREM MissExplained == Spec => []MissIsExplained
<1>1. IInv => MissIsExplained
  BY DEF IInv, ReaderInv, Answered, MissIsExplained
<1> QED
  BY <1>1, Inductive, PTL

================================================================================
