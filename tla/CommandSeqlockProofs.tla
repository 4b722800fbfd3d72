------------------------- MODULE CommandSeqlockProofs --------------------------
(***************************************************************************)
(* The invariants of CommandSeqlock for any number of commands and of      *)
(* attempts.  Types hold whatever the threads do; the safety of the read   *)
(* is proved for a Python side that issues its first command only after    *)
(* the warm-up, the case in which the two writers never overlap.           *)
(***************************************************************************)
EXTENDS CommandSeqlock, TLAPS

InWords(w) == w.at = "words"
HalfWritten(w) == InWords(w) /\ w.words = <<"hi">>

(* An attempt that began is paid for.                                       *)
AttemptCounted == rt \in {"copy", "check"} => tries > 0
TInv == TypeOK /\ AttemptCounted

(* One writer at a time: the RT thread's own write is the warm-up's last act,
   Python's come after it.                                                  *)
OneWriter ==
    /\ py # Idle => warm
    /\ snap # Idle => rt = "snap"
    /\ rt = "snap" => ~warm

(* Where a write is, and what it knows of the counter.                      *)
WriteInProgress(w) ==
    /\ w.at \in {"idle", "load", "odd", "words"}
    /\ w.at \in {"load", "odd"} => w.words \in {JointWords, GripperWords}
    /\ w.at = "odd" => w.even = seq
    /\ w.at = "words" => w.even + 1 = seq
    /\ w.at = "idle" => w = Idle

(* The counter is odd exactly while words are being stored.                 *)
OddWhileStoring == seq % 2 = 1 <=> InWords(py) \/ InWords(snap)

(* The two halves agree except between the two stores, where the first one
   holds the new value; the buffer is never the default-constructed one.    *)
BufferWhole ==
    /\ HalfWritten(py) => buf["lo"] = issued
    /\ HalfWritten(snap) => buf["lo"] = Snap
    /\ ~HalfWritten(py) /\ ~HalfWritten(snap) => buf["lo"] = buf["hi"]
    /\ \A w \in Words : buf[w] # Unset

(* A completed command stays until a newer one replaces it.                 *)
BufferRecent ==
    /\ completed <= issued
    /\ completed > 0 => warm /\ buf["lo"] \in completed..MaxCommands

(* What an attempt has copied is what the buffer holds, if the counter did
   not move since it began.                                                 *)
CopyFaithful ==
    rt \in {"copy", "check"} =>
        /\ s1 <= seq /\ s1 % 2 = 0 /\ floor <= completed
        /\ seq = s1 => \A w \in Words : copy[w] \in {Unset, buf[w]}
        /\ ~warm => seq = s1
        /\ rt = "check" => \A w \in Words : copy[w] # Unset

(* Nothing torn is ever kept, by the read before the loop no more than by
   those of the cycles.                                                     *)
NothingTornKept == last_cmd["lo"] = last_cmd["hi"]

IInv ==
    /\ TInv /\ OneWriter /\ WriteInProgress(py) /\ WriteInProgress(snap)
    /\ OddWhileStoring /\ BufferWhole /\ BufferRecent /\ CopyFaithful /\ NothingTornKept
--------------------------------------------------------------------------------
(* The lists of words a write goes through.                                 *)
LEMMA WordLists ==
    /\ JointWords # <<>> /\ GripperWords # <<>> /\ <<"hi">> # <<>>
    /\ JointWords # <<"hi">> /\ GripperWords # <<"hi">>
    /\ Head(JointWords) = "lo" /\ Tail(JointWords) = <<"hi">>
    /\ Head(GripperWords) = "grip" /\ Tail(GripperWords) = <<>>
    /\ Head(<<"hi">>) = "hi" /\ Tail(<<"hi">>) = <<>>
  BY DEF JointWords, GripperWords

LEMMA WritesShape ==
    /\ Idle \in Writes
    /\ \A words \in {JointWords, GripperWords} : Begin(words) \in Writes /\ Begin(words) # Idle
    /\ \A w \in Writes : w.words # <<>> => /\ Head(w.words) \in Words
                                           /\ Tail(w.words) \in {<<>>, <<"hi">>}
<1>1. Idle \in Writes
  BY DEF Writes, Idle
<1>2. ASSUME NEW words \in {JointWords, GripperWords}
      PROVE  Begin(words) \in Writes /\ Begin(words) # Idle
  BY DEF Writes, Idle, Begin
<1>3. ASSUME NEW w \in Writes, w.words # <<>>
      PROVE  Head(w.words) \in Words /\ Tail(w.words) \in {<<>>, <<"hi">>}
  <2>1. w.words \in {GripperWords, JointWords, <<"hi">>}
    BY <1>3 DEF Writes
  <2> QED
    BY <2>1, WordLists DEF Words
<1> QED
  BY <1>1, <1>2, <1>3

--------------------------------------------------------------------------------
(* Types.                                                                   *)

(* One step of a write keeps the counter, the buffer and the write typed.   *)
LEMMA WriteStepTypes ==
    ASSUME TypeOK,
           \/ PyWrite
           \/ SnapWrite
    PROVE  seq' \in Nat /\ buf' \in [Words -> Values] /\ py' \in Writes /\ snap' \in Writes
<1>1. CASE PyWrite
  <2>1. issued \in Values /\ UNCHANGED snap
    BY <1>1, SeqlockAssumption DEF TypeOK, PyWrite, Values, Unset, Snap
  <2>2. CASE py.at = "load"
    BY <1>1, <2>1, <2>2 DEF PyWrite, WriteStep, TypeOK, Writes, write
  <2>3. CASE py.at = "odd"
    BY <1>1, <2>1, <2>3 DEF PyWrite, WriteStep, TypeOK, Writes
  <2>4. CASE py.at = "words" /\ py.words # <<>>
    <3>1. /\ buf' = [buf EXCEPT ![Head(py.words)] = issued] /\ UNCHANGED seq
          /\ py' = [py EXCEPT !.words = Tail(py.words)]
      BY <1>1, <2>4 DEF PyWrite, WriteStep
    <3>2. Head(py.words) \in Words /\ Tail(py.words) \in {<<>>, <<"hi">>}
      BY <2>4, WritesShape DEF TypeOK
    <3> QED
      BY <2>1, <3>1, <3>2 DEF TypeOK, Writes
  <2>5. CASE py.at = "words" /\ py.words = <<>>
    BY <1>1, <2>1, <2>5, WritesShape DEF PyWrite, WriteStep, TypeOK, Writes
  <2> QED
    BY <1>1, <2>2, <2>3, <2>4, <2>5 DEF PyWrite, WriteStep
<1>2. CASE SnapWrite
  <2>1. Snap \in Values /\ UNCHANGED py
    BY <1>2, SeqlockAssumption DEF TypeOK, SnapWrite, Values, Unset, Snap
  <2>2. CASE snap.at = "load"
    BY <1>2, <2>1, <2>2 DEF SnapWrite, WriteStep, TypeOK, Writes, write
  <2>3. CASE snap.at = "odd"
    BY <1>2, <2>1, <2>3 DEF SnapWrite, WriteStep, TypeOK, Writes
  <2>4. CASE snap.at = "words" /\ snap.words # <<>>
    <3>1. /\ buf' = [buf EXCEPT ![Head(snap.words)] = Snap] /\ UNCHANGED seq
          /\ snap' = [snap EXCEPT !.words = Tail(snap.words)]
      BY <1>2, <2>4 DEF SnapWrite, WriteStep
    <3>2. Head(snap.words) \in Words /\ Tail(snap.words) \in {<<>>, <<"hi">>}
      BY <2>4, WritesShape DEF TypeOK
    <3> QED
      BY <2>1, <3>1, <3>2 DEF TypeOK, Writes
  <2>5. CASE snap.at = "words" /\ snap.words = <<>>
    BY <1>2, <2>1, <2>5, WritesShape DEF SnapWrite, WriteStep, TypeOK, Writes
  <2> QED
    BY <1>2, <2>2, <2>3, <2>4, <2>5 DEF SnapWrite, WriteStep
<1> QED
  BY <1>1, <1>2

LEMMA TypesInitially == Init => TInv
<1> SUFFICES ASSUME Init PROVE TInv
  OBVIOUS
<1>1. Idle \in Writes /\ 0 \in Values /\ Unset \in Values
  BY WritesShape, SeqlockAssumption DEF Values, Unset, Snap
<1>2. 0 \in 0..MaxCommands /\ Attempts \in 0..Attempts
  BY SeqlockAssumption
<1> QED
  BY <1>1, <1>2 DEF Init, TInv, TypeOK, AttemptCounted

LEMMA TypesStep == TInv /\ [Next]_vars => TInv'
<1> SUFFICES ASSUME TInv, [Next]_vars PROVE TInv'
  OBVIOUS
<1>0. Unset \in Values /\ 0..MaxCommands \subseteq Values /\ MaxCommands \in Nat
      /\ Attempts \in Nat \ {0} /\ 0..Attempts \subseteq Int
  BY SeqlockAssumption DEF Values, Unset, Snap
<1>1. ASSUME NEW words \in {JointWords, GripperWords}, Command(words) PROVE TInv'
  <2>1. Begin(words) \in Writes /\ issued + 1 \in 0..MaxCommands
    BY <1>0, <1>1, WritesShape DEF Command, TInv, TypeOK
  <2> QED
    BY <1>1, <2>1 DEF Command, TInv, TypeOK, AttemptCounted, write, read
<1>2. CASE PyWrite
  <2>1. seq' \in Nat /\ buf' \in [Words -> Values] /\ py' \in Writes /\ snap' \in Writes
    BY <1>2, WriteStepTypes DEF TInv
  <2> QED
    BY <1>2, <2>1 DEF PyWrite, TInv, TypeOK, AttemptCounted, read
<1>3. CASE LoadCounter
  <2>1. tries - 1 \in 0..Attempts
    BY <1>0, <1>3 DEF LoadCounter, TInv, TypeOK
  <2> QED
    BY <1>0, <1>3, <2>1 DEF LoadCounter, TInv, TypeOK, AttemptCounted, write
<1>4. ASSUME NEW w \in Words, CopyWord(w) PROVE TInv'
  BY <1>4 DEF CopyWord, TInv, TypeOK, AttemptCounted, write
<1>5. CASE CheckCopy
  <2>1. tries - 1 \in 0..Attempts
    BY <1>0, <1>5 DEF CheckCopy, TInv, TypeOK, AttemptCounted
  <2> QED
    BY <1>5, <2>1 DEF CheckCopy, EndRead, TInv, TypeOK, AttemptCounted, write
<1>6. CASE GiveUp
  BY <1>6 DEF GiveUp, EndRead, TInv, TypeOK, AttemptCounted, write
<1>7. CASE SnapBegin
  <2>1. Begin(JointWords) \in Writes
    BY WritesShape
  <2> QED
    BY <1>7, <2>1 DEF SnapBegin, TInv, TypeOK, AttemptCounted, write, read
<1>8. CASE SnapWrite
  <2>1. seq' \in Nat /\ buf' \in [Words -> Values] /\ py' \in Writes /\ snap' \in Writes
    BY <1>8, WriteStepTypes DEF TInv
  <2> QED
    BY <1>0, <1>8, <2>1 DEF SnapWrite, TInv, TypeOK, AttemptCounted
<1>9. CASE NextCycle
  BY <1>0, <1>9 DEF NextCycle, TInv, TypeOK, AttemptCounted, write
<1>10. CASE UNCHANGED vars
  BY <1>10 DEF vars, write, read, TInv, TypeOK, AttemptCounted
<1> QED
  BY <1>1, <1>2, <1>3, <1>4, <1>5, <1>6, <1>7, <1>8, <1>9, <1>10 DEF Next, RtStep

(* The variables keep their ranges, whatever the two writers do.            *)
THEOREM SeqlockTypes == Spec => []TypeOK
<1>1. TInv => TypeOK
  BY DEF TInv
<1> QED
  BY <1>1, TypesInitially, TypesStep, PTL DEF Spec

--------------------------------------------------------------------------------
(* The read is safe.                                                        *)

LEMMA SafeInitially == Init => IInv
<1> SUFFICES ASSUME Init PROVE IInv
  OBVIOUS
<1> USE SeqlockAssumption DEF Init
<1>1. OneWriter /\ WriteInProgress(py) /\ WriteInProgress(snap)
  BY DEF OneWriter, WriteInProgress, Idle
<1>2. OddWhileStoring /\ BufferWhole /\ BufferRecent
  BY DEF OddWhileStoring, BufferWhole, BufferRecent, HalfWritten, InWords, Idle, Words, Unset
<1>3. CopyFaithful /\ NothingTornKept
  BY DEF CopyFaithful, NothingTornKept, Words
<1> QED
  BY <1>1, <1>2, <1>3, TypesInitially DEF IInv

(* A write begins: nothing the reader relies on moves.                      *)
LEMMA BeginStep ==
    ASSUME IInv, EarlyCommands = FALSE,
           SnapBegin \/ \E words \in {JointWords, GripperWords} : Command(words)
    PROVE  /\ OneWriter' /\ WriteInProgress(py)' /\ WriteInProgress(snap)' /\ OddWhileStoring'
           /\ BufferWhole' /\ BufferRecent' /\ CopyFaithful' /\ NothingTornKept'
<1>1. CASE SnapBegin
  <2>1. snap = Idle /\ snap' = Begin(JointWords) /\ rt = "snap"
        /\ UNCHANGED <<seq, buf, py, issued, completed, warm, read>>
    BY <1>1 DEF SnapBegin, write
  <2> QED
    BY <2>1, WordLists DEF IInv, OneWriter, WriteInProgress, OddWhileStoring, BufferWhole,
       BufferRecent, CopyFaithful, NothingTornKept, HalfWritten, InWords, Idle, Begin, read
<1>2. ASSUME NEW words \in {JointWords, GripperWords}, Command(words)
      PROVE  /\ OneWriter' /\ WriteInProgress(py)' /\ WriteInProgress(snap)' /\ OddWhileStoring'
             /\ BufferWhole' /\ BufferRecent' /\ CopyFaithful' /\ NothingTornKept'
  <2>1. py = Idle /\ py' = Begin(words) /\ warm /\ issued' = issued + 1
        /\ UNCHANGED <<seq, buf, snap, completed, warm, read>>
    BY <1>2 DEF Command, write
  <2>2. completed \in Int /\ issued \in Int
    BY SeqlockAssumption DEF IInv, TInv, TypeOK
  <2> QED
    BY <2>1, <2>2, WordLists DEF IInv, OneWriter, WriteInProgress, OddWhileStoring, BufferWhole,
       BufferRecent, CopyFaithful, NothingTornKept, HalfWritten, InWords, Idle, Begin, read
<1> QED
  BY <1>1, <1>2

(* A step of Python's write: the RT thread's own is over.                   *)
LEMMA PyWriteStep ==
    ASSUME IInv, PyWrite
    PROVE  /\ OneWriter' /\ WriteInProgress(py)' /\ WriteInProgress(snap)' /\ OddWhileStoring'
           /\ BufferWhole' /\ BufferRecent' /\ CopyFaithful' /\ NothingTornKept'
<1>0. /\ py # Idle /\ warm /\ rt # "snap" /\ snap = Idle
      /\ UNCHANGED <<issued, snap, warm, rt, tries, s1, copy, last_cmd, floor>>
      /\ completed' = IF py' = Idle /\ buf["lo"] = issued THEN issued ELSE completed
  BY DEF IInv, OneWriter, PyWrite, read
<1>1. /\ seq \in Nat /\ py \in Writes /\ py.even \in Nat /\ py.words \in {<<>>, GripperWords, JointWords, <<"hi">>}
      /\ buf \in [Words -> Values] /\ s1 \in Nat /\ issued \in 0..MaxCommands
      /\ completed \in Nat /\ floor \in Nat /\ issued # Unset /\ MaxCommands \in Nat
      /\ issued \in Nat
  BY SeqlockAssumption DEF IInv, TInv, TypeOK, Writes, Unset
<1>2. ~InWords(snap) /\ ~HalfWritten(snap) /\ OneWriter' /\ NothingTornKept' /\ Idle.at = "idle"
  BY <1>0 DEF InWords, HalfWritten, Idle, OneWriter, NothingTornKept, IInv
<1>3. /\ WriteInProgress(py) /\ OddWhileStoring /\ BufferWhole /\ BufferRecent /\ CopyFaithful
      /\ WriteInProgress(snap)
  BY DEF IInv
<1>4. WriteInProgress(snap)'
  BY <1>0, <1>2 DEF WriteInProgress
<1>5. CASE py.at = "load"
  <2>1. UNCHANGED <<seq, buf>> /\ py' = [py EXCEPT !.at = "odd", !.even = seq]
    BY <1>5 DEF PyWrite, WriteStep, write
  <2>2. py'.at = "odd" /\ py'.even = seq /\ py'.words = py.words /\ py' # Idle
    BY <1>1, <1>2, <2>1 DEF Writes
  <2> QED
    BY <1>0, <1>1, <1>2, <1>3, <1>4, <1>5, <2>1, <2>2 DEF WriteInProgress, OddWhileStoring, BufferWhole,
       BufferRecent, CopyFaithful, HalfWritten, InWords
<1>6. CASE py.at = "odd"
  <2>1. seq' = py.even + 1 /\ UNCHANGED buf /\ py' = [py EXCEPT !.at = "words"]
    BY <1>6 DEF PyWrite, WriteStep
  <2>2. py'.at = "words" /\ py'.even = py.even /\ py'.words = py.words /\ py' # Idle
    BY <1>1, <1>2, <2>1 DEF Writes
  <2>3. py.words \in {JointWords, GripperWords} /\ seq' = seq + 1 /\ seq % 2 = 0 /\ seq' % 2 = 1
    BY <1>1, <1>2, <1>3, <1>6, <2>1 DEF WriteInProgress, OddWhileStoring, InWords
  <2>4. ~HalfWritten(py) /\ ~HalfWritten(py)' /\ InWords(py)'
    BY <1>6, <2>2, <2>3, WordLists DEF HalfWritten, InWords
  <2> QED
    BY <1>0, <1>1, <1>2, <1>3, <1>4, <1>6, <2>1, <2>2, <2>3, <2>4 DEF WriteInProgress, OddWhileStoring,
       BufferWhole, BufferRecent, CopyFaithful, InWords, HalfWritten
<1>7. CASE py.at = "words" /\ py.words # <<>>
  <2>1. /\ buf' = [buf EXCEPT ![Head(py.words)] = issued] /\ UNCHANGED seq
        /\ py' = [py EXCEPT !.words = Tail(py.words)]
    BY <1>7 DEF PyWrite, WriteStep
  <2>2. py'.at = "words" /\ py'.even = py.even /\ py'.words = Tail(py.words) /\ py' # Idle
    BY <1>1, <1>2, <1>7, <2>1 DEF Writes
  <2>3. seq % 2 = 1 /\ InWords(py) /\ InWords(py)' /\ completed' = completed
    BY <1>0, <1>3, <1>7, <2>2 DEF OddWhileStoring, InWords
  <2>4. CopyFaithful'
    BY <1>0, <1>1, <1>3, <2>1, <2>3 DEF CopyFaithful
  <2>5. WriteInProgress(py)' /\ OddWhileStoring'
    BY <1>0, <1>2, <1>3, <1>7, <2>1, <2>2, <2>3 DEF WriteInProgress, OddWhileStoring, InWords
  <2>6. BufferWhole'
    <3>1. CASE py.words = GripperWords
      BY <1>0, <1>1, <1>2, <1>3, <1>7, <2>1, <2>2, <3>1, WordLists DEF BufferWhole, HalfWritten, InWords, Words
    <3>2. CASE py.words = JointWords
      BY <1>0, <1>1, <1>2, <1>3, <1>7, <2>1, <2>2, <3>2, WordLists DEF BufferWhole, HalfWritten, InWords, Words
    <3>3. CASE py.words = <<"hi">>
      BY <1>0, <1>1, <1>2, <1>3, <1>7, <2>1, <2>2, <3>3, WordLists DEF BufferWhole, HalfWritten, InWords, Words
    <3> QED
      BY <1>1, <1>7, <3>1, <3>2, <3>3
  <2>7. BufferRecent'
    <3>1. buf'["lo"] = buf["lo"] \/ buf'["lo"] = issued
      BY <1>1, <2>1 DEF Words
    <3> QED
      BY <1>0, <1>1, <1>3, <2>3, <3>1 DEF BufferRecent
  <2> QED
    BY <1>2, <1>4, <2>4, <2>5, <2>6, <2>7
<1>8. CASE py.at = "words" /\ py.words = <<>>
  <2>1. seq' = py.even + 2 /\ UNCHANGED buf /\ py' = Idle
    BY <1>8 DEF PyWrite, WriteStep
  <2>2. seq' = seq + 1 /\ seq % 2 = 1 /\ seq' % 2 = 0
    BY <1>1, <1>3, <1>8, <2>1 DEF WriteInProgress, OddWhileStoring, InWords
  <2>3. CopyFaithful'
    BY <1>0, <1>1, <1>3, <2>1, <2>2 DEF CopyFaithful, BufferRecent
  <2>4. WriteInProgress(py)' /\ OddWhileStoring'
    BY <1>0, <1>2, <2>1, <2>2 DEF WriteInProgress, OddWhileStoring, InWords
  <2>5. ~HalfWritten(py) /\ ~HalfWritten(py)'
    BY <1>2, <1>8, <2>1, WordLists DEF HalfWritten, InWords
  <2>6. BufferWhole'
    BY <1>0, <1>2, <1>3, <2>1, <2>5 DEF BufferWhole, HalfWritten, InWords
  <2>7. BufferRecent'
    BY <1>0, <1>1, <1>3, <2>1 DEF BufferRecent
  <2> QED
    BY <1>2, <1>4, <2>3, <2>4, <2>6, <2>7
<1> QED
  BY <1>0, <1>5, <1>6, <1>7, <1>8 DEF PyWrite, WriteStep

(* A step of the RT thread's own write: no read and no other write is in
   progress, and no command was completed yet.                              *)
LEMMA SnapWriteStep ==
    ASSUME IInv, SnapWrite
    PROVE  /\ OneWriter' /\ WriteInProgress(py)' /\ WriteInProgress(snap)' /\ OddWhileStoring'
           /\ BufferWhole' /\ BufferRecent' /\ CopyFaithful' /\ NothingTornKept'
<1>0. /\ snap # Idle /\ ~warm /\ rt = "snap" /\ py = Idle /\ warm' = (snap' = Idle)
      /\ rt' = IF snap' = Idle THEN "load" ELSE "snap"
      /\ UNCHANGED <<py, issued, completed, last_cmd>>
  BY DEF IInv, OneWriter, SnapWrite
<1>1. /\ seq \in Nat /\ snap \in Writes /\ snap.even \in Nat
      /\ snap.words \in {<<>>, GripperWords, JointWords, <<"hi">>}
      /\ buf \in [Words -> Values] /\ Snap # Unset
  BY SeqlockAssumption DEF IInv, TInv, TypeOK, Writes, Unset, Snap
<1>2. /\ WriteInProgress(snap) /\ OddWhileStoring /\ BufferWhole /\ BufferRecent /\ WriteInProgress(py)
  BY DEF IInv
<1>3. /\ ~InWords(py) /\ ~HalfWritten(py) /\ OneWriter' /\ NothingTornKept' /\ CopyFaithful'
      /\ Idle.at = "idle" /\ ~(completed > 0) /\ BufferRecent' /\ ~InWords(py)' /\ ~HalfWritten(py)'
      /\ WriteInProgress(py)'
  BY <1>0, <1>2 DEF InWords, HalfWritten, Idle, OneWriter, NothingTornKept, CopyFaithful, IInv,
     BufferRecent, WriteInProgress
<1>5. CASE snap.at = "load"
  <2>1. UNCHANGED <<seq, buf>> /\ snap' = [snap EXCEPT !.at = "odd", !.even = seq]
    BY <1>5 DEF SnapWrite, WriteStep, write
  <2>2. snap'.at = "odd" /\ snap'.even = seq /\ snap'.words = snap.words /\ snap' # Idle
    BY <1>1, <1>3, <2>1 DEF Writes
  <2> QED
    BY <1>2, <1>3, <1>5, <2>1, <2>2 DEF WriteInProgress, OddWhileStoring, BufferWhole,
       HalfWritten, InWords
<1>6. CASE snap.at = "odd"
  <2>1. seq' = snap.even + 1 /\ UNCHANGED buf /\ snap' = [snap EXCEPT !.at = "words"]
    BY <1>6 DEF SnapWrite, WriteStep
  <2>2. snap'.at = "words" /\ snap'.even = snap.even /\ snap'.words = snap.words /\ snap' # Idle
    BY <1>1, <1>3, <2>1 DEF Writes
  <2>3. snap.words \in {JointWords, GripperWords} /\ seq' = seq + 1 /\ seq' % 2 = 1
    BY <1>1, <1>2, <1>3, <1>6, <2>1 DEF WriteInProgress, OddWhileStoring, InWords
  <2>4. ~HalfWritten(snap) /\ ~HalfWritten(snap)' /\ InWords(snap)'
    BY <1>6, <2>2, <2>3, WordLists DEF HalfWritten, InWords
  <2> QED
    BY <1>2, <1>3, <2>1, <2>2, <2>3, <2>4, <1>6 DEF WriteInProgress, OddWhileStoring, BufferWhole
<1>7. CASE snap.at = "words" /\ snap.words # <<>>
  <2>1. /\ buf' = [buf EXCEPT ![Head(snap.words)] = Snap] /\ UNCHANGED seq
        /\ snap' = [snap EXCEPT !.words = Tail(snap.words)]
    BY <1>7 DEF SnapWrite, WriteStep
  <2>2. snap'.at = "words" /\ snap'.even = snap.even /\ snap'.words = Tail(snap.words) /\ snap' # Idle
    BY <1>1, <1>3, <1>7, <2>1 DEF Writes
  <2>3. WriteInProgress(snap)' /\ OddWhileStoring'
    BY <1>2, <1>3, <1>7, <2>1, <2>2 DEF WriteInProgress, OddWhileStoring, InWords
  <2>4. BufferWhole'
    <3>1. CASE snap.words = GripperWords
      BY <1>0, <1>1, <1>2, <1>3, <1>7, <2>1, <2>2, <3>1, WordLists DEF BufferWhole, HalfWritten, InWords, Words
    <3>2. CASE snap.words = JointWords
      BY <1>0, <1>1, <1>2, <1>3, <1>7, <2>1, <2>2, <3>2, WordLists DEF BufferWhole, HalfWritten, InWords, Words
    <3>3. CASE snap.words = <<"hi">>
      BY <1>0, <1>1, <1>2, <1>3, <1>7, <2>1, <2>2, <3>3, WordLists DEF BufferWhole, HalfWritten, InWords, Words
    <3> QED
      BY <1>1, <1>7, <3>1, <3>2, <3>3
  <2> QED
    BY <1>3, <2>3, <2>4
<1>8. CASE snap.at = "words" /\ snap.words = <<>>
  <2>1. seq' = snap.even + 2 /\ UNCHANGED buf /\ snap' = Idle
    BY <1>8 DEF SnapWrite, WriteStep
  <2>2. seq' = seq + 1 /\ seq % 2 = 1 /\ seq' % 2 = 0
    BY <1>1, <1>2, <1>8, <2>1 DEF WriteInProgress, OddWhileStoring, InWords
  <2>3. WriteInProgress(snap)' /\ OddWhileStoring'
    BY <1>3, <2>1, <2>2 DEF WriteInProgress, OddWhileStoring, InWords
  <2>4. ~HalfWritten(snap) /\ ~HalfWritten(snap)'
    BY <1>3, <1>8, <2>1, WordLists DEF HalfWritten, InWords
  <2>5. BufferWhole'
    BY <1>2, <1>3, <2>1, <2>4 DEF BufferWhole
  <2> QED
    BY <1>3, <2>3, <2>5
<1> QED
  BY <1>0, <1>5, <1>6, <1>7, <1>8 DEF SnapWrite, WriteStep

(* The reader's steps leave the counter, the buffer and the writes alone.   *)
LEMMA ReaderStep ==
    ASSUME IInv,
           LoadCounter \/ (\E w \in Words : CopyWord(w)) \/ CheckCopy \/ GiveUp \/ NextCycle
    PROVE  /\ OneWriter' /\ WriteInProgress(py)' /\ WriteInProgress(snap)' /\ OddWhileStoring'
           /\ BufferWhole' /\ BufferRecent' /\ CopyFaithful' /\ NothingTornKept'
<1>0. UNCHANGED <<seq, buf, py, issued, completed, snap, warm>>
  BY DEF LoadCounter, CopyWord, CheckCopy, GiveUp, NextCycle, write
<1>1. /\ OneWriter /\ WriteInProgress(py) /\ WriteInProgress(snap) /\ OddWhileStoring
      /\ BufferWhole /\ BufferRecent /\ CopyFaithful /\ NothingTornKept
  BY DEF IInv
<1>2. /\ WriteInProgress(py)' /\ WriteInProgress(snap)' /\ OddWhileStoring'
      /\ BufferWhole' /\ BufferRecent'
  BY <1>0, <1>1 DEF WriteInProgress, OddWhileStoring, BufferWhole, BufferRecent, HalfWritten, InWords
<1>3. OneWriter'
  <2>1. snap = Idle \/ rt = "snap"
    BY <1>1 DEF OneWriter
  <2>2. rt # "snap"
    BY DEF LoadCounter, CopyWord, CheckCopy, GiveUp, NextCycle
  <2>3. rt' = "snap" => ~warm
    BY <2>2 DEF LoadCounter, CopyWord, CheckCopy, GiveUp, NextCycle, EndRead
  <2> QED
    BY <1>0, <1>1, <2>1, <2>2, <2>3 DEF OneWriter
<1>4. /\ seq \in Nat /\ s1 \in Nat /\ buf \in [Words -> Values] /\ copy \in [Words -> Values]
      /\ completed \in Nat /\ "lo" \in Words /\ "hi" \in Words /\ "grip" \in Words
      /\ \A w \in Words : w \in {"lo", "hi", "grip"}
  BY DEF IInv, TInv, TypeOK, Words
<1>5. ASSUME LoadCounter PROVE CopyFaithful' /\ NothingTornKept'
  <2>1. NothingTornKept'
    BY <1>1, <1>5 DEF LoadCounter, NothingTornKept
  <2>2. CASE seq % 2 = 1
    <3>1. rt' = "load"
      BY <1>5, <2>2 DEF LoadCounter
    <3> QED
      BY <2>1, <3>1 DEF CopyFaithful
  <2>3. CASE seq % 2 # 1
    <3>1. seq % 2 = 0
      BY <1>4, <2>3
    <3>2. /\ s1' = seq /\ floor' = completed /\ rt' = "copy"
          /\ copy' = [w \in Words |-> Unset]
      BY <1>5, <2>3 DEF LoadCounter
    <3> QED
      BY <1>0, <1>4, <2>1, <3>1, <3>2 DEF CopyFaithful
  <2> QED
    BY <2>2, <2>3
<1>6. ASSUME NEW w \in Words, CopyWord(w)
      PROVE  CopyFaithful' /\ NothingTornKept'
  <2>1. /\ copy' = [copy EXCEPT ![w] = buf[w]] /\ UNCHANGED <<s1, floor, last_cmd>> /\ rt = "copy"
        /\ rt' = IF w = "grip" THEN "check" ELSE "copy"
        /\ w = CASE copy["lo"] = Unset -> "lo" [] copy["hi"] = Unset -> "hi" [] OTHER -> "grip"
    BY <1>6 DEF CopyWord
  <2>2. \A v \in Words : copy'[v] = IF v = w THEN buf[w] ELSE copy[v]
    BY <1>4, <2>1
  <2>3. rt' = "check" => \A v \in Words : copy'[v] # Unset
    <3>1. w = "grip" => copy["lo"] # Unset /\ copy["hi"] # Unset
      BY <2>1
    <3> QED
      BY <1>1, <1>4, <2>1, <2>2, <3>1 DEF BufferWhole
  <2> QED
    BY <1>0, <1>1, <1>4, <2>1, <2>2, <2>3 DEF CopyFaithful, NothingTornKept
<1>7. CASE CheckCopy
  <2>1. CASE CheckCounter
    <3>1. rt = "check" /\ seq = s1 /\ last_cmd' = copy /\ rt' \in {"cycle", "snap"}
      BY <1>7, <2>1 DEF CheckCopy, CheckCounter, EndRead
    <3>2. copy["lo"] = buf["lo"] /\ copy["hi"] = buf["hi"] /\ seq % 2 = 0
      BY <1>1, <1>4, <3>1 DEF CopyFaithful
    <3>3. ~HalfWritten(py) /\ ~HalfWritten(snap)
      BY <1>1, <3>2 DEF OddWhileStoring, HalfWritten
    <3>4. NothingTornKept'
      BY <1>1, <3>1, <3>2, <3>3 DEF BufferWhole, NothingTornKept
    <3>5. CopyFaithful'
      BY <3>1 DEF CopyFaithful
    <3> QED
      BY <1>2, <1>3, <3>4, <3>5
  <2>2. CASE ~CheckCounter
    <3>1. rt' = "load" /\ UNCHANGED last_cmd
      <4>1. rt = "check" /\ warm
        BY <1>1, <1>7, <2>2 DEF CheckCopy, CheckCounter, CopyFaithful
      <4> QED
        BY <1>7, <2>2, <4>1 DEF CheckCopy
    <3>2. CopyFaithful' /\ NothingTornKept'
      BY <1>1, <3>1 DEF CopyFaithful, NothingTornKept
    <3> QED
      BY <1>2, <1>3, <3>2
  <2> QED
    BY <2>1, <2>2
<1>8. CASE GiveUp \/ NextCycle
  BY <1>1, <1>2, <1>3, <1>8 DEF GiveUp, NextCycle, EndRead, NothingTornKept, CopyFaithful
<1> QED
  BY <1>2, <1>3, <1>5, <1>6, <1>7, <1>8

LEMMA SafeStep ==
    ASSUME EarlyCommands = FALSE
    PROVE  IInv /\ [Next]_vars => IInv'
<1> SUFFICES ASSUME IInv, [Next]_vars PROVE IInv'
  OBVIOUS
<1>1. TInv'
  BY TypesStep DEF IInv
<1>2. CASE UNCHANGED vars
  BY <1>2 DEF vars, write, read, IInv, TInv, TypeOK, AttemptCounted, OneWriter, WriteInProgress,
     OddWhileStoring, BufferWhole, BufferRecent, CopyFaithful, NothingTornKept, HalfWritten, InWords
<1>3. CASE Next
  BY <1>1, <1>3, BeginStep, PyWriteStep, SnapWriteStep, ReaderStep DEF IInv, Next, RtStep
<1> QED
  BY <1>2, <1>3

(* The loop never acts on half of one joint vector and half of another,
   provided Python's first command waits for the warm-up to end.            *)
THEOREM ReadUntorn == EarlyCommands = FALSE => (Spec => []CommandUntorn)
<1> SUFFICES ASSUME EarlyCommands = FALSE PROVE Spec => []CommandUntorn
  OBVIOUS
<1>1. IInv /\ [Next]_vars => IInv'
  BY SafeStep
<1>2. IInv => CommandUntorn
  BY DEF IInv, NothingTornKept, CommandUntorn
<1> QED
  BY <1>1, <1>2, SafeInitially, PTL DEF Spec

(* What ReadIsRecent allows a step to do.                                   *)
Recent == last_cmd' # last_cmd /\ warm /\ floor > 0 => last_cmd'["lo"] \in floor..MaxCommands

(* What a read brings back is at least as recent as the last command that
   was complete when it began, and a torn read brings back nothing.         *)
THEOREM ReadRecent == EarlyCommands = FALSE => (Spec => ReadIsRecent)
<1> SUFFICES ASSUME EarlyCommands = FALSE PROVE Spec => ReadIsRecent
  OBVIOUS
<1>1. IInv /\ [Next]_vars => IInv'
  BY SafeStep
<1>2. IInv /\ [Next]_vars => [Recent]_vars
  <2> SUFFICES ASSUME IInv, Next, last_cmd' # last_cmd, floor > 0 PROVE last_cmd'["lo"] \in floor..MaxCommands
    BY DEF Recent
  <2>1. CheckCopy /\ CheckCounter
    <3>1. CheckCopy
      BY DEF Next, RtStep, Command, PyWrite, LoadCounter, CopyWord, GiveUp, SnapBegin,
         SnapWrite, NextCycle, read
    <3>2. CheckCounter \/ ~warm
      BY <3>1 DEF CheckCopy
    <3> QED
      BY <3>1, <3>2 DEF IInv, CopyFaithful, CheckCopy, CheckCounter
  <2>2. rt = "check" /\ seq = s1 /\ last_cmd' = copy
    BY <2>1 DEF CheckCopy, CheckCounter
  <2>3. copy["lo"] = buf["lo"] /\ floor <= completed
    BY <2>2 DEF IInv, CopyFaithful, Words
  <2>4. floor \in Nat /\ completed \in Nat /\ MaxCommands \in Nat
    BY SeqlockAssumption DEF IInv, TInv, TypeOK
  <2>5. buf["lo"] \in completed..MaxCommands
    BY <2>3, <2>4 DEF IInv, BufferRecent
  <2> QED
    BY <2>2, <2>3, <2>4, <2>5
<1>3. Spec => []IInv
  BY <1>1, SafeInitially, PTL DEF Spec
<1> QED
  BY <1>2, <1>3, PTL DEF Spec, ReadIsRecent, Recent

================================================================================
