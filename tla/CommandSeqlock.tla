---------------------------- MODULE CommandSeqlock ----------------------------
(***************************************************************************)
(* The command buffer of csrc/control_loop.cpp: cmd_buf_ guarded by the    *)
(* sequence counter cmd_seq_.                                              *)
(*                                                                         *)
(* Writers: the Python thread (command_joint_pos, command_gripper; one at  *)
(* a time, they hold the GIL) and the RT thread itself, once, at the end   *)
(* of the warm-up.  Reader: the RT thread, once before its loop and once   *)
(* per cycle, with a bounded number of attempts.                           *)
(*                                                                         *)
(* A joint vector is copied in two halves, the words "lo" and "hi"; a word *)
(* holds the number of the command it came from.  Command 0 is start()'s,  *)
(* Snap the warm-up's, Unset the default-constructed buffer.  Stores and   *)
(* loads are taken in program order, as the x86-64 build performs them.    *)
(***************************************************************************)
EXTENDS Integers, Sequences

CONSTANTS
    Attempts,       \* 100 per cycle (1000 before the loop); bounded here
    MaxCommands,    \* bound on the commands Python issues
    EarlyCommands   \* whether Python may issue one before the warm-up ended

ASSUME SeqlockAssumption ==
    /\ Attempts \in Nat \ {0} /\ MaxCommands \in Nat
    /\ EarlyCommands \in BOOLEAN

Words == {"lo", "hi", "grip"}
JointWords == <<"lo", "hi">>
GripperWords == <<"grip">>
Unset == -1
Snap == MaxCommands + 1
Values == Unset..Snap

VARIABLES
    seq,        \* cmd_seq_
    buf,        \* cmd_buf_
    py,         \* the write Python is in, or Idle
    issued,     \* number of commands issued: the one in progress is this one
    completed,  \* the last joint command whose write completed
    snap,       \* the RT thread's own write, or Idle
    warm,       \* whether that write is over
    rt,         \* where the RT thread is
    tries,      \* attempts left for the read in progress
    s1,         \* the counter when the attempt began
    copy,       \* the words copied so far
    last_cmd,   \* what the cycle acts on: the last consistent read
    floor       \* completed when the attempt began (history)

write == <<seq, buf>>
read  == <<rt, tries, s1, copy, last_cmd, floor>>
vars  == <<write, py, issued, completed, snap, warm, read>>

(* A write in progress: its next step, the words still to store, and the
   even value the counter had when it was read.                             *)
Writes == [at : {"idle", "load", "odd", "words", "even"},
           words : {<<>>, GripperWords, JointWords, <<"hi">>}, even : Nat]
Idle == [at |-> "idle", words |-> <<>>, even |-> 0]
Begin(words) == [at |-> "load", words |-> words, even |-> 0]

TypeOK ==
    /\ seq \in Nat
    /\ buf \in [Words -> Values]
    /\ py \in Writes /\ snap \in Writes
    /\ issued \in 0..MaxCommands /\ completed \in 0..MaxCommands
    /\ warm \in BOOLEAN
    /\ rt \in {"load", "copy", "check", "snap", "cycle"}
    /\ tries \in 0..Attempts /\ s1 \in Nat
    /\ copy \in [Words -> Values] /\ last_cmd \in [Words -> Values]
    /\ floor \in 0..MaxCommands

(* start() has written command 0 and spawned the RT thread.                 *)
Init ==
    /\ seq = 2
    /\ buf = [w \in Words |-> 0]
    /\ py = Idle /\ issued = 0 /\ completed = 0
    /\ snap = Idle /\ warm = FALSE
    /\ rt = "load" /\ tries = Attempts /\ s1 = 0
    /\ copy = [w \in Words |-> Unset] /\ last_cmd = [w \in Words |-> Unset]
    /\ floor = 0

--------------------------------------------------------------------------------
(* One step of write w storing value; it becomes w2.  (Mutated forms stand
   next to what they mutate.)                                               *)

WriteStepOddLast(w, w2, value) ==
    \/ /\ w.at = "load" /\ UNCHANGED write
       /\ w2 = [w EXCEPT !.at = "words", !.even = seq]
    \/ /\ w.at = "words" /\ w.words # <<>>
       /\ buf' = [buf EXCEPT ![Head(w.words)] = value] /\ UNCHANGED seq
       /\ w2 = [w EXCEPT !.words = Tail(@)]
    \/ /\ w.at = "words" /\ w.words = <<>>
       /\ seq' = w.even + 2 /\ UNCHANGED buf
       /\ w2 = Idle

WriteStepStaysOdd(w, w2, value) ==
    \/ /\ w.at = "load" /\ UNCHANGED write
       /\ w2 = [w EXCEPT !.at = "odd", !.even = seq]
    \/ /\ w.at = "odd"
       /\ seq' = w.even + 1 /\ UNCHANGED buf
       /\ w2 = [w EXCEPT !.at = "words"]
    \/ /\ w.at = "words" /\ w.words # <<>>
       /\ buf' = [buf EXCEPT ![Head(w.words)] = value] /\ UNCHANGED seq
       /\ w2 = [w EXCEPT !.words = Tail(@)]
    \/ /\ w.at = "words" /\ w.words = <<>>
       /\ w2 = Idle /\ UNCHANGED write

WriteStep(w, w2, value) ==
    \/ /\ w.at = "load" /\ UNCHANGED write
       /\ w2 = [w EXCEPT !.at = "odd", !.even = seq]
    \/ /\ w.at = "odd"
       /\ seq' = w.even + 1 /\ UNCHANGED buf
       /\ w2 = [w EXCEPT !.at = "words"]
    \/ /\ w.at = "words" /\ w.words # <<>>
       /\ buf' = [buf EXCEPT ![Head(w.words)] = value] /\ UNCHANGED seq
       /\ w2 = [w EXCEPT !.words = Tail(@)]
    \/ /\ w.at = "words" /\ w.words = <<>>
       /\ seq' = w.even + 2 /\ UNCHANGED buf
       /\ w2 = Idle

(* command_joint_pos(), command_gripper(): a new call.                      *)
Command(words) ==
    /\ py = Idle /\ issued < MaxCommands
    /\ EarlyCommands \/ warm
    /\ issued' = issued + 1
    /\ py' = Begin(words)
    /\ UNCHANGED <<write, completed, snap, warm, read>>

PyWrite ==
    /\ py # Idle
    /\ WriteStep(py, py', issued)
    /\ completed' = IF py' = Idle /\ buf["lo"] = issued THEN issued ELSE completed
    /\ UNCHANGED <<issued, snap, warm, read>>

--------------------------------------------------------------------------------
(* The RT thread.                                                           *)

(* A read ends: the first one leads to the warm-up's own write.             *)
EndRead == rt' = IF warm THEN "cycle" ELSE "snap"

LoadCounter ==
    /\ rt = "load" /\ tries > 0
    /\ IF seq % 2 = 1
       THEN tries' = tries - 1 /\ UNCHANGED <<rt, s1, copy, floor>>
       ELSE /\ s1' = seq /\ floor' = completed /\ rt' = "copy"
            /\ copy' = [w \in Words |-> Unset] /\ UNCHANGED tries
    /\ UNCHANGED <<write, py, issued, completed, snap, warm, last_cmd>>

(* The struct is copied word by word, in order.                             *)
CopyWord(w) ==
    /\ rt = "copy"
    /\ w = CASE copy["lo"] = Unset -> "lo" [] copy["hi"] = Unset -> "hi" [] OTHER -> "grip"
    /\ copy' = [copy EXCEPT ![w] = buf[w]]
    /\ rt' = IF w = "grip" THEN "check" ELSE "copy"
    /\ UNCHANGED <<write, py, issued, completed, snap, warm, tries, s1, last_cmd, floor>>

CheckCounter == seq = s1

(* Accept the copy if the counter did not move, else try again.  The read
   before the loop copies straight into last_cmd, and leaves it there.      *)
CheckCopy ==
    /\ rt = "check"
    /\ IF CheckCounter THEN EndRead /\ UNCHANGED tries
       ELSE tries' = tries - 1 /\ rt' = "load"
    /\ last_cmd' = IF CheckCounter \/ ~warm THEN copy ELSE last_cmd
    /\ UNCHANGED <<write, py, issued, completed, snap, warm, s1, copy, floor>>

(* Torn on every attempt: last_cmd is used again.                           *)
GiveUpWithDefault ==
    /\ rt = "load" /\ tries = 0
    /\ EndRead
    /\ last_cmd' = [w \in Words |-> Unset]
    /\ UNCHANGED <<write, py, issued, completed, snap, warm, tries, s1, copy, floor>>
GiveUp ==
    /\ rt = "load" /\ tries = 0
    /\ EndRead
    /\ UNCHANGED <<write, py, issued, completed, snap, warm, tries, s1, copy, last_cmd, floor>>

(* The warm-up's last cycle points the command at the measured position,
   with the same unguarded store sequence Python uses.  The first cycle that
   acts on a command comes next.                                            *)
SnapBegin ==
    /\ rt = "snap" /\ snap = Idle
    /\ snap' = Begin(JointWords)
    /\ UNCHANGED <<write, py, issued, completed, warm, read>>

SnapWrite ==
    /\ rt = "snap" /\ snap # Idle
    /\ WriteStep(snap, snap', Snap)
    /\ warm' = (snap' = Idle)
    /\ IF snap' = Idle THEN rt' = "load" /\ tries' = Attempts ELSE UNCHANGED <<rt, tries>>
    /\ UNCHANGED <<py, issued, completed, s1, copy, last_cmd, floor>>

NextCycleOneMore ==
    /\ rt = "cycle"
    /\ rt' = "load" /\ tries' = Attempts + 1
    /\ UNCHANGED <<write, py, issued, completed, snap, warm, s1, copy, last_cmd, floor>>
NextCycle ==
    /\ rt = "cycle"
    /\ rt' = "load" /\ tries' = Attempts
    /\ UNCHANGED <<write, py, issued, completed, snap, warm, s1, copy, last_cmd, floor>>

RtStep ==
    \/ LoadCounter \/ (\E w \in Words : CopyWord(w)) \/ CheckCopy \/ GiveUp
    \/ SnapBegin \/ SnapWrite \/ NextCycle

Next ==
    \/ Command(JointWords) \/ Command(GripperWords) \/ PyWrite
    \/ RtStep

Spec == Init /\ [][Next]_vars
(* Both threads keep running; that Python issues commands is not assumed.   *)
FairSpec == Spec /\ WF_vars(RtStep) /\ WF_vars(PyWrite)

--------------------------------------------------------------------------------
(* The loop never acts on half of one joint vector and half of another:
   "Command seqlock (Python writes, RT reads)".                             *)
CommandUntorn == rt = "cycle" => last_cmd["lo"] = last_cmd["hi"]

(* A command that was completely written before a read began is not lost on
   that read: what the loop acts on afterwards is at least as recent, and a
   read that stays torn never brings back the default-constructed buffer.   *)
ReadIsRecent ==
    [][last_cmd' # last_cmd /\ warm /\ floor > 0
         => last_cmd'["lo"] \in floor..MaxCommands]_vars

(* A completed joint command reaches the loop, unless a newer one does.     *)
CommandAdopted ==
    \A n \in 1..MaxCommands :
        completed = n /\ warm ~> last_cmd["lo"] \in n..MaxCommands

================================================================================
