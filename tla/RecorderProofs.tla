----------------------------- MODULE RecorderProofs ----------------------------
(***************************************************************************)
(* The invariants of Recorder, and that it implements Catalogue, for every *)
(* number of episodes, samples and events and every size of the ring.      *)
(***************************************************************************)
EXTENDS Recorder, SequenceTheorems, TLAPS

Alive == main # "dead"
Sent == Messages \cup {SessionEnd}

(* The queues hold what was put into them.                                  *)
QueuesTyped == ring \in Seq(Episodes) /\ batch \in Seq(Episodes) /\ socket \in Seq(Sent)

(* The end of the session is the last message of the socket.                *)
EndIsLast ==
    \A i \in DOMAIN socket :
        socket[i] = SessionEnd => i = Len(socket) /\ events_sent = MaxEvents

(* Events on their way and events counted were all sent.                    *)
EndQueued == \E i \in DOMAIN socket : socket[i] = SessionEnd
Pending == IF EndQueued THEN Len(socket) - 1 ELSE Len(socket)
Uncounted == IF receiver = "bump" THEN 1 ELSE 0
EventsAccounted == gen + Uncounted + Pending <= events_sent

(* Who holds the mutex.                                                     *)
LockHeld ==
    Alive => /\ receiver = "bump" <=> lock = "receiver"
             /\ main \in {"close save", "final save"} <=> lock = "main"

(* From the sample that rolls over to the opening of its file, it is at the
   head of the batch and newer than every episode started.                  *)
Rolling == main \in {"flush", "load", "close", "close save", "open"}
HeadIsNew == Rolling => batch # <<>> /\ Head(batch) > max_index_started
LogsHead == main = "log" => batch # <<>>

(* The open episode's file, through its end.                                *)
CurrentFile ==
    /\ main \in {"flush", "load", "close", "close save", "end flush"} => cur # None
    /\ main = "open" => cur = None
    /\ main \in {"load", "close"} => file[cur] = "closed"
    /\ main = "close save" =>
          file[cur] = "closed" \/ (file[cur] = "deleted" /\ cur \in discarded)
    /\ main \in {"top", "save", "ring", "sample", "log", "flush", "end", "end flush"}
       /\ cur # None => file[cur] = "open"
    /\ main = "end flush" => cur \in eps

(* The files of the other episodes: those past are closed or discarded, those
   to come do not exist.                                                    *)
OtherFiles ==
    \A e \in Episodes :
        /\ e > max_index_started => file[e] = "none"
        /\ file[e] = "open" => e = cur
        /\ e \in eps => \/ file[e] = "closed"
                        \/ file[e] = "deleted" /\ e \in discarded
                        \/ main = "end flush" /\ e = cur
        /\ file[e] = "closed" => e \in eps \/ (e = cur /\ main \in {"load", "close", "close save"})

FilesInv == Alive => CurrentFile /\ OtherFiles

(* CoveredMeansListed, up to the opening of the next file.                  *)
Covered ==
    main \in {"top", "ring", "sample", "log", "open"} /\ gen = manifest_gen /\ lock = Nobody
    /\ ~failed => listed = View

IInv ==
    /\ TypeOK /\ QueuesTyped /\ EndIsLast /\ EventsAccounted
    /\ LockHeld /\ HeadIsNew /\ LogsHead /\ FilesInv /\ Covered
--------------------------------------------------------------------------------
(* Queues.                                                                  *)

LEMMA ElementsTyped ==
    ASSUME NEW S, NEW s \in Seq(S)
    PROVE  /\ Len(s) \in Nat /\ DOMAIN s = 1..Len(s)
           /\ \A i \in DOMAIN s : s[i] \in S
           /\ s # <<>> => Len(s) >= 1
  BY LenProperties, EmptySeq

LEMMA Appended ==
    ASSUME NEW S, NEW s \in Seq(S), NEW e \in S
    PROVE  /\ Append(s, e) \in Seq(S) /\ Len(Append(s, e)) = Len(s) + 1
           /\ Append(s, e)[Len(s) + 1] = e /\ Append(s, e) # <<>>
           /\ \A i \in 1..Len(s) : Append(s, e)[i] = s[i]
  BY AppendProperties

LEMMA MessagesAreNotTheEnd ==
    /\ SessionEnd.kind = "session_end"
    /\ \A m \in Messages : /\ m # SessionEnd /\ m.kind # "session_end"
                           /\ m.episode \in Episodes
<1>1. SessionEnd.kind = "session_end"
  BY DEF SessionEnd
<1>2. \A m \in Messages : m.kind # "session_end" /\ m.episode \in Episodes
  BY DEF Messages
<1> QED
  BY <1>1, <1>2

(* A bounded ring that loses its oldest sample stays a bounded ring.        *)
LEMMA Pushed ==
    ASSUME NEW s \in Seq(Episodes), NEW e \in Episodes, Len(s) <= RingSize,
           NEW r, r = Append(s, e)
    PROVE  LET t == IF Len(r) > RingSize THEN Tail(r) ELSE r
           IN  t \in Seq(Episodes) /\ Len(t) <= RingSize
<1>1. r \in Seq(Episodes) /\ Len(r) = Len(s) + 1 /\ r # <<>> /\ Len(s) \in Nat
  BY Appended, ElementsTyped
<1>2. Tail(r) \in Seq(Episodes) /\ Len(Tail(r)) = Len(r) - 1
  BY <1>1, HeadTailProperties
<1> QED
  BY <1>1, <1>2, RecorderAssumption

(* The facts about numbers the proofs keep needing.                         *)
LEMMA Numbers ==
    /\ Episodes = 0..MaxEpisode /\ Episodes \subseteq Nat /\ None \notin Episodes /\ None \in Int
    /\ MaxEpisode \in Nat /\ MaxSamples \in Nat /\ MaxEvents \in Nat /\ RingSize \in Nat \ {0}
  BY RecorderAssumption DEF Episodes, None

LEMMA Increment ==
    ASSUME NEW max \in Nat, NEW n \in 0..max, n < max
    PROVE  n + 1 \in 0..max
  OBVIOUS

--------------------------------------------------------------------------------
(* Types: the control process and the event thread.                         *)

QueueInv == TypeOK /\ QueuesTyped /\ EndIsLast /\ EventsAccounted

LEMMA ControlTypes == QueueInv /\ Control => QueueInv'
<1> SUFFICES ASSUME QueueInv, Control PROVE QueueInv'
  OBVIOUS
<1>0. TypeOK /\ QueuesTyped /\ EndIsLast /\ EventsAccounted
  BY DEF QueueInv
<1>01. /\ turn \in Episodes /\ published \in 0..MaxSamples /\ events_sent \in 0..MaxEvents
       /\ gen \in 0..MaxEvents /\ socket \in Seq(Sent) /\ ring \in Seq(Episodes) /\ Len(ring) <= RingSize
  BY <1>0 DEF TypeOK, QueuesTyped
<1>02. events_sent \in Nat /\ gen \in Nat /\ events_sent <= MaxEvents
  BY <1>01, Numbers
<1>1. CASE PublishSample
  <2>1. PICK e \in {turn, turn - 1} \cap Episodes :
           LET r == Append(ring, e) IN ring' = IF Len(r) > RingSize THEN Tail(r) ELSE r
    BY <1>1 DEF PublishSample
  <2>2. ring' \in Seq(Episodes) /\ Len(ring') <= RingSize
    BY <1>01, <2>1, Pushed
  <2>3. \A i \in DOMAIN ring' : ring'[i] \in Episodes
    BY <2>2, ElementsTyped
  <2>4. published' \in 0..MaxSamples
    BY <1>01, <1>1, Increment, Numbers DEF PublishSample
  <2>5. UNCHANGED <<turn, events_sent, socket, session_end, events, lock, main, locals, disk>>
    BY <1>1 DEF PublishSample
  <2>6. TypeOK'
    BY <1>0, <2>2, <2>3, <2>4, <2>5 DEF TypeOK, events, locals, disk
  <2> QED
    BY <1>0, <2>2, <2>5, <2>6 DEF QueueInv, QueuesTyped, EndIsLast, EventsAccounted, Uncounted,
       Pending, EndQueued, events, locals
<1>2. CASE NextTake
  <2>1. turn' \in Episodes
    BY <1>01, <1>2, Increment, Numbers DEF NextTake
  <2>2. UNCHANGED <<published, events_sent, stream, session_end, events, lock, main, locals, disk>>
    BY <1>2 DEF NextTake
  <2>3. TypeOK'
    BY <1>0, <2>1, <2>2 DEF TypeOK, stream, events, locals, disk
  <2>4. EventsAccounted'
    BY <1>0, <2>2 DEF EventsAccounted, Uncounted, Pending, EndQueued, stream, events
  <2> QED
    BY <1>0, <2>2, <2>3, <2>4 DEF QueueInv, QueuesTyped, EndIsLast, stream, locals
<1>3. CASE SendEvent
  <2>1. PICK m \in Messages : socket' = Append(socket, m)
    BY <1>3 DEF SendEvent
  <2>2. /\ events_sent < MaxEvents /\ events_sent' = events_sent + 1
        /\ UNCHANGED <<turn, published, ring, session_end, events, lock, main, locals, disk>>
    BY <1>3 DEF SendEvent
  <2>3. /\ Len(socket) \in Nat /\ DOMAIN socket = 1..Len(socket)
    BY <1>01, ElementsTyped
  <2>4. /\ socket' \in Seq(Sent) /\ Len(socket') = Len(socket) + 1
        /\ DOMAIN socket' = 1..Len(socket') /\ socket'[Len(socket) + 1] = m
        /\ \A i \in 1..Len(socket) : socket'[i] = socket[i]
    BY <1>01, <2>1, <2>3, Appended, ElementsTyped DEF Sent
  <2>5. ~EndQueued
    BY <1>0, <1>02, <2>2, <2>3, Numbers DEF EndIsLast, EndQueued
  <2>6. ~EndQueued'
    BY <2>3, <2>4, <2>5, MessagesAreNotTheEnd DEF EndQueued
  <2>7. EventsAccounted'
    BY <1>0, <1>02, <2>2, <2>3, <2>4, <2>5, <2>6 DEF EventsAccounted, Pending, Uncounted, events
  <2>8. Len(socket') <= MaxEvents + 1 /\ events_sent' \in 0..MaxEvents
    BY <1>0, <1>01, <1>02, <2>2, <2>3, <2>4, <2>5, Increment, Numbers
    DEF EventsAccounted, Pending, Uncounted
  <2>9. \A i \in DOMAIN socket' : socket'[i] \in Sent
    BY <2>4, ElementsTyped
  <2>10. TypeOK'
    BY <1>0, <2>2, <2>8, <2>9 DEF TypeOK, Sent, events, locals, disk
  <2> QED
    BY <1>0, <2>2, <2>4, <2>6, <2>7, <2>10 DEF QueueInv, QueuesTyped, EndIsLast, EndQueued, locals
<1>4. CASE SendEnd
  <2>1. /\ \A i \in DOMAIN socket : socket[i] # SessionEnd
        /\ \/ socket' = Append(socket, SessionEnd) /\ UNCHANGED session_end
           \/ session_end' = TRUE /\ UNCHANGED socket
        /\ events_sent' = MaxEvents
        /\ UNCHANGED <<turn, published, ring, events, lock, main, locals, disk>>
    BY <1>4 DEF SendEnd
  <2>2. /\ Len(socket) \in Nat /\ DOMAIN socket = 1..Len(socket) /\ ~EndQueued
        /\ MaxEvents \in 0..MaxEvents
    BY <1>01, <2>1, ElementsTyped, Numbers DEF EndQueued
  <2>3. CASE socket' = Append(socket, SessionEnd) /\ UNCHANGED session_end
    <3>1. /\ socket' \in Seq(Sent) /\ Len(socket') = Len(socket) + 1
          /\ DOMAIN socket' = 1..Len(socket') /\ socket'[Len(socket) + 1] = SessionEnd
          /\ \A i \in 1..Len(socket) : socket'[i] = socket[i]
      BY <1>01, <2>2, <2>3, Appended, ElementsTyped DEF Sent
    <3>2. EndQueued'
      BY <2>2, <3>1 DEF EndQueued
    <3>3. EventsAccounted' /\ Len(socket') <= MaxEvents + 1
      BY <1>0, <1>02, <2>1, <2>2, <3>1, <3>2, Numbers DEF EventsAccounted, Pending, Uncounted, events
    <3>4. EndIsLast'
      BY <2>1, <2>2, <3>1 DEF EndIsLast
    <3>5. \A i \in DOMAIN socket' : socket'[i] \in Sent
      BY <3>1, ElementsTyped
    <3>6. TypeOK'
      BY <1>0, <2>1, <2>2, <2>3, <3>3, <3>5 DEF TypeOK, Sent, events, locals, disk
    <3> QED
      BY <1>0, <2>1, <3>1, <3>3, <3>4, <3>6 DEF QueueInv, QueuesTyped, locals
  <2>4. CASE session_end' = TRUE /\ UNCHANGED socket
    <3>1. ~EndQueued'
      BY <2>2, <2>4 DEF EndQueued
    <3>2. EventsAccounted'
      BY <1>0, <1>02, <2>1, <2>2, <2>4, <3>1, Numbers DEF EventsAccounted, Pending, Uncounted, events
    <3> QED
      BY <1>0, <2>1, <2>2, <2>4, <3>2 DEF TypeOK, QueueInv, QueuesTyped, EndIsLast, events, locals, disk
  <2> QED
    BY <2>1, <2>3, <2>4
<1> QED
  BY <1>1, <1>2, <1>3, <1>4 DEF Control

LEMMA EventTypes == QueueInv /\ EventThread => QueueInv'
<1> SUFFICES ASSUME QueueInv, EventThread PROVE QueueInv'
  OBVIOUS
<1>0. TypeOK /\ QueuesTyped /\ EndIsLast /\ EventsAccounted
  BY DEF QueueInv
<1>01. /\ events_sent \in 0..MaxEvents /\ gen \in 0..MaxEvents /\ socket \in Seq(Sent)
       /\ Len(socket) <= MaxEvents + 1 /\ g \in 0..gen /\ manifest_gen \in 0..gen
  BY <1>0 DEF TypeOK, QueuesTyped
<1>02. /\ events_sent \in Nat /\ gen \in Nat /\ events_sent <= MaxEvents /\ MaxEvents \in Nat
       /\ Len(socket) \in Nat /\ DOMAIN socket = 1..Len(socket)
  BY <1>01, Numbers, ElementsTyped
<1>1. CASE Receive
  <2>1. /\ receiver = "receive" /\ socket # <<>> /\ socket' = Tail(socket)
        /\ UNCHANGED <<control, ring, gen, main, locals, disk>>
    BY <1>1 DEF Receive
  <2>2. /\ socket' \in Seq(Sent) /\ Len(socket') = Len(socket) - 1 /\ Len(socket) >= 1
        /\ DOMAIN socket' = 1..Len(socket') /\ Len(socket') \in Nat
        /\ \A i \in 1..Len(socket') : socket'[i] = socket[i + 1]
        /\ Head(socket) = socket[1] /\ socket[1] \in Sent
    BY <1>01, <1>02, <2>1, HeadTailProperties, ElementsTyped
  <2>3. \A i \in DOMAIN socket' : socket'[i] \in Sent
    BY <2>2, ElementsTyped
  <2>4. Len(socket') <= MaxEvents + 1
    BY <1>01, <1>02, <2>2
  <2>5. EndIsLast'
    BY <1>0, <1>02, <2>1, <2>2 DEF EndIsLast, control
  <2>6. CASE socket[1] = SessionEnd
    <3>1. session_end' = TRUE /\ receiver' = "check" /\ UNCHANGED <<lock, discarded, graded>>
      BY <1>1, <2>2, <2>6, MessagesAreNotTheEnd DEF Receive
    <3>2. Len(socket') = 0 /\ ~EndQueued' /\ EndQueued
      BY <1>0, <1>02, <2>2, <2>6 DEF EndIsLast, EndQueued
    <3>3. EventsAccounted'
      BY <1>0, <1>02, <2>1, <2>2, <3>1, <3>2 DEF EventsAccounted, Pending, Uncounted, control
    <3>4. TypeOK'
      BY <1>0, <2>1, <2>3, <2>4, <3>1 DEF TypeOK, Sent, control, locals, disk
    <3> QED
      BY <1>0, <2>1, <2>2, <2>5, <3>3, <3>4 DEF QueueInv, QueuesTyped, locals
  <2>7. CASE socket[1] # SessionEnd
    <3>1. socket[1] \in Messages /\ socket[1].kind # "session_end" /\ socket[1].episode \in Episodes
      BY <2>2, <2>7, MessagesAreNotTheEnd DEF Sent
    <3>2. /\ lock' = "receiver" /\ receiver' = "bump" /\ UNCHANGED session_end
          /\ discarded' = discarded \cup {socket[1].episode} \/ discarded' = discarded
          /\ graded' = graded \cup {socket[1].episode} \/ graded' = graded
      BY <1>1, <2>2, <3>1 DEF Receive
    <3>3. EndQueued' <=> EndQueued
      <4>1. ASSUME EndQueued PROVE EndQueued'
        <5>1. PICK i \in 2..Len(socket) : socket[i] = SessionEnd
          BY <1>02, <2>7, <4>1 DEF EndQueued
        <5>2. i - 1 \in 1..Len(socket') /\ socket'[i - 1] = socket[i]
          BY <1>02, <2>2, <5>1
        <5> QED
          BY <2>2, <5>1, <5>2 DEF EndQueued
      <4>2. ASSUME EndQueued' PROVE EndQueued
        BY <1>02, <2>2, <4>2 DEF EndQueued
      <4> QED
        BY <4>1, <4>2
    <3>4. EventsAccounted'
      <4>1. Pending \in Int /\ Pending' = Pending - 1
        BY <1>02, <2>2, <3>3 DEF Pending
      <4>2. Uncounted = 0 /\ Uncounted' = 1 /\ UNCHANGED <<gen, events_sent>>
        BY <2>1, <3>2 DEF Uncounted, control
      <4> QED
        BY <1>0, <1>02, <4>1, <4>2 DEF EventsAccounted
    <3>5. TypeOK'
      BY <1>0, <2>1, <2>3, <2>4, <3>1, <3>2 DEF TypeOK, Sent, control, locals, disk
    <3> QED
      BY <1>0, <2>1, <2>2, <2>5, <3>4, <3>5 DEF QueueInv, QueuesTyped, locals
  <2> QED
    BY <2>6, <2>7
<1>2. CASE Bump
  <2>1. /\ receiver = "bump" /\ gen' = gen + 1 /\ lock' = Nobody /\ receiver' = "check"
        /\ UNCHANGED <<control, stream, session_end, discarded, graded, main, locals, disk>>
    BY <1>2 DEF Bump
  <2>2. UNCHANGED <<Pending, events_sent>> /\ Uncounted = 1 /\ Uncounted' = 0
    BY <2>1 DEF Pending, EndQueued, Uncounted, control, stream
  <2>3. Pending \in Int /\ Pending >= 0
    BY <1>02 DEF Pending, EndQueued
  <2>6. EventsAccounted'
    BY <1>0, <1>02, <2>1, <2>2, <2>3 DEF EventsAccounted
  <2>7. gen + 1 <= MaxEvents
    BY <1>0, <1>02, <2>2, <2>3 DEF EventsAccounted
  <2>4. gen' \in 0..MaxEvents /\ g \in 0..gen' /\ manifest_gen \in 0..gen'
    BY <1>01, <1>02, <2>1, <2>7
  <2>5. TypeOK'
    BY <1>0, <2>1, <2>4 DEF TypeOK, control, stream, locals, disk
  <2> QED
    BY <1>0, <2>1, <2>5, <2>6 DEF QueueInv, QueuesTyped, EndIsLast, control, stream, locals
<1>3. CASE LooksAtFlag \/ ReceiveTimesOut
  BY <1>0, <1>3 DEF LooksAtFlag, ReceiveTimesOut, TypeOK, QueueInv, QueuesTyped, EndIsLast, EventsAccounted, Pending,
     EndQueued, Uncounted, control, stream, locals, disk
<1> QED
  BY <1>1, <1>2, <1>3 DEF EventThread

--------------------------------------------------------------------------------
(* Types: the main loop.                                                    *)

LEMMA ViewTyped ==
    ASSUME NEW finished \in SUBSET Episodes
    PROVE  \A l \in Promise!View(finished) : l \in [episode : Episodes, graded : BOOLEAN]
<1> SUFFICES ASSUME NEW l \in Promise!View(finished)
             PROVE  l \in [episode : Episodes, graded : BOOLEAN]
  OBVIOUS
<1>1. PICK e \in finished \ discarded : l = [episode |-> e, graded |-> e \in graded]
  BY DEF Promise!View
<1>2. e \in Episodes /\ (e \in graded) \in BOOLEAN
  OBVIOUS
<1> QED
  BY <1>1, <1>2

(* What the main loop leaves alone.                                         *)
LEMMA OutsideKept ==
    ASSUME QueueInv, Outside, QueuesTyped'
    PROVE  EndIsLast' /\ EventsAccounted'
  BY DEF QueueInv, Outside, EndIsLast, EventsAccounted, Pending, EndQueued, Uncounted, control, events

LEMMA MainTypes == IInv /\ MainStep => QueueInv'
<1> SUFFICES ASSUME IInv, MainStep PROVE QueueInv'
  OBVIOUS
<1>0. /\ TypeOK /\ QueuesTyped /\ EndIsLast /\ EventsAccounted /\ QueueInv
      /\ ring \in Seq(Episodes) /\ batch \in Seq(Episodes)
  BY DEF IInv, QueueInv, QueuesTyped
<1>1. Outside /\ main # "dead"
  BY DEF MainStep, Top, SaveEvents, Drain, Sample, Flush, LoadGen, Close, CloseSave, Open, Log, End,
     EndFlush, Clean, FinalSave, At
<1>2. CurrentFile /\ HeadIsNew /\ LogsHead
  BY <1>1 DEF IInv, FilesInv, Alive
<1>3. View = Promise!View(eps) /\ \A l \in View : l \in [episode : Episodes, graded : BOOLEAN]
  BY <1>0, ViewTyped DEF View, TypeOK
<1>4. gen \in Nat /\ g \in 0..gen /\ gen \in 0..gen
  <2>1. gen \in 0..MaxEvents /\ g \in 0..gen
    BY <1>0 DEF TypeOK
  <2> QED
    BY <2>1, Numbers
<1> SUFFICES TypeOK' /\ QueuesTyped'
  BY <1>0, <1>1, OutsideKept DEF QueueInv
<1> USE <1>0, <1>1 DEF Outside, control, events, At
<1>5. CASE Top
  BY <1>4, <1>5 DEF Top, TypeOK, QueuesTyped, disk
<1>6. CASE SaveEvents
  BY <1>3, <1>4, <1>6 DEF SaveEvents, WriteManifest, TypeOK, QueuesTyped
<1>7. CASE Drain
  <2>1. <<>> \in Seq(Episodes) /\ Len(<<>>) = 0 /\ DOMAIN <<>> = {}
    BY EmptySeq, LenProperties
  <2>2. /\ main' = "sample" /\ batch' = ring /\ ring' = <<>>
        /\ UNCHANGED <<lock, cur, max_index_started, eps, g, manifest_gen, disk>>
    BY <1>7 DEF Drain
  <2>3. Len(ring') <= RingSize /\ Len(batch') <= RingSize /\ \A i \in DOMAIN ring' : ring'[i] \in Episodes
    <3>1. Len(ring) <= RingSize
      BY DEF TypeOK
    <3>2. 0 <= RingSize
      BY Numbers
    <3> QED
      BY <2>1, <2>2, <3>1, <3>2
  <2> QED
    BY <2>1, <2>2, <2>3 DEF TypeOK, QueuesTyped, disk
<1>8. CASE Sample
  BY <1>8 DEF Sample, TypeOK, QueuesTyped, locals, disk
<1>9. CASE Flush
  BY <1>9 DEF Flush, TypeOK, QueuesTyped, locals
<1>10. CASE LoadGen
  BY <1>4, <1>10 DEF LoadGen, TypeOK, QueuesTyped, disk
<1>11. CASE Close
  BY <1>11 DEF Close, Removed, TypeOK, QueuesTyped, locals
<1>12. CASE CloseSave
  <2>1. /\ main' = "open" /\ eps' = eps \cup {cur} /\ cur' = None /\ manifest_gen' = g /\ lock' = Nobody
        /\ listed' = Promise!View(eps') \/ listed' = listed
        /\ failed' \in BOOLEAN
        /\ UNCHANGED <<ring, batch, max_index_started, g, file>>
    BY <1>12 DEF CloseSave, WriteManifest
  <2>2. eps' \subseteq Episodes
    BY <1>2, <1>12, <2>1 DEF CurrentFile, CloseSave, TypeOK
  <2>3. \A l \in Promise!View(eps') : l \in [episode : Episodes, graded : BOOLEAN]
    BY <2>2, ViewTyped
  <2>4. \A l \in listed' : l \in [episode : Episodes, graded : BOOLEAN]
    BY <2>1, <2>3 DEF TypeOK
  <2>5. cur' \in Episodes \cup {None} /\ cur' <= max_index_started'
    <3>1. max_index_started \in Episodes \cup {None}
      BY DEF TypeOK
    <3> QED
      BY <2>1, <3>1, Numbers DEF None
  <2> QED
    BY <1>4, <2>1, <2>2, <2>4, <2>5 DEF TypeOK, QueuesTyped
<1>13. CASE Open
  <2>1. batch # <<>> /\ Head(batch) \in Episodes
    BY <1>2, <1>13, HeadTailProperties DEF HeadIsNew, Rolling, Open
  <2>2. /\ main' = "log" /\ file' = [file EXCEPT ![Head(batch)] = "open"]
        /\ cur' = Head(batch) /\ max_index_started' = Head(batch)
        /\ UNCHANGED <<ring, lock, batch, eps, g, manifest_gen, listed, failed>>
    BY <1>13 DEF Open
  <2>3. Head(batch) <= Head(batch)
    BY <2>1, Numbers
  <2> QED
    BY <2>1, <2>2, <2>3 DEF TypeOK, QueuesTyped
<1>14. CASE Log
  <2>1. batch # <<>>
    BY <1>2, <1>14 DEF Log, LogsHead
  <2>2. Tail(batch) \in Seq(Episodes) /\ Len(Tail(batch)) = Len(batch) - 1 /\ Len(batch) \in Nat
    BY <2>1, HeadTailProperties, LenProperties
  <2>3. Len(Tail(batch)) <= RingSize
    <3>1. Len(batch) <= RingSize
      BY DEF TypeOK
    <3> QED
      BY <2>2, <3>1, Numbers
  <2> QED
    BY <1>14, <2>2, <2>3 DEF Log, TypeOK, QueuesTyped, disk
<1>15. CASE End
  BY <1>15 DEF End, TypeOK, QueuesTyped, disk
<1>16. CASE EndFlush
  BY <1>16 DEF EndFlush, TypeOK, QueuesTyped, locals
<1>17. CASE Clean
  BY <1>17 DEF Clean, Removed, TypeOK, QueuesTyped, locals
<1>18. CASE FinalSave
  BY <1>3, <1>18 DEF FinalSave, WriteManifest, TypeOK, QueuesTyped, locals
<1> QED
  BY <1>5, <1>6, <1>7, <1>8, <1>9, <1>10, <1>11, <1>12, <1>13, <1>14, <1>15, <1>16, <1>17, <1>18
  DEF MainStep

--------------------------------------------------------------------------------
(* The mutex, and the head of the batch.                                    *)

LEMMA LockStep == IInv /\ [Next]_vars => LockHeld'
<1> SUFFICES ASSUME IInv, [Next]_vars PROVE LockHeld'
  OBVIOUS
<1>0. LockHeld
  BY DEF IInv
<1> USE <1>0 DEF LockHeld, Alive
<1>1. CASE Control
  BY <1>1 DEF Control, PublishSample, NextTake, SendEvent, SendEnd, events
<1>2. CASE EventThread
  <2>1. receiver \in {"check", "receive", "bump", "off"} /\ lock \in {Nobody, "main", "receiver"}
    BY DEF IInv, TypeOK
  <2> QED
    BY <1>2, <2>1 DEF EventThread, Receive, Bump, LooksAtFlag, ReceiveTimesOut, Nobody
<1>3. CASE MainStep
  <2>1. lock \in {Nobody, "main", "receiver"}
    BY DEF IInv, TypeOK
  <2> USE <2>1 DEF Outside, At, events, Nobody
  <2>2. CASE Top \/ SaveEvents \/ Drain \/ Sample \/ Flush \/ LoadGen
    BY <2>2 DEF Top, SaveEvents, Drain, Sample, Flush, LoadGen
  <2>3. CASE Close \/ CloseSave \/ Open \/ Log
    BY <2>3 DEF Close, CloseSave, Open, Log
  <2>4. CASE End \/ EndFlush \/ Clean \/ FinalSave
    BY <2>4 DEF End, EndFlush, Clean, FinalSave
  <2> QED
    BY <1>3, <2>2, <2>3, <2>4 DEF MainStep
<1>4. CASE Crash
  BY <1>4 DEF Crash
<1>5. CASE UNCHANGED vars
  BY <1>5 DEF vars, events
<1> QED
  BY <1>1, <1>2, <1>3, <1>4, <1>5 DEF Next

LEMMA HeadStep == IInv /\ [Next]_vars => HeadIsNew' /\ LogsHead'
<1> SUFFICES ASSUME IInv, [Next]_vars PROVE HeadIsNew' /\ LogsHead'
  OBVIOUS
<1>0. HeadIsNew /\ LogsHead
  BY DEF IInv
<1> USE <1>0 DEF HeadIsNew, LogsHead, Rolling
<1>1. CASE Control \/ EventThread
  BY <1>1 DEF Control, PublishSample, NextTake, SendEvent, SendEnd, EventThread, Receive, Bump,
     LooksAtFlag, ReceiveTimesOut, locals
<1>2. CASE MainStep
  <2> USE DEF At
  <2>1. CASE Sample
    BY <2>1 DEF Sample, RollsOver, locals
  <2>2. CASE Top \/ SaveEvents \/ Drain \/ Flush \/ LoadGen
    BY <2>2 DEF Top, SaveEvents, Drain, Flush, LoadGen, locals
  <2>3. CASE Close \/ CloseSave \/ Open \/ Log
    BY <2>3 DEF Close, CloseSave, Open, Log, locals
  <2>4. CASE End \/ EndFlush \/ Clean \/ FinalSave
    BY <2>4 DEF End, EndFlush, Clean, FinalSave
  <2> QED
    BY <1>2, <2>1, <2>2, <2>3, <2>4 DEF MainStep
<1>3. CASE Crash
  BY <1>3 DEF Crash
<1>4. CASE UNCHANGED vars
  BY <1>4 DEF vars, locals
<1> QED
  BY <1>1, <1>2, <1>3, <1>4 DEF Next

--------------------------------------------------------------------------------
(* The files.                                                               *)

LEMMA FilesStep == IInv /\ [Next]_vars => FilesInv'
<1> SUFFICES ASSUME IInv, [Next]_vars, Alive' PROVE CurrentFile' /\ OtherFiles'
  BY DEF FilesInv
<1>0. /\ file \in [Episodes -> {"none", "open", "closed", "deleted"}] /\ eps \subseteq Episodes
      /\ cur \in Episodes \cup {None} /\ max_index_started \in Episodes \cup {None}
      /\ cur <= max_index_started /\ batch \in Seq(Episodes)
      /\ HeadIsNew /\ Episodes \subseteq Nat /\ None \notin Episodes /\ None \in Int
  BY Numbers DEF IInv, TypeOK, QueuesTyped
<1>1. CASE ~Alive
  BY <1>1 DEF Alive, Next, EventThread, Receive, Bump, LooksAtFlag, ReceiveTimesOut, MainStep, Top,
     SaveEvents, Drain, Sample, Flush, LoadGen, Close, CloseSave, Open, Log, End, EndFlush, Clean, FinalSave, At, Crash,
     vars
<1>2. CASE Alive /\ UNCHANGED <<main, file, eps, cur, max_index_started>> /\ discarded \subseteq discarded'
  BY <1>2 DEF IInv, FilesInv, CurrentFile, OtherFiles
<1>3. CASE Alive /\ MainStep
  <2>1. CurrentFile /\ OtherFiles
    BY <1>3 DEF IInv, FilesInv
  <2>2. UNCHANGED discarded
    BY <1>3 DEF MainStep, Top, SaveEvents, Drain, Sample, Flush, LoadGen, Close, CloseSave, Open, Log,
       End, EndFlush, Clean, FinalSave, Outside, events
  <2> USE <2>1, <2>2 DEF At
  <2>3. CASE Top \/ SaveEvents \/ Drain \/ Log
    BY <2>3 DEF Top, SaveEvents, Drain, Log, disk, CurrentFile, OtherFiles
  <2>4. CASE Sample
    BY <2>4 DEF Sample, locals, disk, CurrentFile, OtherFiles
  <2>5. CASE Flush
    BY <1>0, <2>5 DEF Flush, locals, CurrentFile, OtherFiles
  <2>6. CASE LoadGen
    BY <2>6 DEF LoadGen, disk, CurrentFile, OtherFiles
  <2>7. CASE Close
    BY <1>0, <2>7 DEF Close, Removed, locals, CurrentFile, OtherFiles
  <2>8. CASE CloseSave
    BY <1>0, <2>8 DEF CloseSave, CurrentFile, OtherFiles
  <2>9. CASE Open
    BY <1>0, <2>9 DEF Open, CurrentFile, OtherFiles, HeadIsNew, Rolling
  <2>10. CASE End
    BY <1>0, <2>10 DEF End, disk, CurrentFile, OtherFiles
  <2>11. CASE EndFlush
    BY <1>0, <2>11 DEF EndFlush, locals, CurrentFile, OtherFiles
  <2>12. CASE Clean
    BY <1>0, <2>12 DEF Clean, Removed, locals, CurrentFile, OtherFiles
  <2>13. CASE FinalSave
    BY <2>13 DEF FinalSave, locals, CurrentFile, OtherFiles
  <2> QED
    BY <1>3, <2>3, <2>4, <2>5, <2>6, <2>7, <2>8, <2>9, <2>10, <2>11, <2>12, <2>13 DEF MainStep
<1>4. Alive /\ Control => UNCHANGED <<main, file, eps, cur, max_index_started, discarded>>
  BY DEF Control, PublishSample, NextTake, SendEvent, SendEnd, events, locals, disk
<1>5. Alive /\ EventThread
        => UNCHANGED <<main, file, eps, cur, max_index_started>> /\ discarded \subseteq discarded'
  BY DEF EventThread, Receive, Bump, LooksAtFlag, ReceiveTimesOut, locals, disk
<1>6. ~Crash
  BY DEF Crash, Alive
<1> QED
  BY <1>1, <1>2, <1>3, <1>4, <1>5, <1>6 DEF Next, vars, events, locals, disk

--------------------------------------------------------------------------------
(* The manifest.                                                            *)

LEMMA CoveredStep == IInv /\ [Next]_vars => Covered'
<1> SUFFICES ASSUME IInv, [Next]_vars PROVE Covered'
  OBVIOUS
<1>0. Covered /\ gen \in Nat /\ manifest_gen \in Int /\ manifest_gen <= gen
  <2>1. gen \in 0..MaxEvents /\ manifest_gen \in 0..gen
    BY DEF IInv, TypeOK
  <2> QED
    BY <2>1, Numbers DEF IInv
<1>1. UNCHANGED <<eps, discarded, graded>> => UNCHANGED View
  BY DEF View, Promise!View
<1> USE <1>0, <1>1 DEF Covered
<1>2. CASE Control
  BY <1>2 DEF Control, PublishSample, NextTake, SendEvent, SendEnd, events, locals, disk
<1>3. CASE Receive
  BY <1>3 DEF Receive, locals, disk, Nobody
<1>4. CASE Bump
  BY <1>4 DEF Bump, locals
<1>5. CASE LooksAtFlag \/ ReceiveTimesOut
  BY <1>5 DEF LooksAtFlag, ReceiveTimesOut, locals, disk
<1>6. CASE MainStep
  <2> USE DEF At, Outside, events
  <2>1. CASE Top \/ Drain \/ Sample \/ Log
    BY <2>1 DEF Top, Drain, Sample, Log, locals, disk
  <2>2. CASE SaveEvents
    BY <2>2 DEF SaveEvents, WriteManifest
  <2>3. CASE CloseSave
    <3>1. UNCHANGED discarded /\ UNCHANGED graded /\ (listed' = Promise!View(eps') \/ failed' = TRUE)
      BY <2>3 DEF CloseSave, WriteManifest
    <3>2. View' = Promise!View(eps')
      BY <3>1 DEF View, Promise!View
    <3> QED
      BY <3>1, <3>2
  <2>4. CASE Open
    BY <2>4 DEF Open
  <2>5. CASE Flush \/ LoadGen \/ Close \/ End \/ EndFlush \/ Clean \/ FinalSave
    BY <2>5 DEF Flush, LoadGen, Close, End, EndFlush, Clean, FinalSave
  <2> QED
    BY <1>6, <2>1, <2>2, <2>3, <2>4, <2>5 DEF MainStep
<1>7. CASE Crash
  BY <1>7 DEF Crash
<1>8. CASE UNCHANGED vars
  BY <1>8 DEF vars, events, locals, disk
<1> QED
  BY <1>2, <1>3, <1>4, <1>5, <1>6, <1>7, <1>8 DEF Next, EventThread

--------------------------------------------------------------------------------
LEMMA Initially == Init => IInv
<1> SUFFICES ASSUME Init PROVE IInv
  OBVIOUS
<1> USE DEF Init, Promise!CatalogueInit
<1>1. /\ <<>> \in Seq(Episodes) /\ <<>> \in Seq(Sent) /\ Len(<<>>) = 0 /\ DOMAIN <<>> = {}
      /\ 0 \in Episodes /\ 0 \in 0..MaxSamples /\ 0 \in 0..MaxEvents /\ 0 \in 0..0
      /\ 0 <= RingSize /\ 0 <= MaxEvents + 1 /\ None <= None
  BY EmptySeq, Numbers DEF None
<1>2. TypeOK /\ QueuesTyped /\ EndIsLast
  BY <1>1 DEF TypeOK, QueuesTyped, EndIsLast
<1>3. EventsAccounted
  BY <1>1 DEF EventsAccounted, Pending, EndQueued, Uncounted
<1>4. LockHeld /\ HeadIsNew /\ LogsHead
  BY DEF LockHeld, HeadIsNew, Rolling, LogsHead, Nobody
<1>5. FilesInv
  BY Numbers DEF FilesInv, CurrentFile, OtherFiles
<1>6. Covered
  BY DEF Covered, View, Promise!View
<1> QED
  BY <1>2, <1>3, <1>4, <1>5, <1>6 DEF IInv

LEMMA Step == IInv /\ [Next]_vars => IInv'
<1> SUFFICES ASSUME IInv, [Next]_vars PROVE IInv'
  OBVIOUS
<1>1. QueueInv'
  <2>1. CASE Control
    BY <2>1, ControlTypes DEF IInv, QueueInv
  <2>2. CASE EventThread
    BY <2>2, EventTypes DEF IInv, QueueInv
  <2>3. CASE MainStep
    BY <2>3, MainTypes
  <2>4. CASE Crash
    <3>1. /\ receiver' = "off" /\ main' = "dead"
          /\ UNCHANGED <<control, stream, session_end, discarded, graded, gen, lock, locals, disk>>
      BY <2>4 DEF Crash
    <3>2. gen \in Nat /\ Pending \in Int /\ Pending' = Pending /\ Uncounted' = 0 /\ Uncounted \in {0, 1}
          /\ events_sent \in Nat
      <4>1. gen \in 0..MaxEvents /\ events_sent \in 0..MaxEvents /\ Len(socket) \in Nat
        BY ElementsTyped DEF IInv, TypeOK, QueuesTyped
      <4> QED
        BY <3>1, <4>1, Numbers DEF Pending, EndQueued, Uncounted, stream
    <3>3. EventsAccounted'
      BY <3>1, <3>2 DEF IInv, EventsAccounted, control
    <3>4. TypeOK'
      BY <3>1 DEF IInv, TypeOK, control, stream, locals, disk
    <3> QED
      BY <3>1, <3>3, <3>4 DEF IInv, QueueInv, QueuesTyped, EndIsLast, control, stream, locals
  <2>5. CASE UNCHANGED vars
    <3>1. TypeOK'
      BY <2>5 DEF vars, IInv, TypeOK, control, stream, events, locals, disk
    <3>2. EventsAccounted'
      BY <2>5 DEF vars, IInv, EventsAccounted, Pending, EndQueued, Uncounted, control, stream, events
    <3> QED
      BY <2>5, <3>1, <3>2 DEF vars, IInv, QueueInv, QueuesTyped, EndIsLast, control, stream, locals
  <2> QED
    BY <2>1, <2>2, <2>3, <2>4, <2>5 DEF Next
<1> QED
  BY <1>1, LockStep, HeadStep, FilesStep, CoveredStep DEF IInv, QueueInv

LEMMA Inductive == Spec => []IInv
  BY Initially, Step, PTL DEF Spec

(* The variables keep their ranges: the generations never run ahead of the
   events sent, and the queues stay within their bounds.                    *)
THEOREM RecorderTypes == Spec => []TypeOK
<1>1. IInv => TypeOK
  BY DEF IInv
<1> QED
  BY <1>1, Inductive, PTL

(* When the loop finds no new generation and its last write went through, the
   manifest is what the finished episodes and the counted events make it.   *)
THEOREM CoveredListed == Spec => []CoveredMeansListed
<1>1. IInv => CoveredMeansListed
  BY DEF IInv, Covered, CoveredMeansListed
<1> QED
  BY <1>1, Inductive, PTL

--------------------------------------------------------------------------------
(* The recorder implements the catalogue.                                   *)

LEMMA SameView ==
    ASSUME NEW A, NEW B, A \ discarded = B \ discarded
    PROVE  Promise!View(A) = Promise!View(B)
  BY DEF Promise!View

(* Whenever the manifest is written, what the recorder calls finished is what
   the disk holds, up to what was discarded.                                *)
LEMMA FinishedIsClosed ==
    ASSUME IInv, main \in {"save", "close save", "final save"},
           NEW finished, finished = IF main = "close save" THEN eps \cup {cur} ELSE eps
    PROVE  Promise!View(finished) = Promise!View(Promise!Closed)
<1>1. CurrentFile /\ OtherFiles /\ eps \subseteq Episodes /\ cur \in Episodes \cup {None}
  BY DEF IInv, FilesInv, Alive, TypeOK
<1>2. finished \subseteq Episodes
  BY <1>1 DEF CurrentFile
<1>3. ASSUME NEW e \in Episodes PROVE e \in finished \ discarded <=> e \in Promise!Closed \ discarded
  BY <1>1 DEF CurrentFile, OtherFiles, Promise!Closed
<1>4. Promise!Closed \subseteq Episodes
  BY DEF Promise!Closed
<1> QED
  BY <1>2, <1>3, <1>4, SameView

LEMMA CatalogueStep == IInv /\ [Next]_vars => [Promise!CatalogueNext]_(Promise!catalogue)
<1> SUFFICES ASSUME IInv, [Next]_vars,
                    ~UNCHANGED <<file, discarded, graded, listed>>
             PROVE  Promise!CatalogueNext
  BY DEF Promise!catalogue
<1>0. /\ file \in [Episodes -> {"none", "open", "closed", "deleted"}] /\ eps \subseteq Episodes
      /\ cur \in Episodes \cup {None} /\ max_index_started \in Episodes \cup {None}
      /\ cur <= max_index_started /\ batch \in Seq(Episodes) /\ socket \in Seq(Sent)
      /\ HeadIsNew /\ Episodes \subseteq Nat /\ None \notin Episodes /\ None \in Int
  BY Numbers DEF IInv, TypeOK, QueuesTyped
<1>1. CASE Receive
  <2>1. socket # <<>> /\ Head(socket) \in Sent /\ UNCHANGED <<file, listed>>
    BY <1>0, <1>1, HeadTailProperties DEF Receive, disk
  <2>2. Head(socket).kind # "session_end"
    BY <1>1, <2>1 DEF Receive
  <2>3. Head(socket).episode \in Episodes
    BY <2>1, <2>2, MessagesAreNotTheEnd DEF Sent
  <2>4. Promise!Verdict(Head(socket).episode)
    BY <1>1, <2>1, <2>2 DEF Receive, Promise!Verdict
  <2> QED
    BY <2>3, <2>4 DEF Promise!CatalogueNext
<1>2. CASE MainStep
  <2>0. CurrentFile /\ OtherFiles /\ UNCHANGED <<discarded, graded>>
    BY <1>2 DEF MainStep, Top, SaveEvents, Drain, Sample, Flush, LoadGen, Close, CloseSave, Open, Log,
       End, EndFlush, Clean, FinalSave, At, Outside, events, IInv, FilesInv, Alive
  <2> USE <2>0 DEF At
  <2>1. CASE SaveEvents \/ CloseSave \/ FinalSave
    <3>1. PICK finished : /\ finished = IF main = "close save" THEN eps \cup {cur} ELSE eps
                          /\ listed' = Promise!View(finished)
      BY <2>1 DEF SaveEvents, CloseSave, FinalSave, WriteManifest, View, locals
    <3>2. UNCHANGED file /\ main \in {"save", "close save", "final save"}
      BY <2>1 DEF SaveEvents, CloseSave, FinalSave
    <3>3. listed' = Promise!View(Promise!Closed)
      BY <3>1, <3>2, FinishedIsClosed
    <3> QED
      BY <3>2, <3>3 DEF Promise!CatalogueNext, Promise!Publish
  <2>2. CASE Flush \/ EndFlush
    <3>1. /\ cur \in Episodes /\ file[cur] = "open" /\ file' = [file EXCEPT ![cur] = "closed"]
          /\ UNCHANGED listed
      BY <1>0, <2>2 DEF Flush, EndFlush, CurrentFile
    <3> QED
      BY <3>1 DEF Promise!CatalogueNext, Promise!Finish
  <2>3. CASE Close
    <3>1. cur \in Episodes /\ file[cur] = "closed" /\ UNCHANGED listed
      BY <1>0, <2>3 DEF Close, CurrentFile
    <3>2. Promise!Delete({cur} \cap discarded)
      BY <2>3, <3>1 DEF Close, Removed, Promise!Delete, Promise!Closed
    <3>3. {cur} \cap discarded \in SUBSET Episodes
      BY <3>1
    <3> QED
      BY <3>2, <3>3 DEF Promise!CatalogueNext
  <2>4. CASE Clean
    <3> DEFINE gone == eps \cap discarded \cap Promise!Closed
    <3>1. gone \in SUBSET Episodes /\ gone \subseteq discarded \cap Promise!Closed
      BY <1>0
    <3>2. \A e \in Episodes : e \in eps \cap discarded => file[e] = "deleted" \/ e \in Promise!Closed
      BY <2>4 DEF Clean, OtherFiles, Promise!Closed
    <3>3. file' = [e \in Episodes |-> IF e \in gone THEN "deleted" ELSE file[e]] /\ UNCHANGED listed
      BY <1>0, <2>4, <3>2 DEF Clean, Removed
    <3> QED
      BY <3>1, <3>3 DEF Promise!CatalogueNext, Promise!Delete
  <2>5. CASE Open
    <3>1. Head(batch) \in Episodes /\ Head(batch) > max_index_started /\ cur = None
      BY <1>0, <2>5, HeadTailProperties DEF Open, HeadIsNew, Rolling, CurrentFile
    <3>2. ASSUME NEW d \in Episodes
          PROVE  file[d] # "open" /\ (d >= Head(batch) => file[d] = "none")
      <4>1. file[d] # "open"
        BY <1>0, <3>1 DEF OtherFiles
      <4>2. ASSUME d >= Head(batch) PROVE d > max_index_started
        <5>1. d \in Nat /\ Head(batch) \in Nat /\ max_index_started \in Int
          BY <1>0, <3>1
        <5> QED
          BY <3>1, <4>2, <5>1
      <4> QED
        BY <4>1, <4>2 DEF OtherFiles
    <3>3. file' = [file EXCEPT ![Head(batch)] = "open"] /\ UNCHANGED listed
      BY <2>5 DEF Open
    <3> QED
      BY <3>1, <3>2, <3>3 DEF Promise!CatalogueNext, Promise!Open
  <2>6. ~(Top \/ Drain \/ Sample \/ LoadGen \/ Log \/ End)
    BY DEF Top, Drain, Sample, LoadGen, Log, End, disk
  <2> QED
    BY <1>2, <2>1, <2>2, <2>3, <2>4, <2>5, <2>6 DEF MainStep
<1>3. ~(Control \/ Bump \/ LooksAtFlag \/ ReceiveTimesOut \/ Crash \/ UNCHANGED vars)
  BY DEF Control, PublishSample, NextTake, SendEvent, SendEnd, Bump, LooksAtFlag, ReceiveTimesOut, Crash,
     events, disk, vars
<1> QED
  BY <1>1, <1>2, <1>3 DEF Next, EventThread

(* Every step of the recorder is one of the catalogue or leaves it alone: no
   finished file is opened again, only a discarded one is deleted, and the
   manifest only ever changes to what is true of the disk at that moment.   *)
THEOREM ImplementsCatalogue == Spec => IsCatalogue
<1>1. Init => Promise!CatalogueInit
  BY DEF Init
<1> QED
  BY <1>1, CatalogueStep, Inductive, PTL DEF Spec, IsCatalogue, Promise!CatalogueSpec

================================================================================
