-------------------------------- MODULE Recorder -------------------------------
(***************************************************************************)
(* The episode recorder, main.rs: the main loop that drains the state ring *)
(* into one file per episode and rewrites the manifest, the thread that    *)
(* receives grades and discards, and the control process that publishes    *)
(* both.  Events::state is behind a mutex, Events::gen is read without it. *)
(* A sample is the index of its episode: at the boundary of a take the     *)
(* stream may bounce back to the one before.  The process may die between  *)
(* any two steps, and a write of the manifest may fail.                    *)
(***************************************************************************)
EXTENDS Integers, Sequences, FiniteSets

CONSTANTS
    MaxEpisode,     \* bound on the episode indices
    MaxSamples,     \* bound on the samples published
    MaxEvents,      \* bound on the grades and discards sent
    RingSize        \* slots of the state ring

ASSUME RecorderAssumption ==
    /\ MaxEpisode \in Nat /\ MaxSamples \in Nat /\ MaxEvents \in Nat
    /\ RingSize \in Nat \ {0}

Episodes == 0..MaxEpisode
None == -1
Nobody == "nobody"

VARIABLES
    turn, published, ring,          \* the control process: its take, its samples
    events_sent, socket,            \* the datagrams on their way
    session_end,                    \* SESSION_END
    receiver, lock,                 \* the event thread, and who holds the mutex
    discarded, graded, gen,         \* Events
    main, batch,                    \* the main loop: where it is, what it drains
    cur, max_index_started, eps,    \* its episodes
    g, manifest_gen,                \* generations: loaded, covered by the manifest
    file, listed,                   \* the disk: episode files and manifest
    failed                          \* the last write of the manifest failed (history)

control == <<turn, published, events_sent>>
stream  == <<ring, socket>>
events  == <<receiver, discarded, graded, gen>>
locals  == <<batch, cur, max_index_started, eps, g, manifest_gen>>
disk    == <<file, listed, failed>>
vars == <<control, stream, session_end, events, lock, main, locals, disk>>

(* What the disk and the operator's verdicts are to someone outside.        *)
Promise == INSTANCE Catalogue
    WITH Episodes <- Episodes, file <- file, discarded <- discarded, graded <- graded,
         listed <- listed
View == Promise!View(eps)

Messages == [kind : {"commit", "discard"}, episode : Episodes]
SessionEnd == [kind |-> "session_end"]

TypeOK ==
    /\ turn \in Episodes /\ published \in 0..MaxSamples /\ events_sent \in 0..MaxEvents
    /\ Len(ring) <= RingSize /\ \A i \in DOMAIN ring : ring[i] \in Episodes
    /\ Len(socket) <= MaxEvents + 1
    /\ \A i \in DOMAIN socket : socket[i] \in Messages \cup {SessionEnd}
    /\ session_end \in BOOLEAN
    /\ receiver \in {"check", "receive", "bump", "off"} /\ lock \in {Nobody, "main", "receiver"}
    /\ discarded \subseteq Episodes /\ graded \subseteq Episodes /\ gen \in 0..MaxEvents
    /\ main \in {"top", "save", "ring", "sample", "flush", "load", "close", "close save", "open",
                 "log", "end", "end flush", "clean", "final save", "done", "dead"}
    /\ Len(batch) <= RingSize
    /\ cur \in Episodes \cup {None} /\ max_index_started \in Episodes \cup {None}
    /\ cur <= max_index_started
    /\ eps \subseteq Episodes /\ g \in 0..gen /\ manifest_gen \in 0..gen
    /\ file \in [Episodes -> {"none", "open", "closed", "deleted"}]
    /\ \A l \in listed : l \in [episode : Episodes, graded : BOOLEAN]
    /\ failed \in BOOLEAN

Init ==
    /\ turn = 0 /\ published = 0 /\ ring = <<>> /\ events_sent = 0 /\ socket = <<>>
    /\ session_end = FALSE /\ receiver = "check" /\ lock = Nobody
    /\ gen = 0 /\ main = "top" /\ batch = <<>>
    /\ cur = None /\ max_index_started = None /\ eps = {}
    /\ g = 0 /\ manifest_gen = 0 /\ failed = FALSE
    /\ Promise!CatalogueInit
-----------------------------------------------------------------------------
(* The control process: samples of its take, at the start of one perhaps one
   of the take before; a full ring loses its oldest.                        *)
PublishSample ==
    /\ published < MaxSamples /\ published' = published + 1
    /\ \E e \in {turn, turn - 1} \cap Episodes :
          LET r == Append(ring, e) IN ring' = IF Len(r) > RingSize THEN Tail(r) ELSE r
    /\ UNCHANGED <<turn, events_sent, socket, session_end, events, lock, main, locals, disk>>

NextTake ==
    /\ turn < MaxEpisode /\ turn' = turn + 1
    /\ UNCHANGED <<published, events_sent, stream, session_end, events, lock, main, locals, disk>>

SendEvent ==
    /\ events_sent < MaxEvents /\ events_sent' = events_sent + 1
    /\ \E m \in Messages : m.episode <= turn /\ socket' = Append(socket, m)
    /\ UNCHANGED <<turn, published, ring, session_end, events, lock, main, locals, disk>>

(* The end of the session, as a message behind the others or as a signal.   *)
SendEnd ==
    /\ \A i \in DOMAIN socket : socket[i] # SessionEnd
    /\ ~session_end
    /\ \/ socket' = Append(socket, SessionEnd) /\ UNCHANGED session_end
       \/ session_end' = TRUE /\ UNCHANGED socket
    /\ events_sent' = MaxEvents
    /\ UNCHANGED <<turn, published, ring, events, lock, main, locals, disk>>

Control == PublishSample \/ NextTake \/ SendEvent \/ SendEnd
-----------------------------------------------------------------------------
(* The event thread: it looks at the flag, then waits for a message until a
   timeout, so that one more may come after the end.  An event goes in and its
   generation is counted behind the mutex; what has not been received by the
   end is lost.                                                             *)
LooksAtFlag ==
    /\ receiver = "check" /\ receiver' = IF session_end THEN "off" ELSE "receive"
    /\ UNCHANGED <<control, stream, session_end, discarded, graded, gen, lock, main, locals, disk>>

Receive ==
    /\ receiver = "receive" /\ socket # <<>>
    /\ socket' = Tail(socket)
    /\ LET m == Head(socket)
       IN \/ /\ m.kind = "session_end" /\ session_end' = TRUE /\ receiver' = "check"
             /\ UNCHANGED <<lock, discarded, graded>>
          \/ /\ m.kind # "session_end" /\ lock = Nobody
             /\ lock' = "receiver" /\ receiver' = "bump" /\ UNCHANGED session_end
             /\ IF m.kind = "discard"
                THEN discarded' = discarded \cup {m.episode} /\ UNCHANGED graded
                ELSE graded' = graded \cup {m.episode} /\ UNCHANGED discarded
    /\ UNCHANGED <<control, ring, gen, main, locals, disk>>

Bump ==
    /\ receiver = "bump" /\ gen' = gen + 1
    /\ lock' = Nobody /\ receiver' = "check"
    /\ UNCHANGED <<control, stream, session_end, discarded, graded, main, locals, disk>>

ReceiveTimesOut ==
    /\ receiver = "receive" /\ socket = <<>> /\ receiver' = "check"
    /\ UNCHANGED <<control, stream, session_end, discarded, graded, gen, lock, main, locals, disk>>

EventThread == LooksAtFlag \/ Receive \/ Bump \/ ReceiveTimesOut
-----------------------------------------------------------------------------
(* The main loop.                                                           *)
At(here, next) == main = here /\ main' = next
Outside == UNCHANGED <<control, socket, session_end, events>>

(* write_manifest(): the rename puts the new manifest in place, or a failure
   leaves the old one.                                                      *)
WriteManifest(view) ==
    \/ listed' = view /\ failed' = FALSE
    \/ listed' = listed /\ failed' = TRUE

Top ==
    /\ main = "top" /\ Outside
    /\ g' = gen
    /\ main' = IF session_end THEN "end" ELSE IF gen # manifest_gen THEN "save" ELSE "ring"
    /\ UNCHANGED <<ring, lock, batch, cur, max_index_started, eps, manifest_gen, disk>>

SaveEvents ==
    /\ At("save", "ring") /\ Outside /\ lock = Nobody
    /\ WriteManifest(View) /\ manifest_gen' = g
    /\ UNCHANGED <<ring, lock, batch, cur, max_index_started, eps, g, file>>

Drain ==
    /\ At("ring", "sample") /\ Outside
    /\ batch' = ring /\ ring' = <<>>
    /\ UNCHANGED <<lock, cur, max_index_started, eps, g, manifest_gen, disk>>

(* episode_transition(): an index that was started before and is not the open
   one is a replay.                                                         *)
RollsOverByChange(s) == cur # s
RollsOver(s) == cur # s /\ s > max_index_started

Sample ==
    /\ main = "sample" /\ Outside
    /\ main' = IF batch = <<>> THEN "top"
               ELSE IF RollsOver(Head(batch)) THEN IF cur = None THEN "open" ELSE "flush"
               ELSE "log"
    /\ UNCHANGED <<ring, lock, locals, disk>>

(* The file is closed; a flush that fails is ignored, and the file then holds
   what had reached it.                                                     *)
Flush ==
    /\ At("flush", "load") /\ Outside
    /\ file' = [file EXCEPT ![cur] = "closed"]
    /\ UNCHANGED <<ring, lock, locals, listed, failed>>

LoadGen ==
    /\ At("load", "close") /\ Outside
    /\ g' = gen
    /\ UNCHANGED <<ring, lock, batch, cur, max_index_started, eps, manifest_gen, disk>>

Removed(gone) == [e \in Episodes |-> IF e \in gone THEN "deleted" ELSE file[e]]

Close ==
    /\ At("close", "close save") /\ Outside /\ lock = Nobody
    /\ lock' = "main"
    /\ file' = Removed({cur} \cap discarded)
    /\ UNCHANGED <<ring, locals, listed, failed>>

CloseSaveBeforePush ==
    /\ At("close save", "open") /\ Outside
    /\ eps' = eps \cup {cur} /\ cur' = None
    /\ WriteManifest(Promise!View(eps)) /\ manifest_gen' = g
    /\ lock' = Nobody
    /\ UNCHANGED <<ring, batch, max_index_started, g, file>>
CloseSave ==
    /\ At("close save", "open") /\ Outside
    /\ eps' = eps \cup {cur} /\ cur' = None
    /\ WriteManifest(Promise!View(eps')) /\ manifest_gen' = g
    /\ lock' = Nobody
    /\ UNCHANGED <<ring, batch, max_index_started, g, file>>

(* save() of a recording truncates what is there.                           *)
OpenForgettingIndex ==
    /\ At("open", "log") /\ Outside
    /\ file' = [file EXCEPT ![Head(batch)] = "open"]
    /\ cur' = Head(batch)
    /\ UNCHANGED <<ring, lock, batch, max_index_started, eps, g, manifest_gen, listed, failed>>
Open ==
    /\ At("open", "log") /\ Outside
    /\ file' = [file EXCEPT ![Head(batch)] = "open"]
    /\ cur' = Head(batch) /\ max_index_started' = Head(batch)
    /\ UNCHANGED <<ring, lock, batch, eps, g, manifest_gen, listed, failed>>

(* The sample is logged, or skipped if it is a replay.                      *)
Log ==
    /\ At("log", "sample") /\ Outside
    /\ batch' = Tail(batch)
    /\ UNCHANGED <<ring, lock, cur, max_index_started, eps, g, manifest_gen, disk>>

(* Past the loop: the last episode, the files of late discards, the manifest. *)
End ==
    /\ At("end", IF cur = None THEN "clean" ELSE "end flush") /\ Outside
    /\ eps' = IF cur = None THEN eps ELSE eps \cup {cur}
    /\ UNCHANGED <<ring, lock, batch, cur, max_index_started, g, manifest_gen, disk>>

EndFlush ==
    /\ At("end flush", "clean") /\ Outside
    /\ file' = [file EXCEPT ![cur] = "closed"]
    /\ UNCHANGED <<ring, lock, locals, listed, failed>>

Clean ==
    /\ At("clean", "final save") /\ Outside /\ lock = Nobody
    /\ lock' = "main"
    /\ file' = Removed(eps \cap discarded)
    /\ UNCHANGED <<ring, locals, listed, failed>>

FinalSave ==
    /\ At("final save", "done") /\ Outside
    /\ WriteManifest(View) /\ lock' = Nobody
    /\ UNCHANGED <<ring, locals, file>>

MainStep ==
    \/ Top \/ SaveEvents \/ Drain \/ Sample \/ Flush \/ LoadGen \/ Close \/ CloseSave \/ Open
    \/ Log \/ End \/ EndFlush \/ Clean \/ FinalSave

(* A panic, an error out of main() (the last flush or write that fails, a file
   that does not open), SIGKILL, power: nothing moves any more.  What a power
   cut takes of the pages the system had not written is not modelled.       *)
Crash ==
    /\ main \notin {"done", "dead"} /\ main' = "dead" /\ receiver' = "off"
    /\ UNCHANGED <<control, stream, session_end, discarded, graded, gen, lock, locals, disk>>

Next == (main # "dead" /\ Control) \/ EventThread \/ MainStep \/ Crash
Spec == Init /\ [][Next]_vars
-----------------------------------------------------------------------------
(* When the loop finds no new generation, the manifest is up to date: every
   finished episode and every event the thread has counted is in it, unless
   its last write failed.                                                   *)
CoveredMeansListed ==
    main \in {"top", "ring", "sample", "log"} /\ gen = manifest_gen /\ lock = Nobody /\ ~failed =>
        listed = View

(* "This pass folds in ... any grade that raced session_end": once the final
   manifest is written, no grade of a finished episode that was sent before the
   end of the session is still unread.                                      *)
RacingGradesKept ==
    main = "done" /\ ~failed =>
        \A i \in DOMAIN socket :
            socket[i].kind = "commit" => socket[i].episode \notin eps

(* The recorder implements the catalogue: no replay reopens a finished file,
   nothing but a discard deletes one, and the manifest never lists an episode
   that is unfinished or was discarded when it was written.                 *)
IsCatalogue == Promise!CatalogueSpec
================================================================================
