------------------------------- MODULE Catalogue -------------------------------
(***************************************************************************)
(* What the recorder promises of the files it leaves: an episode is        *)
(* recorded once, in the order of the indices; a finished file is never    *)
(* opened again, and only a discarded one is deleted; the manifest changes *)
(* only to what is true at that moment: the finished episodes that are not *)
(* discarded, each with the grade it has.  (A finished file is one that is *)
(* closed; that all of it has reached the disk is not promised.)           *)
(***************************************************************************)
EXTENDS Integers

CONSTANT Episodes         \* the episodes' indices: a set of numbers

VARIABLES
    file,                   \* per episode: its .rrd
    discarded, graded,      \* the operator's verdicts
    listed                  \* the manifest: episodes, graded or not
catalogue == <<file, discarded, graded, listed>>

View(finished) == {[episode |-> e, graded |-> e \in graded] : e \in finished \ discarded}
Closed == {e \in Episodes : file[e] = "closed"}

CatalogueInit ==
    /\ file = [e \in Episodes |-> "none"]
    /\ discarded = {} /\ graded = {} /\ listed = {}

Open(e) ==
    /\ \A d \in Episodes : file[d] # "open" /\ (d >= e => file[d] = "none")
    /\ file' = [file EXCEPT ![e] = "open"]
    /\ UNCHANGED <<discarded, graded, listed>>

Finish(e) ==
    /\ file[e] = "open"
    /\ file' = [file EXCEPT ![e] = "closed"]
    /\ UNCHANGED <<discarded, graded, listed>>

Verdict(e) ==
    /\ \/ discarded' = discarded \cup {e} /\ UNCHANGED graded
       \/ graded' = graded \cup {e} /\ UNCHANGED discarded
    /\ UNCHANGED <<file, listed>>

Delete(gone) ==
    /\ gone \subseteq discarded \cap Closed
    /\ file' = [e \in Episodes |-> IF e \in gone THEN "deleted" ELSE file[e]]
    /\ UNCHANGED <<discarded, graded, listed>>

Publish ==
    /\ listed' = View(Closed)
    /\ UNCHANGED <<file, discarded, graded>>

CatalogueNext ==
    \/ \E e \in Episodes : Open(e) \/ Finish(e) \/ Verdict(e)
    \/ \E gone \in SUBSET Episodes : Delete(gone)
    \/ Publish

CatalogueSpec == CatalogueInit /\ [][CatalogueNext]_catalogue
================================================================================
