----------------------------- MODULE ProjectDeletion -----------------------------
(***************************************************************************)
(* The deletion of a project, alone or with its account                    *)
(* (identity_workspace/deletion.py, api/projects.py, api/account.py).      *)
(*                                                                         *)
(* A pass is one transaction over the rows and a sequence of calls to an   *)
(* object store that knows none.  What the pass has deleted from the store *)
(* stays deleted when its transaction is rolled back; what it could not    *)
(* delete it writes down as a residual, and the next pass begins with      *)
(* those.  Uploads and the worker go on meanwhile: an upload holds the     *)
(* project's row until it commits, a worker puts its object first and      *)
(* takes the lock of its row with the commit.                              *)
(*                                                                         *)
(* A table is kept as the keys its rows name: SourceKey for the bucket of  *)
(* the sources, ArtifactKey for the bucket of lessons, decks, exercises,   *)
(* exports and evidence documents.  All the other rows of a project go     *)
(* with the transaction and are not told apart.                            *)
(***************************************************************************)
EXTENDS Integers, FiniteSets

CONSTANTS
  SourceKey,   \* objects an upload may store
  ArtifactKey  \* objects the worker may store

Key == SourceKey \cup ArtifactKey

VARIABLES
  project,   \* Project.status; "gone" when the row is
  saved,     \* saved[k]: "unused", "open" (stored, not committed), "row" or "none"
  objects,   \* keys in the two buckets
  residuals, \* DeletionResidual rows with an object key
  pass,      \* the pass that is running
  owned,     \* history: keys that a pass has found in a row
  missed,    \* history: sources whose upload died or failed while a pass was settling
  blind      \* history: a probe has answered no because the store did not answer

deletionVars == <<project, saved, objects, residuals, pass, owned, missed, blind>>

\* todo are the keys of the loop the pass is in, captured the artifact keys it has read,
\* dropped and repaired the rows and residuals its transaction has deleted, failed the
\* residuals it has added.
NoPass == [pc |-> "none", account |-> FALSE, todo |-> {}, captured |-> {},
           dropped |-> {}, repaired |-> {}, failed |-> {}]

DeletionInit ==
  /\ project = "active"
  /\ saved = [k \in Key |-> "unused"]
  /\ objects = {}
  /\ residuals = {}
  /\ pass = NoPass
  /\ owned = {}
  /\ missed = {}
  /\ blind = FALSE

Rows(keys) == {k \in keys : saved[k] = "row"}
Passing(pc) == pass.pc = pc

-----------------------------------------------------------------------------
(* Uploads and the worker.                                                   *)

Uploading == {k \in SourceKey : saved[k] = "open"}

\* create_source, under the lock of the project's row.
Upload(k) ==
  /\ project # "gone"
  /\ saved[k] = "unused"
  /\ Uploading = {}
  /\ saved' = [saved EXCEPT ![k] = "open"]
  /\ objects' = objects \cup {k}
  /\ UNCHANGED <<project, residuals, pass, owned, missed, blind>>

UploadEnds(k) ==
  /\ saved[k] = "open"
  /\ \E end \in {"row", "none"} :
       /\ saved' = [saved EXCEPT ![k] = end]
       /\ missed' = IF end = "none" /\ Passing("settle") THEN missed \cup {k} ELSE missed
  /\ UNCHANGED <<project, objects, residuals, pass, owned, blind>>

WorkerPut(k) ==
  /\ project = "active"
  /\ saved[k] = "unused"
  /\ saved' = [saved EXCEPT ![k] = "open"]
  /\ objects' = objects \cup {k}
  /\ UNCHANGED <<project, residuals, pass, owned, missed, blind>>

\* The commit waits for a transaction that has deleted the row, and finds none after it.
WorkerEnds(k) ==
  /\ saved[k] = "open"
  /\ ~(Passing("verify") \/ Passing("settle"))
  /\ \E end \in {"row", "none"} :
       /\ end = "row" => project = "active"
       /\ saved' = [saved EXCEPT ![k] = end]
  /\ UNCHANGED <<project, objects, residuals, pass, owned, missed, blind>>

-----------------------------------------------------------------------------
(* A pass.                                                                   *)

BeginPass ==
  /\ Passing("none")
  /\ project # "gone"
  /\ \E account \in BOOLEAN :
       pass' = [NoPass EXCEPT !.pc = "repair", !.account = account, !.todo = residuals]
  /\ UNCHANGED <<project, saved, objects, residuals, owned, missed, blind>>

Remove(k) == objects' = objects \ {k}

\* Mutant: a residual whose object could not be deleted is dropped, too.
RepairUnprobed(k) ==
  /\ Passing("repair") /\ k \in pass.todo
  /\ \/ Remove(k) /\ UNCHANGED blind
     \/ UNCHANGED <<objects, blind>>
  /\ pass' = [pass EXCEPT !.todo = @ \ {k}, !.repaired = @ \cup {k}]
  /\ UNCHANGED <<project, saved, residuals, owned, missed>>

\* _repair_residuals.  When the deletion fails the store is asked whether the object is
\* there, and every error of that question counts as no.
Repair(k) ==
  /\ Passing("repair") /\ k \in pass.todo
  /\ \/ /\ Remove(k)
        /\ pass' = [pass EXCEPT !.todo = @ \ {k}, !.repaired = @ \cup {k}]
        /\ UNCHANGED blind
     \/ /\ k \in objects
        /\ pass' = [pass EXCEPT !.todo = @ \ {k}]
        /\ UNCHANGED <<objects, blind>>
     \/ /\ pass' = [pass EXCEPT !.todo = @ \ {k}, !.repaired = @ \cup {k}]
        /\ blind' = (blind \/ k \in objects)
        /\ UNCHANGED objects
  /\ UNCHANGED <<project, saved, residuals, owned, missed>>

ReadSources ==
  /\ Passing("repair") /\ pass.todo = {}
  /\ pass' = [pass EXCEPT !.pc = "sources", !.todo = Rows(SourceKey)]
  /\ owned' = owned \cup Rows(SourceKey)
  /\ UNCHANGED <<project, saved, objects, residuals, missed, blind>>

DeleteObject(k) ==
  /\ Passing("sources") \/ Passing("artifacts")
  /\ k \in pass.todo
  /\ \/ /\ Remove(k)
        /\ pass' = [pass EXCEPT !.todo = @ \ {k}]
     \/ /\ pass' = [pass EXCEPT !.todo = @ \ {k}, !.failed = @ \cup {k}]
        /\ UNCHANGED objects
  /\ UNCHANGED <<project, saved, residuals, owned, missed, blind>>

\* The rows of the sources go; the keys of the other bucket are read from rows that have one.
DropSourcesReadArtifacts ==
  /\ Passing("sources") /\ pass.todo = {}
  /\ LET keys == Rows(ArtifactKey) IN
       /\ pass' = [pass EXCEPT !.pc = "artifacts", !.todo = keys, !.captured = keys,
                               !.dropped = Rows(SourceKey)]
       /\ owned' = owned \cup keys
  /\ UNCHANGED <<project, saved, objects, residuals, missed, blind>>

DropArtifacts ==
  /\ Passing("artifacts") /\ pass.todo = {}
  /\ pass' = [pass EXCEPT !.pc = "verify", !.dropped = @ \cup Rows(ArtifactKey)]
  /\ UNCHANGED <<project, saved, objects, residuals, owned, missed, blind>>

\* Mutant: the bucket of the sources is not listed.
VerifyCaptured ==
  /\ Passing("verify")
  /\ \E silent \in SUBSET (pass.captured \cap objects) :
       /\ pass' = [pass EXCEPT !.pc = "settle",
                               !.failed = @ \cup ((pass.captured \cap objects) \ silent)]
       /\ blind' = (blind \/ silent # {})
  /\ UNCHANGED <<project, saved, objects, residuals, owned, missed>>

\* _verify_project_removed lists the bucket of the sources and asks for the artifacts the
\* pass has read the keys of.
Verify ==
  /\ Passing("verify")
  /\ \E silent \in SUBSET (pass.captured \cap objects) :
       /\ pass' = [pass EXCEPT !.pc = "settle",
                               !.failed = @ \cup (objects \cap SourceKey)
                                            \cup (Rows(SourceKey) \ pass.dropped)
                                            \cup ((pass.captured \cap objects) \ silent)]
       /\ blind' = (blind \/ silent # {})
  /\ UNCHANGED <<project, saved, objects, residuals, owned, missed>>

\* The transaction is committed: the rows it has deleted are gone.
CommitRows == saved' = [k \in Key |-> IF k \in pass.dropped THEN "none" ELSE saved[k]]

\* The status and the residuals of a project that could not be deleted are committed.
SettleDeleting ==
  /\ Passing("settle") /\ pass.failed # {} /\ ~pass.account
  /\ Uploading = {}
  /\ project' = "deleting"
  /\ CommitRows
  /\ residuals' = (residuals \ pass.repaired) \cup pass.failed
  /\ pass' = NoPass
  /\ UNCHANGED <<objects, owned, missed, blind>>

\* A source that was uploaded after the verification refers to the project's row.
SettleGone ==
  /\ Passing("settle") /\ pass.failed = {}
  /\ Uploading = {} /\ Rows(SourceKey) \subseteq pass.dropped
  /\ project' = "gone"
  /\ CommitRows
  /\ residuals' = {}
  /\ pass' = NoPass
  /\ UNCHANGED <<objects, owned, missed, blind>>

\* The account's failure and every other error, also a crash, roll the transaction back.
RollBack ==
  /\ ~Passing("none")
  /\ pass' = NoPass
  /\ UNCHANGED <<project, saved, objects, residuals, owned, missed, blind>>

DeletionNext ==
  \/ \E k \in SourceKey : Upload(k) \/ UploadEnds(k)
  \/ \E k \in ArtifactKey : WorkerPut(k) \/ WorkerEnds(k)
  \/ \E k \in Key : Repair(k) \/ DeleteObject(k)
  \/ BeginPass \/ ReadSources \/ DropSourcesReadArtifacts \/ DropArtifacts \/ Verify
  \/ SettleDeleting \/ SettleGone \/ RollBack

DeletionSpec == DeletionInit /\ [][DeletionNext]_deletionVars

-----------------------------------------------------------------------------
(* Properties                                                                *)

\* While the project is there, an object a pass knew of is named by a row or a residual,
\* however often a pass failed half way or was rolled back, unless the store kept silent
\* when it was asked for it (_repair_residuals, _record_residual).
ResidueIsKnown ==
  project # "gone" /\ ~blind => owned \cap objects \subseteq Rows(Key) \cup residuals

\* A deleted project has no source, neither in the tables nor in the store, although
\* uploads go on during the pass; only an upload that dies or fails between the listing and
\* the end of the pass leaves one (_verify_project_removed, create_source).
SourcesAreGone ==
  project = "gone" => /\ objects \cap SourceKey \subseteq missed
                      /\ Rows(SourceKey) = {}

\* deletion.py:85-90: a residual is dropped when its object is verifiably gone, and
\* "unrepairable objects keep their rows so the deletion stays visibly incomplete".  The row
\* of an artifact that the store neither deletes nor denies is kept, but the same pass does
\* not look at it: it ends with the project gone and all residuals deleted.
UnrepairedStaysVisible == project = "gone" /\ ~blind => owned \cap objects = {}
=============================================================================
