---------------------------- MODULE DeliveryExport ----------------------------
(***************************************************************************)
(* Alignment review and delivery of one project: what the current versions *)
(* have, what blocks a validated package, the overrides of disputed        *)
(* findings, and the export that packs the artifacts                       *)
(* (alignment_evaluation/service.py, delivery.py, api/alignment.py,        *)
(* api/delivery.py).                                                       *)
(*                                                                         *)
(* An export request reads the versions, the artifacts and the export row  *)
(* in separate queries, packs the files, reads the versions again and      *)
(* commits.  Meanwhile versions are confirmed and runs finish.  A document *)
(* is a number and its checksum is the document.                           *)
(***************************************************************************)
EXTENDS Integers, FiniteSets

CONSTANTS
  Member,        \* the (family, lesson) cells of the blueprint
  Client,        \* export requests that may be in flight at the same time
  MaxBrief,      \* bound: confirmed brief versions
  MaxBlueprint,  \* bound: confirmed blueprint versions
  MaxDoc,        \* bound: documents ever produced
  MaxExports,    \* bound: export rows
  MaxCrashes     \* bound: crashes of an API process

ASSUME ExportAssumption ==
  /\ MaxBrief \in Nat \ {0} /\ MaxBlueprint \in Nat \ {0}
  /\ MaxDoc \in Nat /\ MaxExports \in Nat /\ MaxCrashes \in Nat

Version == [brief : 1..MaxBrief, blueprint : 1..MaxBlueprint]
Label == {"draft", "validated"}
Doc == 0..MaxDoc                        \* 0: no file
Files == [Member -> Doc]

\* "none": the run of the pair does not cover the member, or there is no run
ArtifactState == {"none", "in_progress", "complete", "failed"}
Artifact == [state : ArtifactState, doc : Doc]

\* A member in a manifest: its checksum and the run whose key it is stored under, or a gap
\* (doc = 0) and its reason.
Entry == [run : Version, reason : ArtifactState, doc : Doc]
Manifest == [Member -> Entry]
ExportId == [pair : Version, label : Label, manifest : Manifest]
ExportStatus == {"building", "ready", "failed"}

VARIABLES
  pair,       \* newest confirmed brief and blueprint version
  stale,      \* the stale flag of that blueprint version
  artifact,   \* artifact[v][m]: row of m in the run of pair v
  object,     \* object[v][m]: the document in the bucket under the key of that row
  nextDoc,    \* the next document
  recorded,   \* overrides <<v, m>> with a row in status recorded
  withdrawn,  \* overrides <<v, m>> with a row in status withdrawn
  export,     \* export[id]: status of the export row of identity id
  package,    \* package[id]: documents in the package object of id
  client,     \* client[c]: an export request in flight
  crashes,    \* crashes so far
  wasCurrent  \* history: pairs that have been the newest versions at one moment

inputs == <<pair, stale, artifact, object, nextDoc, wasCurrent>>
review == <<recorded, withdrawn>>
vars == <<pair, stale, artifact, object, nextDoc, recorded, withdrawn, export, package, client,
          crashes, wasCurrent>>

NoFile == [m \in Member |-> 0]
NoArtifact == [state |-> "none", doc |-> 0]
FirstPair == [brief |-> 1, blueprint |-> 1]
NoManifest == [m \in Member |-> [run |-> FirstPair, reason |-> "none", doc |-> 0]]
NoExport == [pair |-> FirstPair, label |-> "draft", manifest |-> NoManifest]
IdleClient == [pc |-> "idle", id |-> NoExport]
ClientPC == {"idle", "align", "find", "insert", "claim", "build", "check", "check2", "ready",
             "reject", "fail"}
ClientState == [pc : ClientPC, id : ExportId]

Init ==
  /\ pair = FirstPair
  /\ stale = FALSE
  /\ artifact = [v \in Version |-> [m \in Member |-> NoArtifact]]
  /\ object = [v \in Version |-> NoFile]
  /\ nextDoc = 1
  /\ recorded = {}
  /\ withdrawn = {}
  /\ export = [id \in {} |-> "building"]
  /\ package = [id \in {} |-> NoFile]
  /\ client = [c \in Client |-> IdleClient]
  /\ crashes = 0
  /\ wasCurrent = {FirstPair}

-----------------------------------------------------------------------------
(* Versions and artifacts, as module GenerationRun changes them.            *)

Confirms(v, flag) ==
  /\ pair' = v
  /\ stale' = flag
  /\ wasCurrent' = wasCurrent \union {v}
  /\ UNCHANGED <<artifact, object, nextDoc, review, export, package, client, crashes>>

ConfirmBrief ==
  /\ pair.brief < MaxBrief
  /\ Confirms([brief |-> pair.brief + 1, blueprint |-> pair.blueprint], TRUE)
ConfirmBlueprint ==
  /\ pair.blueprint < MaxBlueprint
  /\ Confirms([brief |-> pair.brief, blueprint |-> pair.blueprint + 1], FALSE)

SetArtifact(v, m, state) == artifact' = [artifact EXCEPT ![v][m] = state]

\* A run of the current versions begins a member, again if it had failed, and completes it
\* or fails it without storing a file.
BeginMember(m) ==
  /\ artifact[pair][m].state \in {"none", "failed"}
  /\ SetArtifact(pair, m, [state |-> "in_progress", doc |-> artifact[pair][m].doc])
  /\ UNCHANGED <<pair, stale, object, nextDoc, wasCurrent, review, export, package, client, crashes>>

CompleteMember(v, m) ==
  /\ artifact[v][m].state = "in_progress"
  /\ nextDoc <= MaxDoc
  /\ nextDoc' = nextDoc + 1
  /\ object' = [object EXCEPT ![v][m] = nextDoc]
  /\ SetArtifact(v, m, [state |-> "complete", doc |-> nextDoc])
  /\ UNCHANGED <<pair, stale, wasCurrent, review, export, package, client, crashes>>

FailMember(v, m) ==
  /\ artifact[v][m].state = "in_progress"
  /\ SetArtifact(v, m, [state |-> "failed", doc |-> artifact[v][m].doc])
  /\ UNCHANGED <<pair, stale, object, nextDoc, wasCurrent, review, export, package, client, crashes>>

\* A second task of the run works on a completed member: it stores its own document under
\* the key of the row, commits its checksum, or leaves the row failed with the file it had.
StoreAgain(v, m) ==
  /\ artifact[v][m].state = "complete"
  /\ nextDoc <= MaxDoc
  /\ nextDoc' = nextDoc + 1
  /\ object' = [object EXCEPT ![v][m] = nextDoc]
  /\ UNCHANGED <<artifact, pair, stale, wasCurrent, review, export, package, client, crashes>>

CommitAgain(v, m) ==
  /\ artifact[v][m].state = "complete"
  /\ \/ SetArtifact(v, m, [state |-> "complete", doc |-> object[v][m]])
     \/ SetArtifact(v, m, [state |-> "failed", doc |-> artifact[v][m].doc])
  /\ UNCHANGED <<object, nextDoc, pair, stale, wasCurrent, review, export, package, client, crashes>>

-----------------------------------------------------------------------------
(* Alignment.                                                               *)

\* Other runs whose artifact is complete. Runs start on the newest versions, so the order
\* of the versions is the order of the runs.
Retained(v, m) == {u \in Version \ {v} : artifact[u][m].state = "complete"}
Newest(vs) == CHOOSE u \in vs : \A w \in vs : w.brief + w.blueprint <= u.brief + u.blueprint

\* The run of v decides about a member it covers; else the newest complete one is retained.
MemberRun(v, m) ==
  IF artifact[v][m].state # "none" \/ Retained(v, m) = {} THEN v ELSE Newest(Retained(v, m))
Current(v, m) == artifact[MemberRun(v, m)][m]

\* Only a failed member that still has a file is disputed.
Disputed(v, m) == Current(v, m).state = "failed" /\ Current(v, m).doc # 0
Overridden(v, m) == Disputed(v, m) /\ <<v, m>> \in recorded

\* Mutant: a failed member is never packed, overridden or not.
PackedComplete(v, m) == Current(v, m).state = "complete"

\* Complete members are packed, and disputed ones the owner has overridden.
Packed(v, m) == Current(v, m).state = "complete" \/ Overridden(v, m)

ManifestOf(v) ==
  [m \in Member |->
     IF Packed(v, m)
       THEN [run |-> MemberRun(v, m), reason |-> "complete", doc |-> Current(v, m).doc]
       ELSE [run |-> v, reason |-> Current(v, m).state, doc |-> 0]]

\* compute_alignment: a severe finding nobody has resolved.
Blocked(v) == stale \/ \E m \in Member : Current(v, m).state # "complete" /\ ~Overridden(v, m)

RecordOverride(m) ==
  /\ Disputed(pair, m)
  /\ recorded' = recorded \union {<<pair, m>>}
  /\ UNCHANGED <<inputs, withdrawn, export, package, client, crashes>>

\* The row's status is part of its unique key: the second withdrawal of a finding collides
\* with the first one's row and is refused.
WithdrawOverride(o) ==
  /\ o \in recorded \ withdrawn
  /\ recorded' = recorded \ {o}
  /\ withdrawn' = withdrawn \union {o}
  /\ UNCHANGED <<inputs, export, package, client, crashes>>

-----------------------------------------------------------------------------
(* POST delivery/exports.                                                   *)

Request(c, state) == client' = [client EXCEPT ![c] = state]
Goto(c, pc) == Request(c, [pc |-> pc, id |-> client[c].id])
Answer(c) == Request(c, IdleClient)
SetExport(id, status) ==
  export' = [i \in DOMAIN export \union {id} |-> IF i = id THEN status ELSE export[i]]

ReadBrief(c, label) ==
  /\ client[c].pc = "idle"
  /\ Request(c, [pc |-> "align", id |-> [pair |-> pair, label |-> label, manifest |-> NoManifest]])
  /\ UNCHANGED <<inputs, review, export, package, crashes>>

\* The blueprint version and the members are read after the brief version; a validated
\* export is refused while a severe finding is unresolved.
Align(c) ==
  LET label == client[c].id.label
      v == [brief |-> client[c].id.pair.brief, blueprint |-> pair.blueprint]
  IN /\ client[c].pc = "align"
     /\ IF label = "validated" /\ Blocked(v)
          THEN Answer(c)
          ELSE Request(c, [pc |-> "find",
                           id |-> [pair |-> v, label |-> label, manifest |-> ManifestOf(v)]])
     /\ UNCHANGED <<inputs, review, export, package, crashes>>

\* An export that is building or ready is returned, a failed one built again.
Found(c) ==
  IF export[client[c].id] \in {"building", "ready"} THEN Answer(c) ELSE Goto(c, "claim")

FindExport(c) ==
  /\ client[c].pc = "find"
  /\ IF client[c].id \in DOMAIN export THEN Found(c) ELSE Goto(c, "insert")
  /\ UNCHANGED <<inputs, review, export, package, crashes>>

\* The unique constraint on the identity makes concurrent requests converge.
InsertExport(c) ==
  LET id == client[c].id
  IN /\ client[c].pc = "insert"
     /\ IF id \in DOMAIN export
          THEN Found(c) /\ UNCHANGED export
          ELSE /\ Cardinality(DOMAIN export) < MaxExports
               /\ SetExport(id, "building")
               /\ Goto(c, "build")
     /\ UNCHANGED <<inputs, review, package, crashes>>

\* A failed export becomes building again, whatever the row holds by now.
ClaimExport(c) ==
  /\ client[c].pc = "claim"
  /\ SetExport(client[c].id, "building")
  /\ Goto(c, "build")
  /\ UNCHANGED <<inputs, review, package, crashes>>

Packs(id, m) == id.manifest[m].doc # 0
Contents(id) == [m \in Member |-> IF Packs(id, m) THEN object[id.manifest[m].run][m] ELSE 0]
Documents(id) == [m \in Member |-> id.manifest[m].doc]
Matches(id) == Contents(id) = Documents(id)

\* A put of the package or of the report may fail after it was made.
PutPackage(c) ==
  /\ package' = [i \in DOMAIN package \union {client[c].id} |->
                   IF i = client[c].id THEN Contents(i) ELSE package[i]]
  /\ \E pc \in {"check", "fail"} : Goto(c, pc)

\* Mutant: the checksums are not compared.
BuildUnchecked(c) ==
  /\ client[c].pc = "build"
  /\ PutPackage(c)
  /\ UNCHANGED <<inputs, review, export, crashes>>

\* Every file is compared with the checksum of its row; a mismatch ends the request and
\* leaves the export as it is, any other failure of the storage fails it. (One step: a
\* file that has passed does not change what is packed.)
Build(c) ==
  /\ client[c].pc = "build"
  /\ \/ Matches(client[c].id) /\ PutPackage(c)
     \/ ~Matches(client[c].id) /\ Answer(c) /\ UNCHANGED package
     \/ Goto(c, "fail") /\ UNCHANGED package
  /\ UNCHANGED <<inputs, review, export, crashes>>

\* Mutant: the versions are not read again.
CheckNothing(c) ==
  /\ client[c].pc = "check"
  /\ Goto(c, "ready")
  /\ UNCHANGED <<inputs, review, export, package, crashes>>

\* The newest versions are read again, the brief first.
CheckBrief(c) ==
  /\ client[c].pc = "check"
  /\ Goto(c, IF client[c].id.pair.brief = pair.brief THEN "check2" ELSE "reject")
  /\ UNCHANGED <<inputs, review, export, package, crashes>>

CheckBlueprint(c) ==
  /\ client[c].pc = "check2"
  /\ Goto(c, IF client[c].id.pair.blueprint = pair.blueprint THEN "ready" ELSE "reject")
  /\ UNCHANGED <<inputs, review, export, package, crashes>>

\* Mutant: a version change ends the request without a word in the row.
SettleReady(c) ==
  /\ client[c].pc \in {"ready", "reject", "fail"}
  /\ IF client[c].pc = "ready" THEN SetExport(client[c].id, "ready") ELSE UNCHANGED export
  /\ Answer(c)
  /\ UNCHANGED <<inputs, review, package, crashes>>

Settle(c) ==
  /\ client[c].pc \in {"ready", "reject", "fail"}
  /\ SetExport(client[c].id, IF client[c].pc = "ready" THEN "ready" ELSE "failed")
  /\ Answer(c)
  /\ UNCHANGED <<inputs, review, package, crashes>>

\* The API process dies in the middle of a request.
Crash(c) ==
  /\ client[c].pc # "idle"
  /\ crashes < MaxCrashes
  /\ crashes' = crashes + 1
  /\ Answer(c)
  /\ UNCHANGED <<inputs, review, export, package>>

-----------------------------------------------------------------------------
ExportStep(c) ==
  \/ Align(c) \/ FindExport(c) \/ InsertExport(c) \/ ClaimExport(c)
  \/ Build(c) \/ CheckBrief(c) \/ CheckBlueprint(c) \/ Settle(c)

Environment ==
  \/ ConfirmBrief \/ ConfirmBlueprint
  \/ \E m \in Member :
       \/ BeginMember(m) \/ RecordOverride(m)
       \/ \E v \in Version : CompleteMember(v, m) \/ FailMember(v, m)
                              \/ StoreAgain(v, m) \/ CommitAgain(v, m)
  \/ \E o \in recorded : WithdrawOverride(o)

Next ==
  \/ Environment
  \/ \E c \in Client :
       \/ \E label \in Label : ReadBrief(c, label)
       \/ ExportStep(c)
       \/ Crash(c)

Spec == Init /\ [][Next]_vars

-----------------------------------------------------------------------------
(* Properties.                                                              *)

TypeOK ==
  /\ pair \in Version
  /\ stale \in BOOLEAN
  /\ artifact \in [Version -> [Member -> Artifact]]
  /\ object \in [Version -> Files]
  /\ nextDoc \in 1..(MaxDoc + 1)
  /\ recorded \subseteq Version \X Member
  /\ withdrawn \subseteq Version \X Member
  /\ DOMAIN export \subseteq ExportId /\ \A id \in DOMAIN export : export[id] \in ExportStatus
  /\ DOMAIN package \subseteq ExportId /\ \A id \in DOMAIN package : package[id] \in Files
  /\ client \in [Client -> ClientState]
  /\ crashes \in 0..MaxCrashes
  /\ wasCurrent \subseteq Version

Exports(status) == {id \in DOMAIN export : export[id] = status}

\* What can be downloaded is what the export's row says: every packed document is the one
\* of the manifest, although tasks overwrite artifacts and several requests build the same
\* export (_build_package, storage.put).
ReadyIsWhole ==
  \A id \in Exports("ready") : id \in DOMAIN package /\ package[id] = Documents(id)

\* No mixed versions: the brief and the blueprint of a ready export were the newest ones at
\* the same moment, although every request reads them one after the other (create_export).
ReadyPairWasCurrent == \A id \in Exports("ready") : id.pair \in wasCurrent

\* A validated package has no gaps: what compute_alignment lets pass, _manifest packs.
ValidatedHasNoGaps ==
  \A id \in DOMAIN export : id.label = "validated" => \A m \in Member : Packs(id, m)

Builders(id) ==
  {c \in Client : client[c].id = id
                    /\ client[c].pc \in {"build", "check", "check2", "ready", "reject", "fail"}}

\* Requests return a building export and do not build it: while no process has died and the
\* files are intact, somebody is building it.
BuildingIsAttended ==
  crashes = 0 => \A id \in Exports("building") : Matches(id) => Builders(id) # {}

=============================================================================
