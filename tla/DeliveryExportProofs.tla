------------------------- MODULE DeliveryExportProofs -------------------------
(***************************************************************************)
(* Proofs about DeliveryExport for every value of its constants.           *)
(***************************************************************************)
EXTENDS DeliveryExport, NaturalsInduction, WellFoundedInduction, TLAPS

-----------------------------------------------------------------------------
(* Lemmas about the operators.                                              *)

\* Some retained run is the newest one.
LEMMA NewestIsOne ==
  ASSUME NEW vs \in SUBSET Version, vs # {}
  PROVE  Newest(vs) \in vs
<1> DEFINE Less == {ss \in Nat \X Nat : ss[1] < ss[2]}
           top == MaxBrief + MaxBlueprint
           Room(u) == top - (u.brief + u.blueprint)
           T == {Room(u) : u \in vs}
<1>1. IsWellFoundedOn(Less, Nat)
  BY NatLessThanWellFounded DEF OpToRel
<1>2. ASSUME NEW u \in vs
      PROVE  u.brief + u.blueprint \in Nat /\ Room(u) \in Nat
  BY ExportAssumption DEF Version
<1>3. T \subseteq Nat /\ T # {}
  BY <1>2
<1>4. PICK x \in T : \A y \in T : ~(<<y, x>> \in Less)
  <2> HIDE DEF T, Less
  <2> QED BY <1>1, <1>3, WFMin
<1>5. PICK u \in vs : x = Room(u)
  OBVIOUS
<1>6. ASSUME NEW w \in vs PROVE w.brief + w.blueprint <= u.brief + u.blueprint
  <2>1. ~(<<Room(w), Room(u)>> \in Less)
    BY <1>4, <1>5
  <2>2. Room(w) \in Nat /\ Room(u) \in Nat
    BY <1>2
  <2>3. ~(Room(w) < Room(u))
    <3> HIDE DEF Room
    <3> QED BY <2>1, <2>2
  <2>4. top \in Nat
    BY ExportAssumption
  <2> QED BY <2>3, <2>4, <1>2
<1> QED BY <1>6 DEF Newest

\* The run that decides about a member is the run of some pair.
LEMMA MemberRunType ==
  ASSUME NEW v \in Version, NEW m \in Member
  PROVE  MemberRun(v, m) \in Version
<1>1. Retained(v, m) \in SUBSET Version
  BY DEF Retained
<1>2. CASE artifact[v][m].state # "none" \/ Retained(v, m) = {}
  BY <1>2 DEF MemberRun
<1>3. CASE ~(artifact[v][m].state # "none" \/ Retained(v, m) = {})
  BY <1>1, <1>3, NewestIsOne DEF MemberRun
<1> QED BY <1>2, <1>3

\* What a request changes of its own state.
LEMMA RequestSets ==
  ASSUME TypeOK, NEW c \in Client, NEW s \in ClientState, Request(c, s)
  PROVE  /\ client' \in [Client -> ClientState]
         /\ client'[c] = s
         /\ \A d \in Client \ {c} : client'[d] = client[d]
BY DEF TypeOK, Request

\* An idle request is a request.
LEMMA IdleType == IdleClient \in ClientState /\ IdleClient.pc = "idle"
<1>1. FirstPair \in Version
  BY ExportAssumption DEF FirstPair, Version
<1>2. NoManifest \in Manifest
  BY <1>1, ExportAssumption DEF NoManifest, Manifest, Entry, ArtifactState, Doc
<1>3. NoExport \in ExportId
  BY <1>1, <1>2 DEF NoExport, ExportId, Label
<1> QED BY <1>3 DEF IdleClient, ClientState, ClientPC

\* An answered request is idle; the others go on as before.
LEMMA AnswerSets ==
  ASSUME TypeOK, NEW c \in Client, Answer(c)
  PROVE  /\ client' \in [Client -> ClientState]
         /\ client'[c].pc = "idle"
         /\ \A d \in Client \ {c} : client'[d] = client[d]
BY RequestSets, IdleType DEF Answer

\* A request that moves on keeps the identity it computed.
LEMMA GotoSets ==
  ASSUME TypeOK, NEW c \in Client, NEW pc \in ClientPC, Goto(c, pc)
  PROVE  /\ client' \in [Client -> ClientState]
         /\ client'[c].pc = pc
         /\ client'[c].id = client[c].id
         /\ \A d \in Client \ {c} : client'[d] = client[d]
<1> DEFINE s == [pc |-> pc, id |-> client[c].id]
<1>1. s \in ClientState /\ s.pc = pc /\ s.id = client[c].id
  BY DEF TypeOK, ClientState
<1>2. Request(c, s)
  BY DEF Goto
<1> HIDE DEF s
<1> QED BY <1>1, <1>2, RequestSets

\* The type of the manifest of a pair of versions.
LEMMA ManifestType ==
  ASSUME TypeOK, NEW v \in Version
  PROVE  ManifestOf(v) \in Manifest
<1> SUFFICES ASSUME NEW m \in Member PROVE ManifestOf(v)[m] \in Entry
  BY DEF ManifestOf, Manifest
<1>1. MemberRun(v, m) \in Version
  BY MemberRunType
<1>2. Current(v, m) \in Artifact
  BY <1>1 DEF TypeOK, Current
<1>3. Current(v, m).state \in ArtifactState /\ Current(v, m).doc \in Doc
  BY <1>2 DEF Artifact
<1>4. 0 \in Doc /\ "complete" \in ArtifactState
  BY ExportAssumption DEF Doc, ArtifactState
<1> QED BY <1>1, <1>3, <1>4 DEF ManifestOf, Entry

-----------------------------------------------------------------------------
(* Type correctness.                                                        *)

\* The initial state is well typed.
LEMMA InitTypeOK == Init => TypeOK
<1> SUFFICES ASSUME Init PROVE TypeOK
  OBVIOUS
<1>1. FirstPair \in Version
  BY ExportAssumption DEF FirstPair, Version
<1>2. NoArtifact \in Artifact /\ NoFile \in Files
  BY ExportAssumption DEF NoArtifact, Artifact, ArtifactState, Doc, NoFile, Files
<1>3. nextDoc \in 1..(MaxDoc + 1) /\ crashes \in 0..MaxCrashes
  BY ExportAssumption DEF Init
<1>4. client \in [Client -> ClientState]
  BY IdleType DEF Init
<1> QED BY <1>1, <1>2, <1>3, <1>4 DEF Init, TypeOK

\* Artifacts and objects stay typed when one cell is set.
LEMMA ArtifactTyped ==
  ASSUME TypeOK, NEW v \in Version, NEW m \in Member, NEW a \in Artifact, SetArtifact(v, m, a)
  PROVE  artifact' \in [Version -> [Member -> Artifact]]
BY DEF TypeOK, SetArtifact

\* Writing one file leaves files.
LEMMA ObjectTyped ==
  ASSUME TypeOK, NEW v \in Version, NEW m \in Member, NEW d \in Doc,
         object' = [object EXCEPT ![v][m] = d]
  PROVE  object' \in [Version -> Files]
BY DEF TypeOK, Files

\* Steps of the project: versions, artifacts and overrides.
LEMMA EnvironmentTypeOK == TypeOK /\ Environment => TypeOK'
<1> SUFFICES ASSUME TypeOK, Environment PROVE TypeOK'
  OBVIOUS
<1> USE DEF inputs, review
<1>1. ASSUME NEW v \in Version, NEW flag \in BOOLEAN, Confirms(v, flag) PROVE TypeOK'
  BY <1>1 DEF Confirms, TypeOK
<1>2. CASE ConfirmBrief
  <2>1. [brief |-> pair.brief + 1, blueprint |-> pair.blueprint] \in Version
    BY <1>2, ExportAssumption DEF ConfirmBrief, TypeOK, Version
  <2> QED BY <1>1, <1>2, <2>1 DEF ConfirmBrief
<1>3. CASE ConfirmBlueprint
  <2>1. [brief |-> pair.brief, blueprint |-> pair.blueprint + 1] \in Version
    BY <1>3, ExportAssumption DEF ConfirmBlueprint, TypeOK, Version
  <2> QED BY <1>1, <1>3, <2>1 DEF ConfirmBlueprint
<1>4. ASSUME NEW m \in Member, BeginMember(m) PROVE TypeOK'
  <2>1. pair \in Version
    BY DEF TypeOK
  <2>2. [state |-> "in_progress", doc |-> artifact[pair][m].doc] \in Artifact
    BY <2>1 DEF TypeOK, Artifact, ArtifactState
  <2>3. artifact' \in [Version -> [Member -> Artifact]]
    BY <1>4, <2>1, <2>2, ArtifactTyped DEF BeginMember
  <2> QED BY <1>4, <2>3 DEF BeginMember, TypeOK
<1>5. ASSUME NEW m \in Member, RecordOverride(m) PROVE TypeOK'
  BY <1>5 DEF RecordOverride, TypeOK
<1>6. ASSUME NEW m \in Member, NEW v \in Version, CompleteMember(v, m) PROVE TypeOK'
  <2>1. nextDoc \in Doc /\ nextDoc + 1 \in 1..(MaxDoc + 1)
    BY <1>6, ExportAssumption DEF CompleteMember, TypeOK, Doc
  <2>2. [state |-> "complete", doc |-> nextDoc] \in Artifact
    BY <2>1 DEF Artifact, ArtifactState
  <2>3. artifact' \in [Version -> [Member -> Artifact]]
    BY <1>6, <2>2, ArtifactTyped DEF CompleteMember
  <2>4. object' \in [Version -> Files]
    BY <1>6, <2>1, ObjectTyped DEF CompleteMember
  <2> QED BY <1>6, <2>1, <2>3, <2>4 DEF CompleteMember, TypeOK
<1>7. ASSUME NEW m \in Member, NEW v \in Version PROVE
        [state |-> "failed", doc |-> artifact[v][m].doc] \in Artifact
  BY DEF TypeOK, Artifact, ArtifactState
<1>8. ASSUME NEW m \in Member, NEW v \in Version, FailMember(v, m) PROVE TypeOK'
  <2>1. artifact' \in [Version -> [Member -> Artifact]]
    BY <1>8, <1>7, ArtifactTyped DEF FailMember
  <2> QED BY <1>8, <2>1 DEF FailMember, TypeOK
<1>9. ASSUME NEW m \in Member, NEW v \in Version, StoreAgain(v, m) PROVE TypeOK'
  <2>1. nextDoc \in Doc /\ nextDoc + 1 \in 1..(MaxDoc + 1)
    BY <1>9, ExportAssumption DEF StoreAgain, TypeOK, Doc
  <2>2. object' \in [Version -> Files]
    BY <1>9, <2>1, ObjectTyped DEF StoreAgain
  <2> QED BY <1>9, <2>1, <2>2 DEF StoreAgain, TypeOK
<1>10. ASSUME NEW m \in Member, NEW v \in Version, CommitAgain(v, m) PROVE TypeOK'
  <2>1. [state |-> "complete", doc |-> object[v][m]] \in Artifact
    BY DEF TypeOK, Artifact, ArtifactState, Files
  <2>2. artifact' \in [Version -> [Member -> Artifact]]
    BY <1>10, <2>1, <1>7, ArtifactTyped DEF CommitAgain
  <2> QED BY <1>10, <2>2 DEF CommitAgain, TypeOK
<1>11. ASSUME NEW o \in recorded, WithdrawOverride(o) PROVE TypeOK'
  BY <1>11 DEF WithdrawOverride, TypeOK
<1> QED BY <1>2, <1>3, <1>4, <1>5, <1>6, <1>8, <1>9, <1>10, <1>11 DEF Environment

\* The variables a request changes, typed.
RequestTyped ==
  /\ client' \in [Client -> ClientState]
  /\ DOMAIN export' \subseteq ExportId /\ \A id \in DOMAIN export' : export'[id] \in ExportStatus
  /\ DOMAIN package' \subseteq ExportId /\ \A id \in DOMAIN package' : package'[id] \in Files

\* Writing one row leaves rows, and adds no other identity.
LEMMA SetExportTyped ==
  ASSUME TypeOK, NEW id \in ExportId, NEW status \in ExportStatus, SetExport(id, status)
  PROVE  /\ DOMAIN export' = DOMAIN export \union {id}
         /\ export'[id] = status
         /\ \A i \in DOMAIN export \ {id} : export'[i] = export[i]
         /\ DOMAIN export' \subseteq ExportId
         /\ \A i \in DOMAIN export' : export'[i] \in ExportStatus
BY DEF TypeOK, SetExport

\* What a build reads from the bucket are documents.
LEMMA ContentsType ==
  ASSUME TypeOK, NEW id \in ExportId
  PROVE  Contents(id) \in Files
<1> SUFFICES ASSUME NEW m \in Member PROVE Contents(id)[m] \in Doc
  BY DEF Contents, Files
<1>1. id.manifest[m].run \in Version
  BY DEF ExportId, Manifest, Entry
<1>2. object[id.manifest[m].run][m] \in Doc /\ 0 \in Doc
  BY <1>1, ExportAssumption DEF TypeOK, Files, Doc
<1> QED BY <1>2 DEF Contents

\* Steps of a request.
LEMMA RequestTypeOK ==
  ASSUME TypeOK, NEW c \in Client,
         \/ \E label \in Label : ReadBrief(c, label)
         \/ ExportStep(c)
         \/ Crash(c)
  PROVE  TypeOK'
<1> USE DEF inputs, review
<1>0. client[c].id \in ExportId
  BY DEF TypeOK, ClientState
<1>1. ASSUME NEW pc \in ClientPC, Goto(c, pc) PROVE client' \in [Client -> ClientState]
  BY <1>1, GotoSets
<1>2. ASSUME Answer(c) PROVE client' \in [Client -> ClientState]
  BY <1>2, AnswerSets
<1>3. ASSUME NEW label \in Label, ReadBrief(c, label) PROVE TypeOK'
  <2> DEFINE s == [pc |-> "align", id |-> [pair |-> pair, label |-> label, manifest |-> NoManifest]]
  <2>1. NoManifest \in Manifest
    BY ExportAssumption DEF NoManifest, FirstPair, Manifest, Entry, Version, ArtifactState, Doc
  <2>2. s \in ClientState
    BY <2>1 DEF TypeOK, ClientState, ClientPC, ExportId
  <2>3. client' \in [Client -> ClientState]
    BY <1>3, <2>2, RequestSets DEF ReadBrief
  <2> QED BY <1>3, <2>3 DEF ReadBrief, TypeOK
<1>4. CASE Align(c)
  <2> DEFINE v == [brief |-> client[c].id.pair.brief, blueprint |-> pair.blueprint]
             id == [pair |-> v, label |-> client[c].id.label, manifest |-> ManifestOf(v)]
             s == [pc |-> "find", id |-> id]
  <2>1. v \in Version
    BY <1>0 DEF TypeOK, ExportId, Version
  <2>2. ManifestOf(v) \in Manifest
    BY <2>1, ManifestType
  <2>3. id \in ExportId
    <3> HIDE DEF v
    <3> QED BY <1>0, <2>1, <2>2 DEF ExportId
  <2>4. s \in ClientState
    <3> HIDE DEF id
    <3> QED BY <2>3 DEF ClientState, ClientPC
  <2>5. Answer(c) \/ Request(c, s)
    BY <1>4 DEF Align
  <2>6. client' \in [Client -> ClientState]
    BY <2>4, <2>5, RequestSets, AnswerSets
  <2> QED BY <1>4, <2>6 DEF Align, TypeOK
<1>5. ASSUME Found(c) PROVE client' \in [Client -> ClientState]
  BY <1>1, <1>2, <1>5 DEF Found, ClientPC
<1>6. CASE FindExport(c)
  <2>1. client' \in [Client -> ClientState]
    BY <1>1, <1>5, <1>6 DEF FindExport, ClientPC
  <2> QED BY <1>6, <2>1 DEF FindExport, TypeOK
<1>7. CASE InsertExport(c)
  <2>1. client' \in [Client -> ClientState]
    BY <1>1, <1>5, <1>7 DEF InsertExport, ClientPC
  <2>2. UNCHANGED export \/ SetExport(client[c].id, "building")
    BY <1>7 DEF InsertExport
  <2>3. DOMAIN export' \subseteq ExportId /\ \A i \in DOMAIN export' : export'[i] \in ExportStatus
    BY <1>0, <2>2, SetExportTyped DEF ExportStatus, TypeOK
  <2> QED BY <1>7, <2>1, <2>3 DEF InsertExport, TypeOK
<1>8. CASE ClaimExport(c)
  <2>1. client' \in [Client -> ClientState]
    BY <1>1, <1>8 DEF ClaimExport, ClientPC
  <2>2. DOMAIN export' \subseteq ExportId /\ \A i \in DOMAIN export' : export'[i] \in ExportStatus
    BY <1>0, <1>8, SetExportTyped DEF ClaimExport, ExportStatus
  <2> QED BY <1>8, <2>1, <2>2 DEF ClaimExport, TypeOK
<1>9. CASE Build(c)
  <2>1. client' \in [Client -> ClientState]
    BY <1>1, <1>2, <1>9 DEF Build, PutPackage, ClientPC
  <2>2. Contents(client[c].id) \in Files
    BY <1>0, ContentsType
  <2>3. DOMAIN package' \subseteq ExportId /\ \A i \in DOMAIN package' : package'[i] \in Files
    BY <1>0, <1>9, <2>2 DEF Build, PutPackage, TypeOK
  <2> QED BY <1>9, <2>1, <2>3 DEF Build, TypeOK
<1>10. CASE CheckBrief(c)
  <2>1. client' \in [Client -> ClientState]
    BY <1>1, <1>10 DEF CheckBrief, ClientPC
  <2> QED BY <1>10, <2>1 DEF CheckBrief, TypeOK
<1>11. CASE CheckBlueprint(c)
  <2>1. client' \in [Client -> ClientState]
    BY <1>1, <1>11 DEF CheckBlueprint, ClientPC
  <2> QED BY <1>11, <2>1 DEF CheckBlueprint, TypeOK
<1>12. CASE Settle(c)
  <2>1. client' \in [Client -> ClientState]
    BY <1>2, <1>12 DEF Settle
  <2>2. PICK status \in ExportStatus : SetExport(client[c].id, status)
    BY <1>12 DEF Settle, ExportStatus
  <2>3. DOMAIN export' \subseteq ExportId /\ \A i \in DOMAIN export' : export'[i] \in ExportStatus
    BY <1>0, <2>2, SetExportTyped
  <2> QED BY <1>12, <2>1, <2>3 DEF Settle, TypeOK
<1>13. CASE Crash(c)
  <2>1. client' \in [Client -> ClientState] /\ crashes' \in 0..MaxCrashes
    BY <1>2, <1>13, ExportAssumption DEF Crash, TypeOK
  <2> QED BY <1>13, <2>1 DEF Crash, TypeOK
<1> QED BY <1>3, <1>4, <1>6, <1>7, <1>8, <1>9, <1>10, <1>11, <1>12, <1>13 DEF ExportStep

\* Every step keeps the types.
LEMMA NextTypeOK == TypeOK /\ [Next]_vars => TypeOK'
<1> SUFFICES ASSUME TypeOK, [Next]_vars PROVE TypeOK'
  OBVIOUS
<1>1. CASE Environment
  BY <1>1, EnvironmentTypeOK
<1>2. CASE \E c \in Client : \/ \E label \in Label : ReadBrief(c, label)
                             \/ ExportStep(c)
                             \/ Crash(c)
  BY <1>2, RequestTypeOK
<1>3. CASE UNCHANGED vars
  BY <1>3 DEF vars, TypeOK
<1> QED BY <1>1, <1>2, <1>3 DEF Next

\* Every reachable state of the exports has the types declared for the variables.
THEOREM ExportTypeCorrect == Spec => []TypeOK
<1>1. Init => TypeOK
  BY InitTypeOK
<1>2. TypeOK /\ [Next]_vars => TypeOK'
  BY NextTypeOK
<1> QED BY <1>1, <1>2, PTL DEF Spec

-----------------------------------------------------------------------------
(* What a step of a request does, in seven kinds.                           *)

BuilderPC == {"build", "check", "check2", "ready", "reject", "fail"}

Begins(c) ==
  /\ client'[c].pc = "align" /\ client[c].pc = "idle"
  /\ client'[c].id.pair = pair
  /\ UNCHANGED <<export, package, crashes>>

Aligned(c) ==
  LET id == client'[c].id
  IN /\ client[c].pc = "align" /\ client'[c].pc = "find"
     /\ id.pair \in Version
     /\ id.pair.brief = client[c].id.pair.brief
     /\ id.pair.blueprint = pair.blueprint
     /\ id.manifest = ManifestOf(id.pair)
     /\ id.label = "validated" => ~Blocked(id.pair)
     /\ UNCHANGED <<export, package, crashes>>

\* A request ends; one that was building has met a changed file or a crash.
Ends(c) ==
  /\ client'[c].pc = "idle"
  /\ client[c].pc \in BuilderPC => ~Matches(client[c].id) \/ crashes' = crashes + 1
  /\ crashes' = crashes \/ crashes' = crashes + 1
  /\ UNCHANGED <<export, package>>

Moves(c) ==
  /\ <<client[c].pc, client'[c].pc>> \in
       {<<"find", "insert">>, <<"find", "claim">>, <<"insert", "claim">>, <<"build", "fail">>,
        <<"check", "check2">>, <<"check", "reject">>, <<"check2", "ready">>, <<"check2", "reject">>}
  /\ client'[c].pc = "check2" => client[c].id.pair.brief = pair.brief
  /\ client'[c].id = client[c].id
  /\ UNCHANGED <<export, package, crashes>>

Claims(c) ==
  /\ client[c].pc \in {"insert", "claim"} /\ client'[c].pc = "build"
  /\ client'[c].id = client[c].id
  /\ SetExport(client[c].id, "building")
  /\ UNCHANGED <<package, crashes>>

Puts(c) ==
  /\ client[c].pc = "build" /\ client'[c].pc \in {"check", "fail"}
  /\ client'[c].id = client[c].id
  /\ Matches(client[c].id)
  /\ package' = [i \in DOMAIN package \union {client[c].id} |->
                   IF i = client[c].id THEN Contents(i) ELSE package[i]]
  /\ UNCHANGED <<export, crashes>>

Settles(c) ==
  /\ client[c].pc \in {"ready", "reject", "fail"} /\ client'[c].pc = "idle"
  /\ \/ client[c].pc = "ready" /\ SetExport(client[c].id, "ready")
     \/ SetExport(client[c].id, "failed")
  /\ UNCHANGED <<package, crashes>>

RequestKind(c) ==
  /\ UNCHANGED <<pair, stale, artifact, object, nextDoc, recorded, withdrawn, wasCurrent>>
  /\ \A d \in Client \ {c} : client'[d] = client[d]
  /\ \/ Begins(c) \/ Aligned(c) \/ Ends(c) \/ Moves(c) \/ Claims(c) \/ Puts(c) \/ Settles(c)

\* Every step of a request is of one of these kinds.
LEMMA RequestIsOfAKind ==
  ASSUME TypeOK, NEW c \in Client,
         \/ \E label \in Label : ReadBrief(c, label)
         \/ ExportStep(c)
         \/ Crash(c)
  PROVE  RequestKind(c)
<1> USE DEF inputs, review, RequestKind
<1>0. client[c].id \in ExportId
  BY DEF TypeOK, ClientState
<1>1. ASSUME NEW pc \in ClientPC, Goto(c, pc)
      PROVE  /\ client'[c].pc = pc
             /\ client'[c].id = client[c].id
             /\ \A d \in Client \ {c} : client'[d] = client[d]
  BY <1>1, GotoSets
<1>2. ASSUME Answer(c)
      PROVE  client'[c].pc = "idle" /\ \A d \in Client \ {c} : client'[d] = client[d]
  BY <1>2, AnswerSets
<1>3. ASSUME NEW label \in Label, ReadBrief(c, label) PROVE RequestKind(c)
  <2> DEFINE s == [pc |-> "align", id |-> [pair |-> pair, label |-> label, manifest |-> NoManifest]]
  <2>1. NoManifest \in Manifest
    BY ExportAssumption DEF NoManifest, FirstPair, Manifest, Entry, Version, ArtifactState, Doc
  <2>2. s \in ClientState /\ s.pc = "align" /\ s.id.pair = pair
    BY <2>1 DEF TypeOK, ClientState, ClientPC, ExportId
  <2>3. Request(c, s)
    BY <1>3 DEF ReadBrief
  <2>4. client'[c] = s /\ \A d \in Client \ {c} : client'[d] = client[d]
    <3> HIDE DEF s
    <3> QED BY <2>2, <2>3, RequestSets
  <2>5. Begins(c)
    BY <1>3, <2>2, <2>4 DEF ReadBrief, Begins
  <2> QED BY <1>3, <2>4, <2>5 DEF ReadBrief
<1>4. CASE Align(c)
  <2> DEFINE v == [brief |-> client[c].id.pair.brief, blueprint |-> pair.blueprint]
             id == [pair |-> v, label |-> client[c].id.label, manifest |-> ManifestOf(v)]
             s == [pc |-> "find", id |-> id]
  <2>1. CASE Answer(c)
    <3>1. Ends(c)
      BY <1>2, <1>4, <2>1 DEF Align, Ends, BuilderPC
    <3> QED BY <1>2, <1>4, <2>1, <3>1 DEF Align
  <2>2. CASE ~(client[c].id.label = "validated" /\ Blocked(v)) /\ Request(c, s)
    <3>1. v \in Version /\ v.brief = client[c].id.pair.brief /\ v.blueprint = pair.blueprint
      BY <1>0 DEF TypeOK, ExportId, Version
    <3>2. ManifestOf(v) \in Manifest
      BY <3>1, ManifestType
    <3>3. id \in ExportId /\ id.pair = v /\ id.label = client[c].id.label /\ id.manifest = ManifestOf(v)
      <4> HIDE DEF v
      <4> QED BY <1>0, <3>1, <3>2 DEF ExportId
    <3>4. s \in ClientState /\ s.pc = "find" /\ s.id = id
      <4> HIDE DEF id
      <4> QED BY <3>3 DEF ClientState, ClientPC
    <3>5. client'[c] = s /\ \A d \in Client \ {c} : client'[d] = client[d]
      <4> HIDE DEF s
      <4> QED BY <3>4, <2>2, RequestSets
    <3>6. client[c].pc = "align" /\ UNCHANGED <<inputs, review, export, package, crashes>>
      BY <1>4 DEF Align
    <3>7. Aligned(c)
      <4> HIDE DEF v, id, s
      <4> QED BY <2>2, <3>1, <3>3, <3>4, <3>5, <3>6 DEF Aligned
    <3> QED BY <3>5, <3>6, <3>7
  <2> QED BY <1>4, <2>1, <2>2 DEF Align
<1>5. ASSUME Found(c) PROVE Answer(c) \/ Goto(c, "claim")
  BY <1>5 DEF Found
<1>6. CASE FindExport(c)
  <2>1. Answer(c) \/ Goto(c, "claim") \/ Goto(c, "insert")
    BY <1>5, <1>6 DEF FindExport
  <2>2. Ends(c) \/ Moves(c)
    BY <1>1, <1>2, <1>6, <2>1 DEF FindExport, Ends, Moves, BuilderPC, ClientPC
  <2> QED BY <1>1, <1>2, <1>6, <2>1, <2>2 DEF FindExport, ClientPC
<1>7. CASE InsertExport(c)
  <2>1. \/ Answer(c) /\ UNCHANGED export
        \/ Goto(c, "claim") /\ UNCHANGED export
        \/ Goto(c, "build") /\ SetExport(client[c].id, "building")
    BY <1>5, <1>7 DEF InsertExport
  <2>2. Ends(c) \/ Moves(c) \/ Claims(c)
    BY <1>1, <1>2, <1>7, <2>1 DEF InsertExport, Ends, Moves, Claims, BuilderPC, ClientPC
  <2> QED BY <1>1, <1>2, <1>7, <2>1, <2>2 DEF InsertExport, ClientPC
<1>8. CASE ClaimExport(c)
  <2>1. Claims(c)
    BY <1>1, <1>8 DEF ClaimExport, Claims, ClientPC
  <2> QED BY <1>1, <1>8, <2>1 DEF ClaimExport, ClientPC
<1>9. CASE Build(c)
  <2>1. CASE Matches(client[c].id) /\ PutPackage(c)
    <3>1. PICK pc \in {"check", "fail"} : Goto(c, pc)
      BY <2>1 DEF PutPackage
    <3>2. Puts(c)
      BY <1>1, <1>9, <2>1, <3>1 DEF Build, PutPackage, Puts, ClientPC
    <3> QED BY <1>1, <1>9, <3>1, <3>2 DEF Build, ClientPC
  <2>2. CASE ~Matches(client[c].id) /\ Answer(c) /\ UNCHANGED package
    <3>1. Ends(c)
      BY <1>2, <1>9, <2>2 DEF Build, Ends
    <3> QED BY <1>2, <1>9, <2>2, <3>1 DEF Build
  <2>3. CASE Goto(c, "fail") /\ UNCHANGED package
    <3>1. Moves(c)
      BY <1>1, <1>9, <2>3 DEF Build, Moves, ClientPC
    <3> QED BY <1>1, <1>9, <2>3, <3>1 DEF Build, ClientPC
  <2> QED BY <1>9, <2>1, <2>2, <2>3 DEF Build
<1>10. CASE CheckBrief(c)
  <2>1. Moves(c)
    BY <1>1, <1>10 DEF CheckBrief, Moves, ClientPC
  <2> QED BY <1>1, <1>10, <2>1 DEF CheckBrief, ClientPC
<1>11. CASE CheckBlueprint(c)
  <2>1. Moves(c)
    BY <1>1, <1>11 DEF CheckBlueprint, Moves, ClientPC
  <2> QED BY <1>1, <1>11, <2>1 DEF CheckBlueprint, ClientPC
<1>12. CASE Settle(c)
  <2>1. Settles(c)
    BY <1>2, <1>12 DEF Settle, Settles
  <2> QED BY <1>2, <1>12, <2>1 DEF Settle
<1>13. CASE Crash(c)
  <2>1. Ends(c)
    BY <1>2, <1>13 DEF Crash, Ends
  <2> QED BY <1>2, <1>13, <2>1 DEF Crash
<1> QED BY <1>3, <1>4, <1>6, <1>7, <1>8, <1>9, <1>10, <1>11, <1>12, <1>13 DEF ExportStep

-----------------------------------------------------------------------------
(* The inductive invariant.                                                 *)

Past == ClientPC \ {"idle", "align"}

\* Documents are younger than the next one, and a complete member has a file.
FilesInv ==
  \A v \in Version, m \in Member :
    /\ artifact[v][m].doc < nextDoc
    /\ object[v][m] < nextDoc
    /\ artifact[v][m].state = "complete" => artifact[v][m].doc # 0 /\ object[v][m] # 0

\* What holds of the identity of an export from the moment its manifest is made.
Sound(id) ==
  /\ \A m \in Member : id.manifest[m].doc < nextDoc
  /\ id.label = "validated" => \A m \in Member : Packs(id, m)

IdentityInv ==
  /\ \A c \in Client : client[c].pc \in Past => Sound(client[c].id)
  /\ \A id \in DOMAIN export : Sound(id)

\* A package holds its manifest, and a request past its build has put one.
PackageInv ==
  /\ \A id \in DOMAIN package : package[id] = Documents(id)
  /\ \A c \in Client : client[c].pc \in {"check", "check2", "ready"} => client[c].id \in DOMAIN package
  /\ \A id \in Exports("ready") : id \in DOMAIN package

\* Versions only grow: while the brief a request has read is still the newest, the
\* blueprint it has read after it was the newest together with it.
VersionInv ==
  /\ pair \in wasCurrent
  /\ \A c \in Client :
       LET v == client[c].id.pair
       IN /\ client[c].pc # "idle" => v.brief <= pair.brief
          /\ client[c].pc \in Past /\ v.brief = pair.brief => v \in wasCurrent
          /\ client[c].pc \in {"check2", "ready"} => v \in wasCurrent
  /\ ReadyPairWasCurrent

IInv == TypeOK /\ FilesInv /\ IdentityInv /\ PackageInv /\ VersionInv /\ BuildingIsAttended

\* Initially there is neither an export nor a package.
LEMMA InitIInv == Init => IInv
<1> SUFFICES ASSUME Init PROVE IInv
  OBVIOUS
<1>1. TypeOK
  BY InitTypeOK
<1>2. \A c \in Client : client[c].pc = "idle"
  BY IdleType DEF Init
<1>3. FilesInv
  BY DEF Init, FilesInv, NoArtifact, NoFile
<1>4. DOMAIN export = {} /\ DOMAIN package = {}
  BY DEF Init
<1>5. IdentityInv /\ PackageInv /\ VersionInv /\ BuildingIsAttended
  BY <1>2, <1>4 DEF Init, IdentityInv, Past, PackageInv, Exports, VersionInv, ReadyPairWasCurrent,
     BuildingIsAttended
<1> QED BY <1>1, <1>3, <1>5 DEF IInv

\* How the artifacts may change in a step: one cell at a time, a new document being the next.
LEMMA EnvironmentFiles ==
  ASSUME TypeOK, FilesInv, Environment
  PROVE  /\ FilesInv'
         /\ nextDoc <= nextDoc'
         /\ \A v \in Version, m \in Member : object'[v][m] \in {object[v][m], nextDoc}
<1> USE DEF inputs, review
<1>0. nextDoc \in Nat /\ nextDoc # 0
  BY ExportAssumption DEF TypeOK
<1>1. ASSUME UNCHANGED <<artifact, object, nextDoc>>
      PROVE  /\ FilesInv'
             /\ nextDoc <= nextDoc'
             /\ \A v \in Version, m \in Member : object'[v][m] \in {object[v][m], nextDoc}
  BY <1>0, <1>1 DEF FilesInv
<1>2. CASE ConfirmBrief \/ ConfirmBlueprint
  BY <1>1, <1>2 DEF ConfirmBrief, ConfirmBlueprint, Confirms
<1>3. CASE \/ \E m \in Member : RecordOverride(m)
           \/ \E o \in recorded : WithdrawOverride(o)
  BY <1>1, <1>3 DEF RecordOverride, WithdrawOverride
<1>4. ASSUME NEW v \in Version, NEW m \in Member, NEW a \in Artifact, SetArtifact(v, m, a)
      PROVE  /\ artifact'[v][m] = a
             /\ \A u \in Version, n \in Member : <<u, n>> # <<v, m>> => artifact'[u][n] = artifact[u][n]
  BY <1>4 DEF SetArtifact, TypeOK
<1>5. ASSUME NEW v \in Version, NEW m \in Member, object' = [object EXCEPT ![v][m] = nextDoc]
      PROVE  /\ object'[v][m] = nextDoc
             /\ \A u \in Version, n \in Member : <<u, n>> # <<v, m>> => object'[u][n] = object[u][n]
  BY <1>5 DEF TypeOK, Files
<1>6. ASSUME NEW v \in Version, NEW m \in Member
      PROVE  /\ artifact[v][m].doc \in Doc /\ object[v][m] \in Doc
             /\ \A state \in ArtifactState : \A doc \in Doc : [state |-> state, doc |-> doc] \in Artifact
  BY DEF TypeOK, Artifact, Files
<1>7. {"in_progress", "failed", "complete"} \subseteq ArtifactState
  BY DEF ArtifactState
<1>8. ASSUME NEW m \in Member, BeginMember(m)
      PROVE  /\ FilesInv'
             /\ nextDoc <= nextDoc'
             /\ \A v \in Version, n \in Member : object'[v][n] \in {object[v][n], nextDoc}
  <2> DEFINE a == [state |-> "in_progress", doc |-> artifact[pair][m].doc]
  <2>1. pair \in Version
    BY DEF TypeOK
  <2>2. a \in Artifact /\ a.state = "in_progress" /\ a.doc = artifact[pair][m].doc
    BY <1>6, <1>7, <2>1
  <2>3. SetArtifact(pair, m, a) /\ UNCHANGED <<object, nextDoc>>
    BY <1>8 DEF BeginMember
  <2> HIDE DEF a
  <2>4. /\ artifact'[pair][m] = a
        /\ \A u \in Version, n \in Member :
             <<u, n>> # <<pair, m>> => artifact'[u][n] = artifact[u][n]
    BY <1>4, <2>1, <2>2, <2>3
  <2>5. FilesInv'
    BY <2>1, <2>2, <2>3, <2>4 DEF FilesInv
  <2> QED BY <1>0, <2>3, <2>5
<1>9. ASSUME NEW v \in Version, NEW m \in Member, NEW state \in {"failed", "complete"}, NEW doc \in Doc,
             SetArtifact(v, m, [state |-> state, doc |-> doc]),
             UNCHANGED <<object, nextDoc>>,
             \/ state = "failed" /\ doc = artifact[v][m].doc
             \/ artifact[v][m].state = "complete" /\ doc = object[v][m]
      PROVE  /\ FilesInv'
             /\ nextDoc <= nextDoc'
             /\ \A u \in Version, n \in Member : object'[u][n] \in {object[u][n], nextDoc}
  <2> DEFINE a == [state |-> state, doc |-> doc]
  <2>1. a \in Artifact /\ a.state = state /\ a.doc = doc
    BY <1>6, <1>7
  <2>2. SetArtifact(v, m, a)
    BY <1>9
  <2> HIDE DEF a
  <2>3. /\ artifact'[v][m] = a
        /\ \A u \in Version, n \in Member : <<u, n>> # <<v, m>> => artifact'[u][n] = artifact[u][n]
    BY <1>4, <2>1, <2>2
  <2>4. FilesInv'
    BY <1>9, <2>1, <2>3 DEF FilesInv
  <2> QED BY <1>0, <1>9, <2>4
<1>10. ASSUME NEW v \in Version, NEW m \in Member,
              FailMember(v, m) \/ CommitAgain(v, m)
       PROVE  /\ FilesInv'
              /\ nextDoc <= nextDoc'
              /\ \A u \in Version, n \in Member : object'[u][n] \in {object[u][n], nextDoc}
  <2>1. artifact[v][m].doc \in Doc /\ object[v][m] \in Doc
    BY <1>6
  <2> QED BY <1>9, <1>10, <2>1 DEF FailMember, CommitAgain
<1>11. ASSUME NEW v \in Version, NEW m \in Member, StoreAgain(v, m)
       PROVE  /\ FilesInv'
              /\ nextDoc <= nextDoc'
              /\ \A u \in Version, n \in Member : object'[u][n] \in {object[u][n], nextDoc}
  <2>1. nextDoc' = nextDoc + 1 /\ UNCHANGED artifact
    BY <1>11 DEF StoreAgain
  <2>2. /\ object'[v][m] = nextDoc
        /\ \A u \in Version, n \in Member : <<u, n>> # <<v, m>> => object'[u][n] = object[u][n]
    BY <1>5, <1>11 DEF StoreAgain
  <2>3. FilesInv'
    <3> SUFFICES ASSUME NEW u \in Version, NEW n \in Member
                 PROVE  /\ artifact'[u][n].doc < nextDoc'
                        /\ object'[u][n] < nextDoc'
                        /\ artifact'[u][n].state = "complete"
                             => artifact'[u][n].doc # 0 /\ object'[u][n] # 0
      BY DEF FilesInv
    <3>1. artifact[u][n].doc \in Int /\ object[u][n] \in Int
      BY <1>6 DEF Doc
    <3>2. /\ artifact[u][n].doc < nextDoc /\ object[u][n] < nextDoc
          /\ artifact[u][n].state = "complete" => artifact[u][n].doc # 0 /\ object[u][n] # 0
      BY DEF FilesInv
    <3>3. object'[u][n] = nextDoc \/ object'[u][n] = object[u][n]
      BY <2>2
    <3> QED BY <1>0, <2>1, <3>1, <3>2, <3>3
  <2> QED BY <1>0, <2>1, <2>2, <2>3
<1>12. ASSUME NEW v \in Version, NEW m \in Member, CompleteMember(v, m)
       PROVE  /\ FilesInv'
              /\ nextDoc <= nextDoc'
              /\ \A u \in Version, n \in Member : object'[u][n] \in {object[u][n], nextDoc}
  <2> DEFINE a == [state |-> "complete", doc |-> nextDoc]
  <2>1. nextDoc' = nextDoc + 1 /\ nextDoc \in Doc /\ SetArtifact(v, m, a)
    BY <1>0, <1>12, ExportAssumption DEF CompleteMember, Doc
  <2>2. a \in Artifact /\ a.state = "complete" /\ a.doc = nextDoc
    BY <1>6, <1>7, <2>1
  <2> HIDE DEF a
  <2>3. /\ artifact'[v][m] = a
        /\ \A u \in Version, n \in Member : <<u, n>> # <<v, m>> => artifact'[u][n] = artifact[u][n]
    BY <1>4, <2>1, <2>2
  <2>4. /\ object'[v][m] = nextDoc
        /\ \A u \in Version, n \in Member : <<u, n>> # <<v, m>> => object'[u][n] = object[u][n]
    BY <1>5, <1>12 DEF CompleteMember
  <2>5. FilesInv'
    <3> SUFFICES ASSUME NEW u \in Version, NEW n \in Member
                 PROVE  /\ artifact'[u][n].doc < nextDoc'
                        /\ object'[u][n] < nextDoc'
                        /\ artifact'[u][n].state = "complete"
                             => artifact'[u][n].doc # 0 /\ object'[u][n] # 0
      BY DEF FilesInv
    <3>1. artifact[u][n].doc \in Int /\ object[u][n] \in Int
      BY <1>6 DEF Doc
    <3>2. /\ artifact[u][n].doc < nextDoc /\ object[u][n] < nextDoc
          /\ artifact[u][n].state = "complete" => artifact[u][n].doc # 0 /\ object[u][n] # 0
      BY DEF FilesInv
    <3>3. CASE <<u, n>> = <<v, m>>
      BY <1>0, <2>1, <2>2, <2>3, <2>4, <3>3
    <3>4. CASE <<u, n>> # <<v, m>>
      BY <1>0, <2>1, <2>3, <2>4, <3>1, <3>2, <3>4
    <3> QED BY <3>3, <3>4
  <2> QED BY <1>0, <2>1, <2>4, <2>5
<1> QED BY <1>2, <1>3, <1>8, <1>10, <1>11, <1>12 DEF Environment

\* What a step of the project leaves alone.
LEMMA EnvironmentKeeps ==
  ASSUME Environment
  PROVE  /\ UNCHANGED <<client, export, package, crashes>>
         /\ \/ UNCHANGED <<pair, wasCurrent>>
            \/ /\ pair' = [brief |-> pair.brief + 1, blueprint |-> pair.blueprint]
               /\ wasCurrent' = wasCurrent \union {pair'}
            \/ /\ pair' = [brief |-> pair.brief, blueprint |-> pair.blueprint + 1]
               /\ wasCurrent' = wasCurrent \union {pair'}
BY DEF Environment, ConfirmBrief, ConfirmBlueprint, Confirms, BeginMember, CompleteMember, FailMember,
       StoreAgain, CommitAgain, RecordOverride, WithdrawOverride, inputs, review

\* Identities stay sound when more documents are produced.
LEMMA SoundStays ==
  ASSUME TypeOK, TypeOK', nextDoc <= nextDoc', NEW id \in ExportId, Sound(id)
  PROVE  Sound(id)'
<1>1. \A m \in Member : id.manifest[m].doc \in Int
  BY DEF ExportId, Manifest, Entry, Doc
<1>2. nextDoc \in Int /\ nextDoc' \in Int
  BY DEF TypeOK
<1>3. \A m \in Member : id.manifest[m].doc < nextDoc'
  BY <1>1, <1>2 DEF Sound
<1> QED BY <1>3 DEF Sound, Packs

\* A file that does not match its manifest never matches it again.
LEMMA MatchesStays ==
  ASSUME TypeOK, NEW id \in ExportId, Sound(id), Matches(id)',
         \A v \in Version, m \in Member : object'[v][m] \in {object[v][m], nextDoc}
  PROVE  Matches(id)
<1>1. nextDoc \in Int
  BY DEF TypeOK
<1> SUFFICES ASSUME NEW m \in Member PROVE Contents(id)[m] = Documents(id)[m]
  BY DEF Matches, Contents, Documents
<1>2. id.manifest[m].run \in Version /\ id.manifest[m].doc \in Int
  BY DEF ExportId, Manifest, Entry, Doc
<1>3. CASE Packs(id, m)
  <2>1. object'[id.manifest[m].run][m] = id.manifest[m].doc
    <3>1. Contents(id)'[m] = Documents(id)[m]
      BY DEF Matches, Documents
    <3> QED BY <1>3, <3>1 DEF Contents, Documents, Packs
  <2>2. id.manifest[m].doc < nextDoc
    BY DEF Sound
  <2>3. object[id.manifest[m].run][m] = id.manifest[m].doc
    BY <1>1, <1>2, <2>1, <2>2
  <2> QED BY <1>3, <2>3 DEF Contents, Documents
<1>4. CASE ~Packs(id, m)
  BY <1>4 DEF Contents, Documents, Packs
<1> QED BY <1>3, <1>4

\* A manifest made from the alignment is sound: its documents exist, and when nothing
\* blocks a validated package it has no gap.
LEMMA ManifestSound ==
  ASSUME TypeOK, FilesInv, NEW id \in ExportId, id.manifest = ManifestOf(id.pair),
         id.label = "validated" => ~Blocked(id.pair)
  PROVE  Sound(id)
<1> DEFINE v == id.pair
<1>1. v \in Version
  BY DEF ExportId
<1>2. ASSUME NEW m \in Member
      PROVE  /\ Current(v, m).doc \in Int /\ Current(v, m).doc < nextDoc
             /\ Current(v, m).state = "complete" => Current(v, m).doc # 0
  <2>1. MemberRun(v, m) \in Version
    BY <1>1, MemberRunType
  <2>2. artifact[MemberRun(v, m)][m] \in Artifact
    BY <2>1 DEF TypeOK
  <2> QED BY <2>1, <2>2 DEF Current, FilesInv, Artifact, Doc
<1>3. nextDoc \in Int /\ 0 < nextDoc
  BY DEF TypeOK
<1>4. ASSUME NEW m \in Member
      PROVE  id.manifest[m].doc = IF Packed(v, m) THEN Current(v, m).doc ELSE 0
  BY DEF ManifestOf
<1>5. \A m \in Member : id.manifest[m].doc < nextDoc
  BY <1>2, <1>3, <1>4
<1>6. ASSUME id.label = "validated", NEW m \in Member PROVE Packs(id, m)
  <2>1. Current(v, m).state = "complete" \/ Overridden(v, m)
    BY <1>6 DEF Blocked
  <2>2. Packed(v, m) /\ Current(v, m).doc # 0
    BY <1>2, <2>1 DEF Packed, Overridden, Disputed
  <2> QED BY <1>4, <2>2 DEF Packs
<1> QED BY <1>5, <1>6 DEF Sound

\* Steps of the project keep the invariant.
LEMMA EnvironmentIInv == IInv /\ Environment => IInv'
<1> SUFFICES ASSUME IInv, Environment PROVE IInv'
  OBVIOUS
<1>1. TypeOK /\ TypeOK'
  BY EnvironmentTypeOK DEF IInv
<1>2. /\ FilesInv' /\ nextDoc <= nextDoc'
      /\ \A v \in Version, m \in Member : object'[v][m] \in {object[v][m], nextDoc}
  BY EnvironmentFiles DEF IInv
<1>3. UNCHANGED <<client, export, package, crashes>>
  BY EnvironmentKeeps
<1>4. \A c \in Client : client[c].id \in ExportId
  BY <1>1 DEF TypeOK, ClientState
<1>5. DOMAIN export \subseteq ExportId
  BY <1>1 DEF TypeOK
<1>6. IdentityInv'
  <2>1. \A id \in ExportId : Sound(id) => Sound(id)'
    BY <1>1, <1>2, SoundStays
  <2> QED BY <1>3, <1>4, <1>5, <2>1 DEF IInv, IdentityInv
<1>7. PackageInv'
  BY <1>3 DEF IInv, PackageInv, Exports, Documents
<1>8. VersionInv'
  <2>1. pair.brief \in Int /\ pair.blueprint \in Int
    BY <1>1 DEF TypeOK, Version
  <2>2. \A c \in Client : client[c].id.pair.brief \in Int
    BY <1>4 DEF ExportId, Version
  <2>3. wasCurrent \subseteq wasCurrent' /\ pair' \in wasCurrent'
    BY EnvironmentKeeps DEF IInv, VersionInv
  <2>4. pair'.brief = pair.brief \/ pair'.brief = pair.brief + 1
    BY EnvironmentKeeps
  <2>5. ReadyPairWasCurrent'
    BY <1>3, <2>3 DEF IInv, VersionInv, ReadyPairWasCurrent, Exports
  <2>6. ASSUME NEW c \in Client
        PROVE  LET v == client[c].id.pair
               IN /\ client[c].pc # "idle" => v.brief <= pair'.brief
                  /\ client[c].pc \in Past /\ v.brief = pair'.brief => v \in wasCurrent'
                  /\ client[c].pc \in {"check2", "ready"} => v \in wasCurrent'
    <3>1. /\ client[c].pc # "idle" => client[c].id.pair.brief <= pair.brief
          /\ client[c].pc \in Past /\ client[c].id.pair.brief = pair.brief
               => client[c].id.pair \in wasCurrent
          /\ client[c].pc \in {"check2", "ready"} => client[c].id.pair \in wasCurrent
      BY DEF IInv, VersionInv
    <3>2. client[c].pc \in Past => client[c].pc # "idle"
      BY DEF Past
    <3> QED BY <2>1, <2>2, <2>3, <2>4, <3>1, <3>2
  <2> QED BY <1>3, <2>3, <2>5, <2>6 DEF VersionInv
<1>9. BuildingIsAttended'
  <2>1. \A id \in DOMAIN export : Matches(id)' => Matches(id)
    BY <1>1, <1>2, <1>5, MatchesStays DEF IInv, IdentityInv
  <2> QED BY <1>3, <2>1 DEF IInv, BuildingIsAttended, Exports, Builders
<1> QED BY <1>1, <1>2, <1>6, <1>7, <1>8, <1>9 DEF IInv

\* Steps of a request keep the invariant, whatever their kind.
LEMMA RequestIInv ==
  ASSUME IInv, TypeOK', NEW c \in Client, RequestKind(c)
  PROVE  IInv'
<1> DEFINE id == client[c].id
           newId == client'[c].id
<1>0. TypeOK
  BY DEF IInv
<1>1. /\ UNCHANGED <<pair, artifact, object, nextDoc, recorded, wasCurrent>>
      /\ UNCHANGED stale
      /\ \A d \in Client \ {c} : client'[d] = client[d]
      /\ Begins(c) \/ Aligned(c) \/ Ends(c) \/ Moves(c) \/ Claims(c) \/ Puts(c) \/ Settles(c)
  BY DEF RequestKind
<1>2. id \in ExportId /\ newId \in ExportId /\ id.pair \in Version
  BY <1>0 DEF TypeOK, ClientState, ExportId
<1>3. ASSUME NEW i \in ExportId PROVE (Matches(i)' <=> Matches(i)) /\ (Sound(i)' <=> Sound(i))
  BY <1>1 DEF Matches, Contents, Documents, Packs, Sound
<1>4. FilesInv'
  BY <1>1 DEF IInv, FilesInv
<1>5. ASSUME NEW i \in ExportId, NEW status \in ExportStatus, SetExport(i, status)
      PROVE  /\ DOMAIN export' = DOMAIN export \union {i}
             /\ export'[i] = status
             /\ \A j \in DOMAIN export \ {i} : export'[j] = export[j]
  BY <1>0, <1>5, SetExportTyped
<1>6. {"building", "ready", "failed"} = ExportStatus
  BY DEF ExportStatus
<1>7. \/ Ends(c)
      \/ newId = id
      \/ Begins(c) \/ Aligned(c) \/ Settles(c)
  BY <1>1 DEF Moves, Claims, Puts
<1>ready. ASSUME NEW i \in DOMAIN export', export'[i] = "ready"
       PROVE  (i \in DOMAIN export /\ export[i] = "ready") \/ (i = id /\ client[c].pc = "ready")
  <2>1. ASSUME NEW status \in ExportStatus, SetExport(id, status)
        PROVE  (i \in DOMAIN export /\ export[i] = "ready") \/ (i = id /\ status = "ready")
    <3>1. /\ DOMAIN export' = DOMAIN export \union {id}
          /\ export'[id] = status
          /\ \A j \in DOMAIN export \ {id} : export'[j] = export[j]
      BY <1>2, <1>5, <2>1
    <3> HIDE DEF id
    <3> QED BY <1>ready, <3>1
  <2>2. CASE UNCHANGED export
    BY <1>ready, <2>2
  <2>3. CASE Claims(c)
    BY <1>6, <2>1, <2>3 DEF Claims
  <2>4. CASE Settles(c)
    BY <1>6, <2>1, <2>4 DEF Settles
  <2>5. Settles(c) \/ Claims(c) \/ UNCHANGED export
    BY <1>1 DEF Begins, Aligned, Ends, Moves, Puts
  <2> QED BY <2>2, <2>3, <2>4, <2>5
<1>8. IdentityInv'
  <2>1. ASSUME client'[c].pc \in Past PROVE Sound(newId)
    <3>1. CASE Aligned(c)
      <4>1. newId.label = "validated" => ~Blocked(newId.pair)
        BY <3>1 DEF Aligned
      <4>2. newId.manifest = ManifestOf(newId.pair)
        BY <3>1 DEF Aligned
      <4> QED BY <1>0, <1>2, <4>1, <4>2, ManifestSound DEF IInv
    <3>2. CASE Moves(c) \/ Claims(c) \/ Puts(c)
      <4>1. client[c].pc \in Past /\ newId = id
        BY <3>2 DEF Moves, Claims, Puts, Past, ClientPC
      <4> QED BY <4>1 DEF IInv, IdentityInv
    <3> QED BY <1>1, <2>1, <3>1, <3>2 DEF Begins, Ends, Settles, Past
  <2>2. ASSUME NEW i \in DOMAIN export' PROVE Sound(i)
    <3>1. CASE i \in DOMAIN export
      BY <3>1 DEF IInv, IdentityInv
    <3>2. CASE i \notin DOMAIN export
      <4>1. Claims(c) \/ Settles(c)
        BY <1>1, <2>2, <3>2 DEF Begins, Aligned, Ends, Moves, Puts
      <4>2. client[c].pc \in Past
        BY <4>1 DEF Claims, Settles, Past, ClientPC
      <4>3. PICK status \in ExportStatus : SetExport(id, status)
        BY <4>1 DEF Claims, Settles, ExportStatus
      <4>4. i = id
        BY <1>2, <1>5, <2>2, <3>2, <4>3
      <4> QED BY <4>2, <4>4 DEF IInv, IdentityInv
    <3> QED BY <3>1, <3>2
  <2>3. ASSUME NEW d \in Client, client'[d].pc \in Past PROVE Sound(client'[d].id)
    <3>1. CASE d = c
      BY <2>1, <2>3, <3>1
    <3>2. CASE d # c
      BY <1>1, <2>3, <3>2 DEF IInv, IdentityInv
    <3> QED BY <3>1, <3>2
  <2>4. \A d \in Client : client'[d].id \in ExportId
    BY DEF TypeOK, ClientState
  <2>5. DOMAIN export' \subseteq ExportId
    BY DEF TypeOK
  <2>6. \A i \in ExportId : Sound(i) => Sound(i)'
    BY <1>3
  <2>7. \A d \in Client : client'[d].pc \in Past => Sound(client[d].id)'
    <3>1. nextDoc' = nextDoc
      BY <1>1
    <3> QED BY <2>3, <3>1 DEF Sound, Packs
  <2>8. \A i \in DOMAIN export' : Sound(i)'
    BY <2>2, <2>5, <2>6
  <2> QED BY <2>7, <2>8 DEF IdentityInv
<1>9. PackageInv'
  <2>1. \A i \in DOMAIN package : i \in ExportId
    BY <1>0 DEF TypeOK
  <2>2. CASE Puts(c)
    <3>1. /\ DOMAIN package' = DOMAIN package \union {id}
          /\ package'[id] = Contents(id)
          /\ \A i \in DOMAIN package \ {id} : package'[i] = package[i]
      BY <2>2 DEF Puts
    <3>2. Contents(id) = Documents(id)
      BY <2>2 DEF Puts, Matches
    <3>3. \A i \in DOMAIN package' : package'[i] = Documents(i)
      BY <3>1, <3>2 DEF IInv, PackageInv
    <3>4. \A d \in Client : client'[d].pc \in {"check", "check2", "ready"} => client'[d].id \in DOMAIN package'
      BY <1>1, <2>2, <3>1 DEF IInv, PackageInv, Puts
    <3>5. export' = export
      BY <2>2 DEF Puts
    <3> QED BY <3>1, <3>3, <3>4, <3>5 DEF IInv, PackageInv, Exports, Documents
  <2>3. CASE ~Puts(c)
    <3>1. package' = package
      BY <1>1, <2>3 DEF Begins, Aligned, Ends, Moves, Claims, Settles
    <3>2. client'[c].pc \in {"check", "check2", "ready"} => newId \in DOMAIN package
      <4>1. CASE Moves(c)
        BY <4>1 DEF Moves, IInv, PackageInv
      <4> QED BY <1>1, <2>3, <4>1 DEF Begins, Aligned, Ends, Claims, Settles
    <3>3. \A d \in Client : client'[d].pc \in {"check", "check2", "ready"} => client'[d].id \in DOMAIN package
      BY <1>1, <3>2 DEF IInv, PackageInv
    <3>4. ASSUME NEW i \in DOMAIN export', export'[i] = "ready" PROVE i \in DOMAIN package
      BY <1>ready, <3>4 DEF IInv, PackageInv, Exports
    <3>5. \A i \in DOMAIN package : package[i] = Documents(i)
      BY DEF IInv, PackageInv
    <3> QED BY <3>1, <3>3, <3>4, <3>5 DEF PackageInv, Exports, Documents
  <2> QED BY <2>2, <2>3
<1>10. VersionInv'
  <2>1. pair.brief \in Int /\ id.pair.brief \in Int /\ pair \in Version
    BY <1>0, <1>2 DEF TypeOK, Version
  <2>2. /\ pair \in wasCurrent
        /\ client[c].pc # "idle" => id.pair.brief <= pair.brief
        /\ client[c].pc \in Past /\ id.pair.brief = pair.brief => id.pair \in wasCurrent
        /\ client[c].pc \in {"check2", "ready"} => id.pair \in wasCurrent
    BY DEF IInv, VersionInv
  <2>3. /\ client'[c].pc # "idle" => newId.pair.brief <= pair.brief
        /\ client'[c].pc \in Past /\ newId.pair.brief = pair.brief => newId.pair \in wasCurrent
        /\ client'[c].pc \in {"check2", "ready"} => newId.pair \in wasCurrent
    <3>1. CASE Begins(c)
      BY <2>1, <3>1 DEF Begins, Past
    <3>2. CASE Aligned(c)
      <4>1. newId.pair.brief = pair.brief => newId.pair = pair
        BY <2>1, <3>2 DEF Aligned, Version
      <4> QED BY <2>1, <2>2, <3>2, <4>1 DEF Aligned
    <3>3. CASE Ends(c) \/ Settles(c)
      BY <3>3 DEF Ends, Settles, Past
    <3>4. CASE Moves(c)
      <4>1. newId = id /\ client[c].pc \in Past
        BY <3>4 DEF Moves, Past, ClientPC
      <4>2. client'[c].pc = "check2" => id.pair.brief = pair.brief
        BY <3>4 DEF Moves
      <4>3. client'[c].pc = "ready" => client[c].pc = "check2"
        BY <3>4 DEF Moves
      <4>4. client[c].pc # "idle"
        BY <4>1 DEF Past
      <4> HIDE DEF id, newId
      <4> QED BY <2>2, <4>1, <4>2, <4>3, <4>4
    <3>5. CASE Claims(c) \/ Puts(c)
      <4>1. newId = id /\ client[c].pc \in Past /\ client[c].pc # "idle"
        BY <3>5 DEF Claims, Puts, Past, ClientPC
      <4>2. client'[c].pc \notin {"check2", "ready"}
        BY <3>5 DEF Claims, Puts
      <4> HIDE DEF id, newId
      <4> QED BY <2>2, <4>1, <4>2
    <3> QED BY <1>1, <3>1, <3>2, <3>3, <3>4, <3>5
  <2>4. ReadyPairWasCurrent'
    <3> SUFFICES ASSUME NEW i \in DOMAIN export', export'[i] = "ready" PROVE i.pair \in wasCurrent
      BY <1>1 DEF ReadyPairWasCurrent, Exports
    <3>1. i.pair \in wasCurrent \/ (i = id /\ client[c].pc = "ready")
      BY <1>ready DEF IInv, VersionInv, ReadyPairWasCurrent, Exports
    <3> QED BY <2>2, <3>1
  <2>5. ASSUME NEW d \in Client \ {c}
        PROVE  LET v == client[d].id.pair
               IN /\ client[d].pc # "idle" => v.brief <= pair.brief
                  /\ client[d].pc \in Past /\ v.brief = pair.brief => v \in wasCurrent
                  /\ client[d].pc \in {"check2", "ready"} => v \in wasCurrent
    BY DEF IInv, VersionInv
  <2> QED BY <1>1, <2>2, <2>3, <2>4, <2>5 DEF VersionInv
<1>11. BuildingIsAttended'
  <2> SUFFICES ASSUME crashes' = 0, NEW i \in DOMAIN export', export'[i] = "building", Matches(i)'
               PROVE  \E d \in Client : client'[d].id = i /\ client'[d].pc \in BuilderPC
    BY DEF BuildingIsAttended, Exports, Builders, BuilderPC
  <2>1. crashes = 0
    <3>1. crashes \in Nat
      BY <1>0 DEF TypeOK
    <3> QED BY <1>1, <3>1 DEF Begins, Aligned, Ends, Moves, Claims, Puts, Settles
  <2>2. i \in ExportId
    BY DEF TypeOK
  <2>3. Matches(i)
    BY <1>3, <2>2
  <2>4. i \in DOMAIN export /\ export[i] = "building"
          => \E d \in Client : client[d].id = i /\ client[d].pc \in BuilderPC
    BY <2>1, <2>3 DEF IInv, BuildingIsAttended, Exports, Builders, BuilderPC
  <2>5. CASE Claims(c)
    <3>1. client'[c].id = id /\ client'[c].pc \in BuilderPC
      BY <2>5 DEF Claims, BuilderPC
    <3>2. CASE i # id
      <4>1. i \in DOMAIN export /\ export[i] = "building"
        BY <1>2, <1>5, <1>6, <2>5, <3>2 DEF Claims
      <4> QED BY <1>1, <2>4, <2>5, <4>1 DEF Claims, BuilderPC
    <3> QED BY <3>1, <3>2
  <2>6. CASE Settles(c)
    <3>1. PICK status \in {"ready", "failed"} : SetExport(id, status)
      BY <2>6 DEF Settles
    <3>2. i # id /\ i \in DOMAIN export /\ export[i] = "building"
      BY <1>2, <1>5, <1>6, <3>1
    <3> QED BY <1>1, <2>4, <3>2
  <2>7. CASE Ends(c)
    <3>1. client[c].pc \in BuilderPC => ~Matches(id)
      <4>1. crashes' # crashes + 1
        BY <2>1
      <4> QED BY <2>7, <4>1 DEF Ends
    <3> QED BY <1>1, <2>3, <2>4, <2>7, <3>1 DEF Ends
  <2>8. CASE Begins(c) \/ Aligned(c)
    BY <1>1, <2>4, <2>8 DEF Begins, Aligned, BuilderPC
  <2>9. CASE Moves(c) \/ Puts(c)
    <3>1. /\ newId = id /\ UNCHANGED export
          /\ client[c].pc \in BuilderPC => client'[c].pc \in BuilderPC
      BY <2>9 DEF Moves, Puts, BuilderPC
    <3> QED BY <1>1, <2>4, <3>1
  <2> QED BY <1>1, <2>5, <2>6, <2>7, <2>8, <2>9
<1> QED BY <1>4, <1>8, <1>9, <1>10, <1>11 DEF IInv

\* So does every step.
LEMMA NextIInv == IInv /\ [Next]_vars => IInv'
<1> SUFFICES ASSUME IInv, [Next]_vars PROVE IInv'
  OBVIOUS
<1>1. TypeOK /\ TypeOK'
  BY NextTypeOK DEF IInv
<1>2. CASE Environment
  BY <1>2, EnvironmentIInv
<1>3. CASE \E c \in Client : \/ \E label \in Label : ReadBrief(c, label)
                             \/ ExportStep(c)
                             \/ Crash(c)
  BY <1>1, <1>3, RequestIsOfAKind, RequestIInv
<1>4. CASE UNCHANGED vars
  BY <1>4 DEF vars, IInv, TypeOK, FilesInv, IdentityInv, Sound, Packs, PackageInv, Documents, Exports,
     VersionInv, ReadyPairWasCurrent, BuildingIsAttended, Builders, Matches, Contents
<1> QED BY <1>2, <1>3, <1>4 DEF Next

\* The invariant holds in every reachable state.
LEMMA SpecIInv == Spec => []IInv
<1>1. Init => IInv
  BY InitIInv
<1>2. IInv /\ [Next]_vars => IInv'
  BY NextIInv
<1> QED BY <1>1, <1>2, PTL DEF Spec

-----------------------------------------------------------------------------
(* The theorems.                                                            *)

\* What can be downloaded is what the row says, however many requests build it and however
\* often artifacts are overwritten.
THEOREM ExportsAreWhole == Spec => []ReadyIsWhole
<1>1. IInv => ReadyIsWhole
  BY DEF IInv, PackageInv, ReadyIsWhole, Exports
<1> QED BY <1>1, SpecIInv, PTL

\* A ready export never mixes a brief and a blueprint that were not the newest together.
THEOREM ExportsDoNotMixVersions == Spec => []ReadyPairWasCurrent
<1>1. IInv => ReadyPairWasCurrent
  BY DEF IInv, VersionInv
<1> QED BY <1>1, SpecIInv, PTL

\* What the review lets pass as validated is packed without a gap.
THEOREM ValidatedExportsAreComplete == Spec => []ValidatedHasNoGaps
<1>1. IInv => ValidatedHasNoGaps
  BY DEF IInv, IdentityInv, Sound, ValidatedHasNoGaps
<1> QED BY <1>1, SpecIInv, PTL

\* Requests that return a building export rely on somebody building it.
THEOREM BuildingExportsAreAttended == Spec => []BuildingIsAttended
<1>1. IInv => BuildingIsAttended
  BY DEF IInv
<1> QED BY <1>1, SpecIInv, PTL

=============================================================================
