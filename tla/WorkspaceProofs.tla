---------------------------- MODULE WorkspaceProofs ----------------------------
(***************************************************************************)
(* Proofs about TeacherMemory, ProjectDeletion and Admission for every     *)
(* value of their constants.                                               *)
(***************************************************************************)
EXTENDS TeacherMemory, ProjectDeletion, Admission, FiniteSetTheorems, TLAPS

-----------------------------------------------------------------------------
(* TeacherMemory: the limit of the records and the context of a run.         *)

ProposalRow == [content : Content, status : {"pending", "confirmed", "rejected", "superseded", "deleted"}]
DecisionState == [pc : {"idle", "confirm", "reject", "locked"}, proposal : Nat, used : SUBSET Content]
ReaderState == [pc : {"idle", "attach"}, context : SUBSET Content]

MemoryTypeInv ==
  /\ records \in SUBSET Content /\ disabled \in SUBSET Content
  /\ proposals \in Seq(ProposalRow)
  /\ decision \in [Teacher -> DecisionState]
  /\ applied \in Seq(SUBSET Content)
  /\ reader \in [Reader -> ReaderState]
  /\ contexts \in SUBSET SUBSET Content
  /\ together \in BOOLEAN

\* One decision holds the lock, and since it counted the records there are no more of them.
CapInv ==
  /\ IsFiniteSet(records) /\ Cardinality(records) <= MaxRecords /\ disabled \subseteq records
  /\ \A c, d \in Teacher : decision[c].pc = "locked" /\ decision[d].pc = "locked" => c = d
  /\ \A c \in Teacher : decision[c].pc = "locked" =>
       IsFiniteSet(decision[c].used) /\ Cardinality(records) <= Cardinality(decision[c].used)

\* The first task that attaches the memory does so alone, and all others work with its event.
ContextInv ==
  together \/ /\ \A r, s \in Reader : reader[r].pc = "attach" /\ reader[s].pc = "attach" => r = s
              /\ \A r \in Reader : reader[r].pc = "attach" => applied = <<>>
              /\ \/ applied = <<>> /\ contexts = {}
                 \/ Len(applied) = 1 /\ contexts \subseteq {applied[1]}

MemoryInv == MemoryTypeInv /\ CapInv /\ ContextInv

\* What a step of the decision of c leaves alone.
LEMMA DecidesSets ==
  ASSUME MemoryTypeInv, NEW c \in Teacher, NEW s \in DecisionState,
         decision' = [decision EXCEPT ![c] = s]
  PROVE  /\ decision' \in [Teacher -> DecisionState]
         /\ decision'[c] = s
         /\ \A d \in Teacher \ {c} : decision'[d] = decision[d]
BY DEF MemoryTypeInv

\* What a step of the task r leaves alone.
LEMMA ReadsSets ==
  ASSUME MemoryTypeInv, NEW r \in Reader, NEW s \in ReaderState,
         reader' = [reader EXCEPT ![r] = s]
  PROVE  /\ reader' \in [Reader -> ReaderState]
         /\ reader'[r] = s
         /\ \A q \in Reader \ {r} : reader'[q] = reader[q]
BY DEF MemoryTypeInv

\* A new status keeps the type of the proposals.
LEMMA StatusTyped ==
  ASSUME MemoryTypeInv, NEW i, NEW status \in {"pending", "confirmed", "rejected", "superseded", "deleted"}
  PROVE  [proposals EXCEPT ![i].status = status] \in Seq(ProposalRow)
<1> DEFINE new == [proposals EXCEPT ![i].status = status]
<1>1. proposals \in [1..Len(proposals) -> ProposalRow] /\ Len(proposals) \in Nat
  BY DEF MemoryTypeInv
<1>2. \A k \in 1..Len(proposals) : new[k] = IF k = i THEN [proposals[k] EXCEPT !.status = status] ELSE proposals[k]
  BY <1>1
<1>3. \A k \in 1..Len(proposals) : new[k] \in ProposalRow
  BY <1>1, <1>2 DEF ProposalRow
<1>4. DOMAIN new = 1..Len(proposals) /\ new = [k \in 1..Len(proposals) |-> new[k]]
  BY <1>1
<1>5. new \in [1..Len(proposals) -> ProposalRow]
  <2> HIDE DEF new
  <2> QED BY <1>3, <1>4
<1> QED BY <1>1, <1>5

\* The records change by an edit, a deletion or a confirmed proposal.
LEMMA EditedRecords ==
  ASSUME MemoryTypeInv, IsFiniteSet(records), NEW x \in records, NEW y \in Content \ records
  PROVE  LET new == (records \ {x}) \cup {y}
         IN  IsFiniteSet(new) /\ Cardinality(new) = Cardinality(records)
<1> DEFINE rest == records \ {x}
<1>1. IsFiniteSet(rest) /\ Cardinality(rest) = Cardinality(records) - 1
  BY FS_RemoveElement
<1>2. y \notin rest /\ Cardinality(records) \in Nat
  BY FS_CardinalityType
<1>3. IsFiniteSet(rest \cup {y}) /\ Cardinality(rest \cup {y}) = Cardinality(rest) + 1
  BY <1>1, <1>2, FS_AddElement
<1> QED BY <1>1, <1>2, <1>3

\* Initially there are neither proposals nor records.
LEMMA MemoryInitInv == MemoryInit => MemoryInv
<1> SUFFICES ASSUME MemoryInit PROVE MemoryInv
  OBVIOUS
<1>1. MemoryTypeInv
  <2>1. /\ records = {} /\ disabled = {} /\ proposals = <<>> /\ applied = <<>> /\ contexts = {}
        /\ together = FALSE /\ decision = [c \in Teacher |-> NoDecision]
        /\ reader = [r \in Reader |-> NoAttach]
    BY DEF MemoryInit
  <2>2. NoDecision \in DecisionState /\ NoAttach \in ReaderState
    BY DEF NoDecision, DecisionState, NoAttach, ReaderState
  <2>3. <<>> \in Seq(ProposalRow) /\ <<>> \in Seq(SUBSET Content)
    OBVIOUS
  <2> QED BY <2>1, <2>2, <2>3 DEF MemoryTypeInv
<1>2. CapInv
  BY FS_EmptySet, MemoryAssumption DEF MemoryInit, CapInv, NoDecision
<1>3. ContextInv
  BY DEF MemoryInit, ContextInv, NoAttach
<1> QED BY <1>1, <1>2, <1>3 DEF MemoryInv

\* The passes touch the proposals only.
LEMMA PassInv ==
  ASSUME MemoryInv,
         \/ \E t \in Trigger : SchedulePass(t) \/ RetryPass(t)
         \/ \E w \in PassWorker : PassTask(w)
  PROVE  MemoryInv'
<1>1. UNCHANGED <<records, disabled, decision, memoryRun>>
  BY DEF SchedulePass, RetryPass, PassTask, ExecutePass, PassFails, PassDies, ReadBlocked, PersistProposals
<1>2. proposals' \in Seq(ProposalRow)
  <2> USE DEF MemoryInv
  <2>1. CASE \E w \in PassWorker : PersistProposals(w)
    <3> PICK w \in PassWorker : PersistProposals(w)
      BY <2>1
    <3> DEFINE j == executor[w]
               kept == IF j.old = 0 THEN proposals ELSE [proposals EXCEPT ![j.old].status = "superseded"]
               Row(content) == [content |-> content, status |-> "pending"]
    <3>1. kept \in Seq(ProposalRow)
      BY StatusTyped DEF MemoryTypeInv
    <3>2. \A x \in Content : Row(x) \in ProposalRow
      BY DEF ProposalRow
    <3>3. \/ proposals' = proposals
          \/ \E x \in Content : proposals' = Append(kept, Row(x))
          \/ \E x, y \in Content : proposals' = kept \o <<Row(x), Row(y)>>
      BY DEF PersistProposals
    <3> HIDE DEF kept, Row
    <3>4. \A x, y \in Content : <<Row(x), Row(y)>> \in Seq(ProposalRow)
      BY <3>2
    <3>5. /\ \A x \in Content : Append(kept, Row(x)) \in Seq(ProposalRow)
          /\ \A x, y \in Content : kept \o <<Row(x), Row(y)>> \in Seq(ProposalRow)
          /\ proposals \in Seq(ProposalRow)
      BY <3>1, <3>2, <3>4 DEF MemoryTypeInv
    <3> QED BY <3>3, <3>5
  <2>2. CASE ~\E w \in PassWorker : PersistProposals(w)
    <3>1. proposals' = proposals
      BY <2>2 DEF SchedulePass, RetryPass, PassTask, ExecutePass, PassFails, PassDies, ReadBlocked
    <3> QED BY <3>1 DEF MemoryTypeInv
  <2> QED BY <2>1, <2>2
<1> QED BY <1>1, <1>2 DEF memoryRun, MemoryInv, MemoryTypeInv, CapInv, ContextInv

\* A decision that does not take the lock leaves the records alone.
LEMMA ReadOrRejectInv ==
  ASSUME MemoryInv, NEW c \in Teacher, ReadProposal(c) \/ RejectProposal(c)
  PROVE  MemoryInv'
<1> USE DEF MemoryInv
<1>1. UNCHANGED <<records, disabled, memoryRun>>
  BY DEF ReadProposal, RejectProposal
<1>2. proposals' \in Seq(ProposalRow)
  BY StatusTyped DEF ReadProposal, RejectProposal, Decided, memoryPasses, MemoryTypeInv
<1>3. PICK s \in DecisionState : s.pc # "locked" /\ decision' = [decision EXCEPT ![c] = s]
  <2>1. CASE ReadProposal(c)
    <3>1. PICK p \in With("pending"), pc \in {"confirm", "reject"} :
            decision' = [decision EXCEPT ![c] = [NoDecision EXCEPT !.pc = pc, !.proposal = p]]
      BY <2>1 DEF ReadProposal, Decides
    <3>2. p \in Nat
      BY DEF With, MemoryTypeInv
    <3> QED BY <3>1, <3>2 DEF NoDecision, DecisionState
  <2>2. CASE RejectProposal(c)
    BY <2>2 DEF RejectProposal, Decides, NoDecision, DecisionState
  <2> QED BY <2>1, <2>2
<1>4. /\ decision' \in [Teacher -> DecisionState] /\ decision'[c].pc # "locked"
      /\ \A d \in Teacher \ {c} : decision'[d] = decision[d]
  BY <1>3, DecidesSets
<1>5. MemoryTypeInv'
  BY <1>1, <1>2, <1>4 DEF memoryRun, MemoryTypeInv
<1>6. CapInv' 
  BY <1>1, <1>4 DEF CapInv
<1>7. ContextInv'
  BY <1>1 DEF memoryRun, ContextInv
<1> QED BY <1>5, <1>6, <1>7

\* The lock is free, and what is counted are the records.
LEMMA LockInv ==
  ASSUME MemoryInv, NEW c \in Teacher, LockAndCount(c)
  PROVE  MemoryInv'
<1> USE DEF MemoryInv
<1> DEFINE s == [decision[c] EXCEPT !.pc = "locked", !.used = records]
<1>1. UNCHANGED <<records, disabled, proposals, memoryRun>> /\ decision' = [decision EXCEPT ![c] = s]
  BY DEF LockAndCount, Decides, memoryPasses
<1>2. s \in DecisionState /\ s.used = records
  BY DEF MemoryTypeInv, DecisionState
<1>3. \A d \in Teacher : decision[d].pc # "locked"
  BY DEF LockAndCount
<1> HIDE DEF s
<1>4. /\ decision' \in [Teacher -> DecisionState] /\ decision'[c].used = records
      /\ \A d \in Teacher \ {c} : decision'[d] = decision[d]
  BY <1>1, <1>2, DecidesSets
<1>5. MemoryTypeInv'
  BY <1>1, <1>4 DEF memoryRun, MemoryTypeInv
<1>6. Cardinality(records) \in Nat
  BY FS_CardinalityType DEF CapInv
<1>7. CapInv'
  BY <1>1, <1>3, <1>4, <1>6 DEF CapInv
<1>8. ContextInv'
  BY <1>1 DEF memoryRun, ContextInv
<1> QED BY <1>5, <1>7, <1>8

\* The holder of the lock adds a record below the limit.
LEMMA ConfirmInv ==
  ASSUME MemoryInv, NEW c \in Teacher, ConfirmProposal(c)
  PROVE  MemoryInv'
<1> USE DEF MemoryInv
<1>1. /\ UNCHANGED <<disabled, memoryRun>> /\ decision[c].pc = "locked"
      /\ decision' = [decision EXCEPT ![c] = NoDecision]
  BY DEF ConfirmProposal, Decides
<1>2. NoDecision \in DecisionState /\ NoDecision.pc = "idle"
  BY DEF NoDecision, DecisionState
<1>3. /\ decision' \in [Teacher -> DecisionState] /\ decision'[c].pc = "idle"
      /\ \A d \in Teacher \ {c} : decision'[d] = decision[d]
  BY <1>1, <1>2, DecidesSets
<1>4. proposals' \in Seq(ProposalRow)
  BY StatusTyped DEF ConfirmProposal, Decided, MemoryTypeInv
<1>5. \/ records' = records
      \/ /\ Cardinality(decision[c].used) < MaxRecords
         /\ \E x \in Content \ records : records' = records \cup {x}
  BY DEF ConfirmProposal
<1>6. records' \in SUBSET Content /\ records \subseteq records'
  BY <1>5 DEF MemoryTypeInv
<1>7. MemoryTypeInv'
  BY <1>1, <1>3, <1>4, <1>6 DEF memoryRun, MemoryTypeInv
<1>8. \A d \in Teacher : decision'[d].pc # "locked"
  BY <1>1, <1>3 DEF CapInv
<1>9. IsFiniteSet(records') /\ Cardinality(records') <= MaxRecords
  <2>1. CASE records' = records
    BY <2>1 DEF CapInv
  <2>2. CASE /\ Cardinality(decision[c].used) < MaxRecords
             /\ \E x \in Content \ records : records' = records \cup {x}
    <3>1. PICK x \in Content \ records : records' = records \cup {x}
      BY <2>2
    <3>2. IsFiniteSet(records \cup {x}) /\ Cardinality(records \cup {x}) = Cardinality(records) + 1
      BY FS_AddElement DEF CapInv
    <3>3. /\ Cardinality(records) \in Nat /\ Cardinality(decision[c].used) \in Nat
          /\ Cardinality(records) <= Cardinality(decision[c].used)
      BY <1>1, FS_CardinalityType DEF CapInv
    <3>4. Cardinality(records) + 1 <= MaxRecords
      BY <2>2, <3>3, MemoryAssumption
    <3> QED BY <3>1, <3>2, <3>4
  <2> QED BY <1>5, <2>1, <2>2
<1>10. CapInv'
  BY <1>1, <1>6, <1>8, <1>9 DEF CapInv
<1>11. ContextInv'
  BY <1>1 DEF memoryRun, ContextInv
<1> QED BY <1>7, <1>10, <1>11

\* An edit keeps the number of the records and a deletion lowers it.
LEMMA RecordInv ==
  ASSUME MemoryInv, NEW x \in Content, RecordRequest(x)
  PROVE  MemoryInv'
<1> USE DEF MemoryInv
<1>1. UNCHANGED <<decision, memoryRun>> /\ x \in records
  BY DEF RecordRequest, DeleteRecord, SetOverride, EditRecord
<1>2. proposals' \in Seq(ProposalRow)
  <2>1. CASE DeleteRecord(x)
    <3> DEFINE Row(i) == IF proposals[i] = [content |-> x, status |-> "pending"]
                           THEN [proposals[i] EXCEPT !.status = "deleted"] ELSE proposals[i]
    <3>1. DOMAIN proposals = 1..Len(proposals) /\ Len(proposals) \in Nat
      BY DEF MemoryTypeInv
    <3>2. \A i \in DOMAIN proposals : Row(i) \in ProposalRow
      <4>1. \A row \in ProposalRow : [row EXCEPT !.status = "deleted"] \in ProposalRow
        BY DEF ProposalRow
      <4> QED BY <3>1, <4>1 DEF MemoryTypeInv
    <3>3. proposals' = [i \in DOMAIN proposals |-> Row(i)]
      BY <2>1 DEF DeleteRecord
    <3> HIDE DEF Row
    <3> QED BY <3>1, <3>2, <3>3
  <2>2. CASE ~DeleteRecord(x)
    BY <2>2 DEF RecordRequest, SetOverride, EditRecord, memoryPasses, MemoryTypeInv
  <2> QED BY <2>1, <2>2
<1>3. /\ records' \in SUBSET Content /\ IsFiniteSet(records')
      /\ Cardinality(records') <= Cardinality(records) /\ disabled' \subseteq records'
  <2>0. Cardinality(records) \in Nat
    BY FS_CardinalityType DEF CapInv
  <2>1. CASE DeleteRecord(x)
    <3>1. records' = records \ {x} /\ disabled' = disabled \ {x}
      BY <2>1 DEF DeleteRecord
    <3>2. IsFiniteSet(records \ {x}) /\ Cardinality(records \ {x}) = Cardinality(records) - 1
      BY <1>1, FS_RemoveElement DEF CapInv
    <3> QED BY <2>0, <3>1, <3>2 DEF CapInv, MemoryTypeInv
  <2>2. CASE SetOverride(x)
    BY <1>1, <2>0, <2>2 DEF SetOverride, CapInv, MemoryTypeInv
  <2>3. CASE \E y \in Content : EditRecord(x, y)
    <3> PICK y \in Content : EditRecord(x, y)
      BY <2>3
    <3>1. /\ y \in Content \ records /\ records' = (records \ {x}) \cup {y}
          /\ disabled' = IF x \in disabled THEN (disabled \ {x}) \cup {y} ELSE disabled
      BY DEF EditRecord
    <3>2. IsFiniteSet(records') /\ Cardinality(records') = Cardinality(records)
      BY <1>1, <3>1, EditedRecords DEF CapInv
    <3> QED BY <2>0, <3>1, <3>2 DEF CapInv, MemoryTypeInv
  <2> QED BY <2>1, <2>2, <2>3 DEF RecordRequest
<1>4. disabled' \in SUBSET Content
  BY <1>3
<1>5. MemoryTypeInv'
  BY <1>1, <1>2, <1>3, <1>4 DEF memoryRun, MemoryTypeInv
<1>6. CapInv'
  <2>1. Cardinality(records) \in Nat /\ Cardinality(records') \in Nat
    BY <1>3, FS_CardinalityType DEF CapInv
  <2>2. \A c \in Teacher : decision[c].pc = "locked" => Cardinality(decision[c].used) \in Nat
    BY FS_CardinalityType DEF CapInv
  <2> QED BY <1>1, <1>3, <2>1, <2>2, MemoryAssumption DEF CapInv
<1>7. ContextInv'
  BY <1>1 DEF memoryRun, ContextInv
<1> QED BY <1>5, <1>6, <1>7

\* The first task of the run alone reads the records.
LEMMA AttachInv ==
  ASSUME MemoryInv, NEW r \in Reader, AttachMemory(r) \/ AttachCommit(r)
  PROVE  MemoryInv'
<1> USE DEF MemoryInv
<1>1. UNCHANGED <<records, disabled, memoryPasses, decision>>
  BY DEF AttachMemory, AttachCommit
<1>2. NoAttach \in ReaderState /\ NoAttach.pc = "idle"
  BY DEF NoAttach, ReaderState
<1>3. CapInv'
  BY <1>1 DEF CapInv
<1>4. CASE AttachMemory(r) /\ applied # <<>>
  <2>1. applied[Len(applied)] \in SUBSET Content
    BY <1>4 DEF MemoryTypeInv
  <2>2. /\ UNCHANGED <<applied, together>> /\ reader' = [reader EXCEPT ![r] = NoAttach]
        /\ contexts' = contexts \cup {applied[Len(applied)]}
    BY <1>4 DEF AttachMemory, WorksWith, Reads
  <2>3. /\ reader' \in [Reader -> ReaderState] /\ reader'[r].pc = "idle"
        /\ \A q \in Reader \ {r} : reader'[q] = reader[q]
    BY <1>2, <2>2, ReadsSets
  <2>4. MemoryTypeInv'
    BY <1>1, <2>1, <2>2, <2>3 DEF memoryPasses, MemoryTypeInv
  <2>5. ContextInv'
    BY <1>4, <2>2, <2>3 DEF ContextInv
  <2> QED BY <1>3, <2>4, <2>5
<1>5. CASE AttachMemory(r) /\ applied = <<>>
  <2> DEFINE s == [pc |-> "attach", context |-> records \ disabled]
  <2>1. s \in ReaderState /\ s.pc = "attach"
    BY DEF ReaderState, MemoryTypeInv
  <2>2. /\ UNCHANGED <<applied, contexts>> /\ reader' = [reader EXCEPT ![r] = s]
        /\ together' = (together \/ \E q \in Reader : reader[q].pc = "attach")
    BY <1>5 DEF AttachMemory, Reads
  <2> HIDE DEF s
  <2>3. /\ reader' \in [Reader -> ReaderState] /\ \A q \in Reader \ {r} : reader'[q] = reader[q]
    BY <2>1, <2>2, ReadsSets
  <2>4. MemoryTypeInv'
    BY <1>1, <2>2, <2>3 DEF memoryPasses, MemoryTypeInv
  <2>5. ContextInv'
    BY <1>5, <2>2, <2>3 DEF ContextInv, MemoryTypeInv
  <2> QED BY <1>3, <2>4, <2>5
<1>6. CASE AttachCommit(r)
  <2> DEFINE x == reader[r].context
  <2>1. x \in SUBSET Content
    BY DEF MemoryTypeInv, ReaderState
  <2>2. /\ together' = together /\ reader[r].pc = "attach" /\ applied' = Append(applied, x)
        /\ reader' = [reader EXCEPT ![r] = NoAttach] /\ contexts' = contexts \cup {x}
    BY <1>6 DEF AttachCommit, WorksWith, Reads
  <2> HIDE DEF x
  <2>3. /\ reader' \in [Reader -> ReaderState] /\ reader'[r].pc = "idle"
        /\ \A q \in Reader \ {r} : reader'[q] = reader[q]
    BY <1>2, <2>2, ReadsSets
  <2>4. MemoryTypeInv'
    BY <1>1, <2>1, <2>2, <2>3 DEF memoryPasses, MemoryTypeInv
  <2>5. ContextInv'
    <3>1. CASE together
      BY <2>2, <3>1 DEF ContextInv
    <3>2. CASE ~together
      <4>1. applied = <<>> /\ contexts = {} /\ \A q \in Reader \ {r} : reader[q].pc # "attach"
        BY <2>2, <3>2 DEF ContextInv
      <4>2. applied' = <<x>> /\ contexts' = {x} /\ \A q \in Reader : reader'[q].pc # "attach"
        BY <2>2, <2>3, <4>1
      <4>3. Len(applied') = 1 /\ applied'[1] = x
        BY <4>2
      <4> QED BY <4>2, <4>3 DEF ContextInv
    <3> QED BY <3>1, <3>2
  <2> QED BY <1>3, <2>4, <2>5
<1> QED BY <1>4, <1>5, <1>6

\* Every step keeps the invariant.
LEMMA MemoryNextInv == MemoryInv /\ [MemoryNext]_memoryVars => MemoryInv'
<1> SUFFICES ASSUME MemoryInv, [MemoryNext]_memoryVars PROVE MemoryInv'
  OBVIOUS
<1>1. CASE UNCHANGED memoryVars
  BY <1>1 DEF memoryVars, memoryPasses, memoryRun, MemoryInv, MemoryTypeInv, CapInv, ContextInv
<1>2. CASE MemoryNext
  BY <1>2, PassInv, ReadOrRejectInv, LockInv, ConfirmInv, RecordInv, AttachInv
     DEF MemoryNext, ProposalRequest
<1> QED BY <1>1, <1>2

\* Whatever is confirmed, edited and deleted at the same time, the records of a workspace stay
\* within the limit, and an override has its record (confirm_proposal, delete_record).
THEOREM RecordsStayWithinCap == MemorySpec => []RecordsWithinCap
<1>1. MemorySpec => []MemoryInv
  BY MemoryInitInv, MemoryNextInv, PTL DEF MemorySpec
<1>2. MemoryInv => RecordsWithinCap
  BY DEF MemoryInv, CapInv, RecordsWithinCap
<1> QED BY <1>1, <1>2, PTL

\* The tasks of a run work with one context, unless two of them attached the memory together
\* (attach_run_memory).
THEOREM RunsKeepTheirContext == MemorySpec => []ContextIsKept
<1>1. MemorySpec => []MemoryInv
  BY MemoryInitInv, MemoryNextInv, PTL DEF MemorySpec
<1>2. MemoryInv => ContextIsKept
  <2> SUFFICES ASSUME MemoryInv, ~together PROVE Cardinality(contexts) <= 1
    BY DEF ContextIsKept
  <2>1. contexts = {} \/ \E x : contexts = {x}
    BY DEF MemoryInv, ContextInv
  <2>2. Cardinality({}) = 0 /\ \A x : Cardinality({x}) = 1
    BY FS_EmptySet, FS_Singleton
  <2>3. Cardinality(contexts) \in {0, 1}
    BY <2>1, <2>2
  <2> QED BY <2>3
<1> QED BY <1>1, <1>2, PTL

-----------------------------------------------------------------------------
(* ProjectDeletion: what is left of a project is known, or nothing is.       *)

PassState == [pc : {"none", "repair", "sources", "artifacts", "verify", "settle"},
              account : BOOLEAN, todo : SUBSET Key, captured : SUBSET Key,
              dropped : SUBSET Key, repaired : SUBSET Key, failed : SUBSET Key]

DeletionTypeInv ==
  /\ project \in {"active", "deleting", "gone"}
  /\ saved \in [Key -> {"unused", "open", "row", "none"}]
  /\ objects \in SUBSET Key /\ residuals \in SUBSET Key /\ owned \in SUBSET Key
  /\ missed \in SUBSET Key /\ blind \in BOOLEAN
  /\ pass \in PassState

UsedKeys == {k \in Key : saved[k] # "unused"}

\* A key is stored once, and every set the pass and the tables keep has used keys only; the
\* rows a pass has dropped are rows until it ends, and it has read what earlier ones have.
UsedInv ==
  /\ objects \cup residuals \cup pass.todo \cup pass.captured \cup pass.repaired \cup pass.failed
       \subseteq UsedKeys
  /\ \A k \in owned : saved[k] \in {"row", "none"}
  /\ pass.dropped \subseteq Rows(Key)
  /\ pass.pc \in {"artifacts", "verify", "settle"} => owned \cap Rows(ArtifactKey) \subseteq pass.captured

\* A source that is stored when a pass has verified everything came later.
GoneInv ==
  /\ pass.pc = "settle" /\ pass.failed = {} =>
       \A k \in objects \cap SourceKey :
         saved[k] = "open" \/ k \in missed \/ (saved[k] = "row" /\ k \notin pass.dropped)
  /\ project = "gone" => pass.pc = "none" /\ Uploading = {}
  /\ SourcesAreGone

\* What a pass forgets is not stored any more.
ResidueInv ==
  blind \/ /\ pass.repaired \cap objects = {}
           /\ pass.pc = "settle" => owned \cap pass.dropped \cap objects \subseteq pass.failed
           /\ project # "gone" => owned \cap objects \subseteq Rows(Key) \cup residuals

DeletionInv == DeletionTypeInv /\ UsedInv /\ GoneInv /\ ResidueInv

\* Initially no pass has begun.
LEMMA DeletionInitInv == DeletionInit => DeletionInv
<1> SUFFICES ASSUME DeletionInit PROVE DeletionInv
  OBVIOUS
<1> USE DEF DeletionInit, NoPass
<1>1. DeletionTypeInv
  BY DEF DeletionTypeInv, PassState
<1>2. UsedInv
  BY DEF UsedInv
<1>3. GoneInv
  BY DEF GoneInv, SourcesAreGone
<1>4. ResidueInv
  BY DEF ResidueInv
<1> QED BY <1>1, <1>2, <1>3, <1>4 DEF DeletionInv

\* An object is stored under a key that was not used before.
LEMMA PutInv ==
  ASSUME DeletionInv, NEW k \in Key, Upload(k) \/ WorkerPut(k)
  PROVE  DeletionInv'
<1> USE DEF DeletionInv
<1>1. /\ project # "gone" /\ saved[k] = "unused" /\ objects' = objects \cup {k}
      /\ saved' = [saved EXCEPT ![k] = "open"]
      /\ UNCHANGED <<project, residuals, pass, owned, missed, blind>>
  BY DEF Upload, WorkerPut
<1>2. DeletionTypeInv'
  BY <1>1 DEF DeletionTypeInv
<1>3. saved'[k] = "open" /\ \A x \in Key \ {k} : saved'[x] = saved[x]
  BY <1>1 DEF DeletionTypeInv
<1>4. Rows(Key)' = Rows(Key) /\ Rows(ArtifactKey)' = Rows(ArtifactKey)
  BY <1>1, <1>3 DEF Rows, Key
<1>5. UsedKeys' = UsedKeys \cup {k} /\ k \notin UsedKeys /\ k \notin owned
  BY <1>1, <1>3 DEF UsedKeys, UsedInv
<1>6. \A x \in owned : saved'[x] = saved[x]
  BY <1>3, <1>5 DEF DeletionTypeInv
<1>7. UsedInv'
  BY <1>1, <1>4, <1>5, <1>6 DEF UsedInv
<1>8. GoneInv'
  BY <1>1, <1>3, <1>2 DEF GoneInv, SourcesAreGone, DeletionTypeInv
<1>9. ResidueInv'
  BY <1>1, <1>4, <1>5 DEF ResidueInv, UsedInv
<1> QED BY <1>2, <1>7, <1>8, <1>9

\* What is stored gets its row, or not.
LEMMA EndInv ==
  ASSUME DeletionInv, NEW k \in Key,
         (k \in SourceKey /\ UploadEnds(k)) \/ (k \in ArtifactKey /\ WorkerEnds(k))
  PROVE  DeletionInv'
<1> USE DEF DeletionInv
<1>1. PICK end \in {"row", "none"} :
        /\ saved[k] = "open" /\ saved' = [saved EXCEPT ![k] = end]
        /\ UNCHANGED <<project, objects, residuals, pass, owned, blind>>
        /\ missed \subseteq missed' /\ missed' \subseteq missed \cup {k}
        /\ pass.pc = "settle" => k \in SourceKey /\ (end = "none" => k \in missed')
        /\ k \in SourceKey \/ (end = "row" => project = "active")
  BY DEF UploadEnds, WorkerEnds, Passing
<1>2. DeletionTypeInv'
  BY <1>1 DEF DeletionTypeInv
<1>3. saved'[k] = end /\ \A x \in Key \ {k} : saved'[x] = saved[x]
  BY <1>1 DEF DeletionTypeInv
<1>4. Rows(Key) \subseteq Rows(Key)' /\ Rows(ArtifactKey)' \subseteq Rows(ArtifactKey) \cup {k}
  BY <1>1, <1>3 DEF Rows, Key
<1>5. UsedKeys' = UsedKeys /\ k \notin owned /\ k \notin pass.dropped
  BY <1>1, <1>3 DEF UsedKeys, UsedInv, Rows
<1>6. \A x \in owned : saved'[x] = saved[x]
  BY <1>3, <1>5 DEF DeletionTypeInv
<1>7. UsedInv'
  BY <1>1, <1>4, <1>5, <1>6 DEF UsedInv
<1>8. GoneInv'
  <2>1. project = "gone" => Uploading' = {} /\ Rows(SourceKey)' = {} /\ pass.pc = "none"
    <3>1. project = "gone" => k \notin SourceKey
      BY <1>1 DEF GoneInv, Uploading
    <3> QED BY <1>1, <1>3, <3>1 DEF GoneInv, SourcesAreGone, Uploading, Rows, Key
  <2>2. ASSUME pass.pc = "settle", pass.failed = {}, NEW x \in objects \cap SourceKey
        PROVE  saved'[x] = "open" \/ x \in missed' \/ (saved'[x] = "row" /\ x \notin pass.dropped)
    BY <1>1, <1>3, <1>5, <2>2 DEF GoneInv, Key
  <2> QED BY <1>1, <2>1, <2>2 DEF GoneInv, SourcesAreGone
<1>9. ResidueInv'
  BY <1>1, <1>4 DEF ResidueInv
<1> QED BY <1>2, <1>7, <1>8, <1>9

\* The steps of a pass before it is verified: they change the pass, remove objects, or note
\* what they have found.
LEMMA PassMovesInv ==
  ASSUME DeletionInv, NEW next \in PassState, pass' = next, pass.pc # "settle", next.pc # "settle",
         project # "gone", UNCHANGED <<project, saved, residuals, missed>>,
         objects' \subseteq objects, blind' \in BOOLEAN, blind => blind',
         owned \subseteq owned', owned' \subseteq owned \cup Rows(Key),
         next.todo \cup next.captured \cup next.repaired \cup next.failed \subseteq UsedKeys,
         next.dropped \subseteq Rows(Key),
         next.pc \in {"artifacts", "verify"} => owned' \cap Rows(ArtifactKey) \subseteq next.captured,
         ~blind' => next.repaired \cap objects' = {}
  PROVE  DeletionInv'
<1> USE DEF DeletionInv
<1>1. Rows(Key)' = Rows(Key) /\ Rows(ArtifactKey)' = Rows(ArtifactKey) /\ UsedKeys' = UsedKeys
      /\ Rows(SourceKey)' = Rows(SourceKey) /\ Uploading' = Uploading
  BY DEF Rows, UsedKeys, Uploading
<1>2. Rows(Key) \subseteq Key /\ \A k \in Rows(Key) : saved[k] = "row"
  BY DEF Rows
<1>3. DeletionTypeInv'
  BY <1>2 DEF DeletionTypeInv
<1>4. UsedInv'
  BY <1>1, <1>2 DEF UsedInv, PassState
<1>5. GoneInv'
  BY DEF GoneInv, SourcesAreGone
<1>6. ResidueInv'
  BY <1>1, <1>2 DEF ResidueInv
<1> QED BY <1>3, <1>4, <1>5, <1>6

\* A pass begins with the residuals.
LEMMA BeginPassInv ==
  ASSUME DeletionInv, BeginPass
  PROVE  DeletionInv'
<1> USE DEF DeletionInv
<1>1. PICK account \in BOOLEAN :
        pass' = [NoPass EXCEPT !.pc = "repair", !.account = account, !.todo = residuals]
  BY DEF BeginPass
<1> DEFINE next == [NoPass EXCEPT !.pc = "repair", !.account = account, !.todo = residuals]
<1>2. /\ next.pc = "repair" /\ next.todo = residuals /\ next.captured = {} /\ next.dropped = {}
      /\ next.repaired = {} /\ next.failed = {} /\ next \in PassState
  BY DEF NoPass, PassState, DeletionTypeInv
<1>3. next.todo \subseteq UsedKeys
  BY <1>2 DEF UsedInv
<1>4. /\ pass.pc = "none" /\ project # "gone"
      /\ UNCHANGED <<project, saved, objects, residuals, owned, missed, blind>>
  BY DEF BeginPass, Passing
<1>5. pass' = next
  BY <1>1
<1> HIDE DEF next
<1> QED BY <1>2, <1>3, <1>4, <1>5, PassMovesInv DEF DeletionTypeInv

\* A residual is repaired when its object is not stored, or the store was silent.
LEMMA RepairInv ==
  ASSUME DeletionInv, NEW k \in Key, Repair(k)
  PROVE  DeletionInv'
<1> USE DEF DeletionInv
<1>1. /\ pass.pc = "repair" /\ k \in pass.todo /\ project # "gone"
      /\ UNCHANGED <<project, saved, residuals, owned, missed>>
  BY DEF Repair, Passing, GoneInv
<1> DEFINE done == [pass EXCEPT !.todo = @ \ {k}, !.repaired = @ \cup {k}]
           kept == [pass EXCEPT !.todo = @ \ {k}]
<1>2. /\ done \in PassState /\ done.pc = "repair" /\ done.todo = pass.todo \ {k}
      /\ done.repaired = pass.repaired \cup {k} /\ done.captured = pass.captured
      /\ done.dropped = pass.dropped /\ done.failed = pass.failed
  BY <1>1 DEF DeletionTypeInv, PassState
<1>3. /\ kept \in PassState /\ kept.pc = "repair" /\ kept.todo = pass.todo \ {k}
      /\ kept.repaired = pass.repaired /\ kept.captured = pass.captured
      /\ kept.dropped = pass.dropped /\ kept.failed = pass.failed
  BY <1>1 DEF DeletionTypeInv, PassState
<1>4. \/ pass' = done /\ objects' = objects \ {k} /\ blind' = blind
      \/ pass' = kept /\ objects' = objects /\ blind' = blind
      \/ pass' = done /\ objects' = objects /\ blind' = (blind \/ k \in objects)
  BY DEF Repair, Remove
<1>5. \E next \in {done, kept} : pass' = next /\ (~blind' => next.repaired \cap objects' = {})
  BY <1>2, <1>3, <1>4 DEF ResidueInv
<1>6. objects' \subseteq objects /\ blind' \in BOOLEAN /\ (blind => blind')
  BY <1>4 DEF DeletionTypeInv
<1> HIDE DEF done, kept
<1>7. ASSUME NEW next \in {done, kept}, pass' = next, ~blind' => next.repaired \cap objects' = {}
      PROVE  DeletionInv'
  <2>1. /\ next \in PassState /\ next.pc = "repair" /\ next.dropped = pass.dropped
        /\ next.todo \cup next.captured \cup next.repaired \cup next.failed
             \subseteq pass.todo \cup pass.captured \cup pass.repaired \cup pass.failed
    BY <1>1, <1>2, <1>3
  <2>2. next.todo \cup next.captured \cup next.repaired \cup next.failed \subseteq UsedKeys
    BY <2>1 DEF UsedInv
  <2>3. next.dropped \subseteq Rows(Key)
    BY <2>1 DEF UsedInv
  <2>4. owned' = owned
    BY <1>1
  <2> QED BY <1>1, <1>6, <1>7, <2>1, <2>2, <2>3, <2>4, PassMovesInv
<1> QED BY <1>5, <1>7

\* An object is removed or becomes a failure.
LEMMA DeleteObjectInv ==
  ASSUME DeletionInv, NEW k \in Key, DeleteObject(k)
  PROVE  DeletionInv'
<1> USE DEF DeletionInv
<1>1. /\ pass.pc \in {"sources", "artifacts"} /\ k \in pass.todo /\ project # "gone"
      /\ UNCHANGED <<project, saved, residuals, owned, missed, blind>>
      /\ objects' \subseteq objects
  BY DEF DeleteObject, Passing, Remove, GoneInv
<1>2. PICK next \in {[pass EXCEPT !.todo = @ \ {k}],
                      [pass EXCEPT !.todo = @ \ {k}, !.failed = @ \cup {k}]} : pass' = next
  BY DEF DeleteObject
<1>3. /\ next \in PassState /\ next.pc = pass.pc /\ next.captured = pass.captured
      /\ next.repaired = pass.repaired /\ next.dropped = pass.dropped
      /\ next.todo \cup next.failed \subseteq pass.todo \cup pass.failed
  <2>1. CASE next = [pass EXCEPT !.todo = @ \ {k}]
    BY <1>1, <2>1 DEF DeletionTypeInv, PassState
  <2>2. CASE next = [pass EXCEPT !.todo = @ \ {k}, !.failed = @ \cup {k}]
    <3>1. /\ next \in PassState /\ next.pc = pass.pc /\ next.captured = pass.captured
          /\ next.repaired = pass.repaired /\ next.dropped = pass.dropped
          /\ next.todo = pass.todo \ {k} /\ next.failed = pass.failed \cup {k}
      BY <2>2 DEF DeletionTypeInv, PassState
    <3> QED BY <1>1, <3>1
  <2> QED BY <2>1, <2>2
<1>4. next.todo \cup next.captured \cup next.repaired \cup next.failed \subseteq UsedKeys
  BY <1>3 DEF UsedInv
<1>5. next.dropped \subseteq Rows(Key)
  BY <1>3 DEF UsedInv
<1>6. next.pc \in {"artifacts", "verify"} => owned \cap Rows(ArtifactKey) \subseteq next.captured
  BY <1>3 DEF UsedInv
<1>7. ~blind' => next.repaired \cap objects' = {}
  BY <1>1, <1>3 DEF ResidueInv
<1> QED BY <1>1, <1>2, <1>3, <1>4, <1>5, <1>6, <1>7, PassMovesInv DEF DeletionTypeInv

\* The tables are read and their rows dropped.
LEMMA ReadInv ==
  ASSUME DeletionInv, ReadSources \/ DropSourcesReadArtifacts \/ DropArtifacts
  PROVE  DeletionInv'
<1> USE DEF DeletionInv
<1>1. /\ pass.pc \in {"repair", "sources", "artifacts"} /\ project # "gone"
      /\ UNCHANGED <<project, saved, objects, residuals, missed, blind>>
  BY DEF ReadSources, DropSourcesReadArtifacts, DropArtifacts, Passing, GoneInv
<1>2. /\ Rows(SourceKey) \subseteq Rows(Key) /\ Rows(ArtifactKey) \subseteq Rows(Key)
      /\ Rows(Key) \subseteq UsedKeys /\ UsedKeys \subseteq Key
  BY DEF Rows, UsedKeys, Key
<1>3. ASSUME NEW next \in PassState, pass' = next, next.pc # "settle",
             next.repaired = pass.repaired, next.failed = pass.failed,
             next.todo \cup next.captured \subseteq pass.captured \cup Rows(Key),
             next.dropped \subseteq Rows(Key),
             owned' = owned \/ owned' = owned \cup Rows(SourceKey) \/ owned' = owned \cup Rows(ArtifactKey),
             next.pc \in {"artifacts", "verify"} => owned' \cap Rows(ArtifactKey) \subseteq next.captured
      PROVE  DeletionInv'
  <2>1. next.todo \cup next.captured \cup next.repaired \cup next.failed \subseteq UsedKeys
    BY <1>2, <1>3 DEF UsedInv
  <2>2. ~blind' => next.repaired \cap objects' = {}
    BY <1>1, <1>3 DEF ResidueInv
  <2>3. owned \subseteq owned' /\ owned' \subseteq owned \cup Rows(Key)
    BY <1>2, <1>3
  <2> QED BY <1>1, <1>3, <2>1, <2>2, <2>3, PassMovesInv DEF DeletionTypeInv
<1>4. CASE ReadSources
  <2> DEFINE next == [pass EXCEPT !.pc = "sources", !.todo = Rows(SourceKey)]
  <2>1. /\ next \in PassState /\ next.pc = "sources" /\ next.todo = Rows(SourceKey)
        /\ next.captured = pass.captured /\ next.repaired = pass.repaired
        /\ next.failed = pass.failed /\ next.dropped = pass.dropped
    BY <1>2 DEF DeletionTypeInv, PassState
  <2>2. pass' = next /\ owned' = owned \cup Rows(SourceKey)
    BY <1>4 DEF ReadSources
  <2>3. next.dropped \subseteq Rows(Key)
    BY <2>1 DEF UsedInv
  <2> HIDE DEF next
  <2> QED BY <1>2, <1>3, <2>1, <2>2, <2>3
<1>5. CASE DropSourcesReadArtifacts
  <2> DEFINE next == [pass EXCEPT !.pc = "artifacts", !.todo = Rows(ArtifactKey),
                                  !.captured = Rows(ArtifactKey), !.dropped = Rows(SourceKey)]
  <2>1. /\ next \in PassState /\ next.pc = "artifacts" /\ next.todo = Rows(ArtifactKey)
        /\ next.captured = Rows(ArtifactKey) /\ next.repaired = pass.repaired
        /\ next.failed = pass.failed /\ next.dropped = Rows(SourceKey)
    BY <1>2 DEF DeletionTypeInv, PassState
  <2>2. pass' = next /\ owned' = owned \cup Rows(ArtifactKey)
    BY <1>5 DEF DropSourcesReadArtifacts
  <2> HIDE DEF next
  <2> QED BY <1>2, <1>3, <2>1, <2>2
<1>6. CASE DropArtifacts
  <2> DEFINE next == [pass EXCEPT !.pc = "verify", !.dropped = @ \cup Rows(ArtifactKey)]
  <2>1. /\ next \in PassState /\ next.pc = "verify" /\ next.todo = {}
        /\ next.captured = pass.captured /\ next.repaired = pass.repaired
        /\ next.failed = pass.failed /\ next.dropped = pass.dropped \cup Rows(ArtifactKey)
    BY <1>2, <1>6 DEF DeletionTypeInv, PassState, DropArtifacts
  <2>2. pass' = next /\ owned' = owned
    BY <1>6 DEF DropArtifacts
  <2>3. next.dropped \subseteq Rows(Key)
    BY <1>2, <2>1 DEF UsedInv
  <2>4. owned \cap Rows(ArtifactKey) \subseteq pass.captured
    BY <1>6 DEF UsedInv, DropArtifacts, Passing
  <2> HIDE DEF next
  <2> QED BY <1>2, <1>3, <2>1, <2>2, <2>3, <2>4
<1> QED BY <1>4, <1>5, <1>6

\* What is still stored under a key the pass knows becomes a failure, unless the store is silent.
LEMMA VerifyInv ==
  ASSUME DeletionInv, Verify
  PROVE  DeletionInv'
<1> USE DEF DeletionInv
<1>1. PICK silent \in SUBSET (pass.captured \cap objects) :
        /\ pass' = [pass EXCEPT !.pc = "settle",
                                !.failed = @ \cup (objects \cap SourceKey)
                                             \cup (Rows(SourceKey) \ pass.dropped)
                                             \cup ((pass.captured \cap objects) \ silent)]
        /\ blind' = (blind \/ silent # {})
  BY DEF Verify
<1> DEFINE found == (objects \cap SourceKey) \cup (Rows(SourceKey) \ pass.dropped)
                      \cup ((pass.captured \cap objects) \ silent)
<1>2. /\ pass.pc = "verify" /\ project # "gone"
      /\ UNCHANGED <<project, saved, objects, residuals, owned, missed>>
  BY DEF Verify, Passing, GoneInv
<1>3. /\ Rows(SourceKey) \subseteq Rows(Key) /\ Rows(Key) \subseteq UsedKeys /\ UsedKeys \subseteq Key
      /\ Rows(Key)' = Rows(Key) /\ Rows(ArtifactKey)' = Rows(ArtifactKey) /\ UsedKeys' = UsedKeys
  BY <1>2 DEF Rows, UsedKeys, Key
<1>4. found \subseteq UsedKeys
  BY <1>3 DEF UsedInv
<1>5. /\ pass' \in PassState /\ pass'.pc = "settle" /\ pass'.todo = pass.todo
      /\ pass'.captured = pass.captured /\ pass'.repaired = pass.repaired
      /\ pass'.dropped = pass.dropped /\ pass'.failed = pass.failed \cup found
  BY <1>1, <1>3, <1>4 DEF DeletionTypeInv, PassState
<1>6. DeletionTypeInv'
  BY <1>1, <1>2, <1>5 DEF DeletionTypeInv
<1>7. UsedInv'
  BY <1>2, <1>3, <1>4, <1>5 DEF UsedInv
<1>8. GoneInv'
  BY <1>2, <1>5 DEF GoneInv, SourcesAreGone
<1>9. ResidueInv'
  <2> SUFFICES ASSUME ~blind' PROVE ResidueInv'
    BY DEF ResidueInv
  <2>1. ~blind /\ silent = {}
    BY <1>1 DEF DeletionTypeInv
  <2>2. ASSUME NEW k \in owned \cap pass.dropped \cap objects PROVE k \in found
    <3>1. k \in Rows(Key)
      BY DEF UsedInv
    <3>2. k \in SourceKey \/ k \in Rows(ArtifactKey)
      BY <3>1 DEF Rows, Key
    <3> QED BY <1>2, <2>1, <3>2 DEF UsedInv
  <2> QED BY <1>2, <1>3, <1>5, <2>1, <2>2 DEF ResidueInv
<1> QED BY <1>6, <1>7, <1>8, <1>9

\* The rows a pass has dropped go with its commit.
LEMMA SettleInv ==
  ASSUME DeletionInv, SettleDeleting \/ SettleGone
  PROVE  DeletionInv'
<1> USE DEF DeletionInv
<1>1. /\ pass.pc = "settle" /\ project # "gone" /\ Uploading = {} /\ CommitRows /\ pass' = NoPass
      /\ UNCHANGED <<objects, owned, missed, blind>>
  BY DEF SettleDeleting, SettleGone, Passing, GoneInv
<1>2. /\ NoPass \in PassState /\ NoPass.pc = "none" /\ NoPass.todo = {} /\ NoPass.captured = {}
      /\ NoPass.dropped = {} /\ NoPass.repaired = {} /\ NoPass.failed = {}
  BY DEF NoPass, PassState
<1>3. \A k \in Key : saved'[k] = IF k \in pass.dropped THEN "none" ELSE saved[k]
  BY <1>1 DEF CommitRows
<1>4. \A k \in pass.dropped : k \in Key /\ saved[k] = "row"
  BY DEF UsedInv, Rows
<1>5. saved' \in [Key -> {"unused", "open", "row", "none"}]
  BY <1>1, <1>3 DEF CommitRows, DeletionTypeInv
<1>6. /\ UsedKeys' = UsedKeys /\ Uploading' = {}
      /\ Rows(Key)' = Rows(Key) \ pass.dropped /\ Rows(SourceKey)' = Rows(SourceKey) \ pass.dropped
  BY <1>1, <1>3, <1>4 DEF UsedKeys, Uploading, Rows, Key
<1>7. \A k \in owned : saved'[k] \in {"row", "none"}
  BY <1>3 DEF UsedInv, DeletionTypeInv
<1>8. CASE SettleDeleting
  <2>1. project' = "deleting" /\ residuals' = (residuals \ pass.repaired) \cup pass.failed
    BY <1>8 DEF SettleDeleting
  <2>2. residuals' \subseteq UsedKeys /\ UsedKeys \subseteq Key
    BY <2>1 DEF UsedInv, UsedKeys
  <2>3. DeletionTypeInv'
    BY <1>1, <1>2, <1>5, <2>1, <2>2 DEF DeletionTypeInv
  <2>4. UsedInv'
    BY <1>1, <1>2, <1>6, <1>7, <2>2 DEF UsedInv
  <2>5. GoneInv'
    BY <1>1, <1>2, <2>1 DEF GoneInv, SourcesAreGone
  <2>6. ResidueInv'
    <3>1. CASE blind
      BY <1>1, <3>1 DEF ResidueInv
    <3>2. CASE ~blind
      <4>1. owned \cap objects \subseteq Rows(Key) \cup residuals
        BY <1>1, <3>2 DEF ResidueInv
      <4>2. owned \cap objects \subseteq Rows(Key)' \cup residuals'
        BY <1>1, <1>6, <2>1, <3>2, <4>1 DEF ResidueInv
      <4> QED BY <1>1, <1>2, <4>2 DEF ResidueInv
    <3> QED BY <3>1, <3>2
  <2> QED BY <2>3, <2>4, <2>5, <2>6
<1>9. CASE SettleGone
  <2>1. /\ project' = "gone" /\ residuals' = {} /\ pass.failed = {}
        /\ Rows(SourceKey) \subseteq pass.dropped
    BY <1>9 DEF SettleGone
  <2>2. DeletionTypeInv'
    BY <1>1, <1>2, <1>5, <2>1 DEF DeletionTypeInv
  <2>3. UsedInv'
    BY <1>1, <1>2, <1>6, <1>7, <2>1 DEF UsedInv
  <2>4. objects \cap SourceKey \subseteq missed
    <3> SUFFICES ASSUME NEW k \in objects \cap SourceKey PROVE k \in missed
      OBVIOUS
    <3>1. saved[k] # "open"
      BY <1>1 DEF Uploading
    <3>2. saved[k] = "row" => k \in pass.dropped
      BY <2>1 DEF Rows
    <3> QED BY <1>1, <2>1, <3>1, <3>2 DEF GoneInv
  <2>5. GoneInv'
    BY <1>1, <1>2, <1>6, <2>1, <2>4 DEF GoneInv, SourcesAreGone
  <2>6. ResidueInv'
    BY <1>1, <1>2, <2>1 DEF ResidueInv
  <2> QED BY <2>2, <2>3, <2>5, <2>6
<1> QED BY <1>8, <1>9

\* What a pass that is rolled back had removed stays removed.
LEMMA RollBackInv ==
  ASSUME DeletionInv, RollBack
  PROVE  DeletionInv'
<1> USE DEF DeletionInv
<1>1. /\ UNCHANGED <<project, saved, objects, residuals, owned, missed, blind>> /\ pass' = NoPass
  BY DEF RollBack
<1>2. /\ NoPass \in PassState /\ NoPass.pc = "none" /\ NoPass.todo = {} /\ NoPass.captured = {}
      /\ NoPass.dropped = {} /\ NoPass.repaired = {} /\ NoPass.failed = {}
  BY DEF NoPass, PassState
<1>3. /\ Rows(Key)' = Rows(Key) /\ Rows(ArtifactKey)' = Rows(ArtifactKey) /\ UsedKeys' = UsedKeys
      /\ Rows(SourceKey)' = Rows(SourceKey) /\ Uploading' = Uploading
  BY <1>1 DEF Rows, UsedKeys, Uploading
<1>4. DeletionTypeInv'
  BY <1>1, <1>2 DEF DeletionTypeInv
<1>5. UsedInv'
  BY <1>1, <1>2, <1>3 DEF UsedInv
<1>6. GoneInv'
  BY <1>1, <1>2, <1>3 DEF GoneInv, SourcesAreGone
<1>7. ResidueInv'
  BY <1>1, <1>2, <1>3 DEF ResidueInv
<1> QED BY <1>4, <1>5, <1>6, <1>7

\* Every step keeps the invariant.
LEMMA DeletionNextInv == DeletionInv /\ [DeletionNext]_deletionVars => DeletionInv'
<1> SUFFICES ASSUME DeletionInv, [DeletionNext]_deletionVars PROVE DeletionInv'
  OBVIOUS
<1>1. CASE UNCHANGED deletionVars
  BY <1>1 DEF deletionVars, DeletionInv, DeletionTypeInv, UsedInv, GoneInv, ResidueInv,
              SourcesAreGone, UsedKeys, Rows, Uploading
<1>2. SourceKey \subseteq Key /\ ArtifactKey \subseteq Key
  BY DEF Key
<1>3. CASE DeletionNext
  BY <1>2, <1>3, PutInv, EndInv, BeginPassInv, RepairInv, DeleteObjectInv, ReadInv, VerifyInv,
     SettleInv, RollBackInv DEF DeletionNext
<1> QED BY <1>1, <1>3

\* As long as the project is there and the store has answered, what a pass has found and is
\* still stored is named by a row or a residual, however often passes fail, are rolled back and
\* begin again (_repair_residuals, _record_residual).
THEOREM ResidueStaysKnown == DeletionSpec => []ResidueIsKnown
<1>1. DeletionSpec => []DeletionInv
  BY DeletionInitInv, DeletionNextInv, PTL DEF DeletionSpec
<1>2. DeletionInv => ResidueIsKnown
  BY DEF DeletionInv, ResidueInv, ResidueIsKnown
<1> QED BY <1>1, <1>2, PTL

\* When the project is gone it has no source, except one whose upload died or failed while the
\* pass was settling (_verify_project_removed, create_source).
THEOREM DeletedProjectsHaveNoSource == DeletionSpec => []SourcesAreGone
<1>1. DeletionSpec => []DeletionInv
  BY DeletionInitInv, DeletionNextInv, PTL DEF DeletionSpec
<1>2. DeletionInv => SourcesAreGone
  BY DEF DeletionInv, GoneInv
<1> QED BY <1>1, <1>2, PTL

-----------------------------------------------------------------------------
(* Admission: a teacher gets no more than the limits.                        *)

\* What may be ahead of a request.
Ahead == Seq(Class \cup {"create"})

CallState == [at : {"idle", "resolve", "insert", "clock", "upsert", "counted", "create", "inserted"},
              workspace : Caller \cup {"none"}, due : Ahead, size : Nat, start : 0..MaxWindows]

ProjectState == [status : {"none", "active", "deleting", "gone"}, workspace : Caller \cup {"none"}]

AdmissionTypeInv ==
  /\ workspaces \in SUBSET Caller
  /\ now \in [Class -> 1..MaxWindows]
  /\ windows \in [Window -> [count : Int, bytes : Int]]
  /\ projects \in [Project -> ProjectState]
  /\ call \in [Caller -> CallState]
  /\ admitted \in [Class -> [1..MaxWindows -> Nat]]

\* A request that has passed the first step has a workspace, and one at a guard has a class.
Sound(s, spaces) ==
  /\ s.at \in {"resolve", "insert", "clock", "upsert", "counted"} => s.due # <<>>
  /\ s.at \in {"clock", "upsert", "counted"} => Head(s.due) \in Class
  /\ s.at \in {"upsert", "counted"} => s.start \in 1..MaxWindows
  /\ s.at \in {"clock", "upsert", "counted", "create", "inserted"} => s.workspace \in spaces

\* The subject has one workspace, in which everything is counted.
OneWorkspaceInv ==
  /\ \A v, w \in workspaces : v = w
  /\ workspaces = {} => \A class \in Class, start \in 1..MaxWindows : admitted[class][start] = 0
  /\ \A c \in Caller : Sound(call[c], workspaces)

Holds(s, w) ==
  s.at = "counted" /\ w = [workspace |-> s.workspace, class |-> Head(s.due), start |-> s.start]
AmountOf(s) == IF Head(s.due) = "upload_daily" THEN s.size ELSE 1
Total(w) == IF w.class = "upload_daily" THEN windows[w].bytes ELSE windows[w].count
Base(w) == IF w.workspace \in workspaces THEN admitted[w.class][w.start] ELSE 0

\* A window counts what was let through and what its one holder asks for.
WindowInv ==
  /\ \A w \in Window : Base(w) <= Total(w)
  /\ \A w \in Window, c \in Caller :
       Holds(call[c], w) => Base(w) + AmountOf(call[c]) <= Total(w)
  /\ \A w \in Window, c, d \in Caller : Holds(call[c], w) /\ Holds(call[d], w) => c = d
  /\ \A class \in Class, start \in 1..MaxWindows : admitted[class][start] <= Limit[class]

Active == {p \in Project : projects[p].status = "active"}

\* One request at a time is about to add a project, and there is room for it.
ProjectsInv ==
  /\ IsFiniteSet(Active) /\ Cardinality(Active) <= MaxProjects
  /\ \A p \in Active : projects[p].workspace \in workspaces
  /\ \A c, d \in Caller : call[c].at = "inserted" /\ call[d].at = "inserted" => c = d
  /\ \A c \in Caller : call[c].at = "inserted" => Cardinality(Active) < MaxProjects

AdmissionInv == AdmissionTypeInv /\ OneWorkspaceInv /\ WindowInv /\ ProjectsInv

\* What is ahead of a request begins with a class or with the creation of a project.
LEMMA AheadOf ==
  /\ \A due \in Ahead : due # <<>> => Head(due) \in Class \cup {"create"} /\ Tail(due) \in Ahead
  /\ \A due \in Work : due \in Ahead /\ due # <<>>
  /\ <<>> \in Ahead
<1>1. \A S : <<>> \in Seq(S) /\ \A s \in Seq(S) : s # <<>> => Head(s) \in S /\ Tail(s) \in Seq(S)
  OBVIOUS
<1>2. \A S : \A x, y, z \in S : /\ <<x>> \in Seq(S) /\ <<x, y>> \in Seq(S) /\ <<x, y, z>> \in Seq(S)
                             /\ <<x>> # <<>> /\ <<x, y>> # <<>> /\ <<x, y, z>> # <<>>
  OBVIOUS
<1>3. {"general", "expensive", "upload_daily", "create"} = Class \cup {"create"}
  BY DEF Class
<1> DEFINE S == Class \cup {"create"}
<1>4. "general" \in S /\ "expensive" \in S /\ "upload_daily" \in S /\ "create" \in S
  BY <1>3
<1> HIDE DEF S
<1>5. \A due \in Work : due \in Seq(S) /\ due # <<>>
  BY <1>2, <1>4 DEF Work
<1> QED BY <1>1, <1>5 DEF Ahead, S

\* What a step of request c leaves alone.
LEMMA ProceedsSets ==
  ASSUME AdmissionTypeInv, NEW c \in Caller, NEW s \in CallState, call' = [call EXCEPT ![c] = s]
  PROVE  /\ call' \in [Caller -> CallState]
         /\ call'[c] = s
         /\ \A d \in Caller \ {c} : call'[d] = call[d]
BY DEF AdmissionTypeInv

\* A request that waits for nothing is sound.
LEMMA NoCallSound == NoCall \in CallState /\ NoCall.at = "idle" /\ \A spaces : Sound(NoCall, spaces)
BY AheadOf, AdmissionAssumption DEF NoCall, CallState, Sound

\* The next guard, the work, or the end.
LEMMA OnwardsSound ==
  ASSUME NEW s \in CallState, NEW due \in Ahead, NEW spaces, s.workspace \in spaces
  PROVE  /\ Onwards(s, due) \in CallState
         /\ Sound(Onwards(s, due), spaces)
         /\ Onwards(s, due).at \in {"idle", "clock", "create"}
<1>1. CASE due = <<>>
  <2>1. Onwards(s, due) = NoCall
    BY <1>1 DEF Onwards
  <2> QED BY <2>1, NoCallSound
<1>2. CASE due # <<>> /\ Head(due) = "create"
  <2>1. Onwards(s, due) = [s EXCEPT !.at = "create", !.due = due]
    BY <1>2 DEF Onwards
  <2>2. /\ Onwards(s, due) \in CallState /\ Onwards(s, due).at = "create"
        /\ Onwards(s, due).workspace = s.workspace
    BY <2>1 DEF CallState
  <2> QED BY <2>2 DEF Sound
<1>3. CASE due # <<>> /\ Head(due) # "create"
  <2>1. Onwards(s, due) = [s EXCEPT !.at = "clock", !.due = due]
    BY <1>3 DEF Onwards
  <2>2. /\ Onwards(s, due) \in CallState /\ Onwards(s, due).at = "clock"
        /\ Onwards(s, due).workspace = s.workspace /\ Onwards(s, due).due = due
    BY <2>1 DEF CallState
  <2> QED BY <1>3, <2>2, AheadOf DEF Sound
<1> QED BY <1>1, <1>2, <1>3

\* Initially nobody was admitted.
LEMMA AdmissionInitInv == AdmissionInit => AdmissionInv
<1> SUFFICES ASSUME AdmissionInit PROVE AdmissionInv
  OBVIOUS
<1>1. /\ workspaces = {} /\ now = [class \in Class |-> 1]
      /\ windows = [w \in Window |-> [count |-> 0, bytes |-> 0]]
      /\ projects = [p \in Project |-> NoProject] /\ call = [c \in Caller |-> NoCall]
      /\ admitted = [class \in Class |-> [start \in 1..MaxWindows |-> 0]]
  BY DEF AdmissionInit
<1>2. NoProject \in ProjectState /\ NoProject.status = "none"
  BY DEF NoProject, ProjectState
<1>3. AdmissionTypeInv
  BY <1>1, <1>2, NoCallSound, AdmissionAssumption DEF AdmissionTypeInv
<1>4. OneWorkspaceInv
  BY <1>1, NoCallSound DEF OneWorkspaceInv
<1>5. WindowInv
  BY <1>1, NoCallSound, AdmissionAssumption DEF WindowInv, Base, Total, Holds
<1>6. Active = {}
  BY <1>1, <1>2 DEF Active
<1>7. ProjectsInv
  <2>1. IsFiniteSet({}) /\ Cardinality({}) = 0
    BY FS_EmptySet
  <2> QED BY <1>1, <1>6, <2>1, NoCallSound, AdmissionAssumption DEF ProjectsInv
<1> QED BY <1>3, <1>4, <1>5, <1>7 DEF AdmissionInv

\* The windows and the projects do not see a step that neither takes nor keeps a lock.
LEMMA CallMovesInv ==
  ASSUME AdmissionInv, NEW c \in Caller, NEW s \in CallState, call' = [call EXCEPT ![c] = s],
         Sound(s, workspaces'), s.at \notin {"counted", "inserted"},
         workspaces' = workspaces \/ (workspaces = {} /\ workspaces' = {c}),
         UNCHANGED <<now, windows, projects, admitted>>
  PROVE  AdmissionInv'
<1> USE DEF AdmissionInv
<1>1. /\ call' \in [Caller -> CallState] /\ call'[c] = s
      /\ \A d \in Caller \ {c} : call'[d] = call[d]
  BY ProceedsSets
<1>2. AdmissionTypeInv'
  BY <1>1 DEF AdmissionTypeInv
<1>3. OneWorkspaceInv'
  BY <1>1 DEF OneWorkspaceInv, Sound
<1>4. \A w \in Window : Total(w)' = Total(w)
  BY DEF Total
<1>5. \A w \in Window : Base(w)' = Base(w)
  BY DEF Base, OneWorkspaceInv, Window
<1>6. WindowInv'
  <2>1. \A d \in Caller : call'[d].at = "counted" => d # c /\ call'[d] = call[d]
    BY <1>1
  <2>2. \A w \in Window, d \in Caller : Holds(call'[d], w) => d # c /\ call'[d] = call[d]
    BY <2>1 DEF Holds
  <2> QED BY <1>4, <1>5, <2>2 DEF WindowInv
<1>7. ProjectsInv'
  <2>1. \A d \in Caller : call'[d].at = "inserted" => d # c /\ call'[d] = call[d]
    BY <1>1
  <2>2. Active' = Active
    BY DEF Active
  <2> QED BY <2>1, <2>2 DEF ProjectsInv
<1> QED BY <1>2, <1>3, <1>6, <1>7

\* The clock, and the requests that take no lock.
LEMMA WaitingInv ==
  ASSUME AdmissionInv,
         \/ \E class \in Class : NextWindow(class)
         \/ \E c \in Caller : \/ \E due \in Work : Receive(c, due)
                             \/ Resolve(c) \/ InsertWorkspace(c) \/ ReadClock(c)
  PROVE  AdmissionInv'
<1> USE DEF AdmissionInv
<1>1. CASE \E class \in Class : NextWindow(class)
  <2>1. PICK class \in Class : now[class] < MaxWindows /\ now' = [now EXCEPT ![class] = @ + 1]
    BY <1>1 DEF NextWindow
  <2>2. now' \in [Class -> 1..MaxWindows]
    BY <2>1, AdmissionAssumption DEF AdmissionTypeInv
  <2>3. UNCHANGED <<workspaces, windows, projects, call, admitted>>
    BY <1>1 DEF NextWindow
  <2> QED BY <2>2, <2>3 DEF AdmissionTypeInv, OneWorkspaceInv, WindowInv, ProjectsInv, Active, Base, Total
<1>2. ASSUME NEW c \in Caller, NEW due \in Work, Receive(c, due)
      PROVE  AdmissionInv'
  <2>1. PICK size \in Sizes(due) :
          call' = [call EXCEPT ![c] = [NoCall EXCEPT !.at = "resolve", !.due = due, !.size = size]]
    BY <1>2 DEF Receive, Proceeds
  <2> DEFINE s == [NoCall EXCEPT !.at = "resolve", !.due = due, !.size = size]
  <2>2. size \in Nat /\ due \in Ahead /\ due # <<>>
    <3>1. size \in Nat
      BY AdmissionAssumption DEF Sizes
    <3> QED BY <3>1, AheadOf
  <2>3. s \in CallState /\ s.at = "resolve" /\ s.due = due
    <3>1. NoCall \in CallState
      BY NoCallSound
    <3> QED BY <2>2, <3>1 DEF CallState
  <2>4. UNCHANGED <<workspaces, now, windows, projects, admitted>> /\ call' = [call EXCEPT ![c] = s]
    BY <1>2, <2>1 DEF Receive
  <2> HIDE DEF s
  <2>5. Sound(s, workspaces')
    BY <2>2, <2>3 DEF Sound
  <2> QED BY <2>3, <2>4, <2>5, CallMovesInv
<1>3. ASSUME NEW c \in Caller, Resolve(c) \/ InsertWorkspace(c)
      PROVE  AdmissionInv'
  <2>1. /\ call[c] \in CallState /\ call[c].at \in {"resolve", "insert"} /\ call[c].due # <<>>
        /\ UNCHANGED <<now, windows, projects, admitted>>
    BY <1>3 DEF Resolve, InsertWorkspace, CallIs, AdmissionTypeInv, OneWorkspaceInv, Sound
  <2>2. CASE workspaces' = workspaces /\ call' = [call EXCEPT ![c] = [call[c] EXCEPT !.at = "insert"]]
    <3> DEFINE s == [call[c] EXCEPT !.at = "insert"]
    <3>1. s \in CallState /\ s.at = "insert" /\ s.due = call[c].due
      BY <2>1 DEF CallState
    <3>2. call' = [call EXCEPT ![c] = s]
      BY <2>2
    <3> HIDE DEF s
    <3>3. Sound(s, workspaces')
      BY <2>1, <3>1 DEF Sound
    <3> QED BY <2>1, <2>2, <3>1, <3>2, <3>3, CallMovesInv
  <2>3. ASSUME NEW w \in workspaces',
               workspaces' = workspaces \/ (workspaces = {} /\ workspaces' = {c}),
               call' = [call EXCEPT ![c] = Onwards([call[c] EXCEPT !.workspace = w], call[c].due)]
        PROVE  AdmissionInv'
    <3> DEFINE r == [call[c] EXCEPT !.workspace = w]
               s == Onwards(r, call[c].due)
    <3>1. w \in Caller /\ call[c].due \in Ahead
      BY <2>1, <2>3 DEF AdmissionTypeInv, CallState
    <3>2. r \in CallState /\ r.workspace = w
      BY <2>1, <3>1 DEF CallState
    <3> HIDE DEF r
    <3>3. s \in CallState /\ Sound(s, workspaces') /\ s.at \in {"idle", "clock", "create"}
      BY <3>1, <3>2, OnwardsSound
    <3>4. call' = [call EXCEPT ![c] = s]
      BY <2>3 DEF r
    <3> HIDE DEF s
    <3> QED BY <2>1, <2>3, <3>3, <3>4, CallMovesInv
  <2>4. CASE Resolve(c)
    BY <2>2, <2>3, <2>4 DEF Resolve, Proceeds
  <2>5. CASE InsertWorkspace(c)
    <3> DEFINE w == IF workspaces = {} THEN c ELSE CHOOSE v \in workspaces : TRUE
    <3>1. /\ workspaces' = workspaces \cup {w}
          /\ call' = [call EXCEPT ![c] = Onwards([call[c] EXCEPT !.workspace = w], call[c].due)]
      BY <2>5 DEF InsertWorkspace, Proceeds
    <3>2. w \in workspaces' /\ (workspaces' = workspaces \/ (workspaces = {} /\ workspaces' = {c}))
      BY <3>1
    <3> HIDE DEF w
    <3> QED BY <2>3, <3>1, <3>2
  <2> QED BY <1>3, <2>4, <2>5
<1>4. ASSUME NEW c \in Caller, ReadClock(c)
      PROVE  AdmissionInv'
  <2> DEFINE start == now[Guarding(c)]
             s == [call[c] EXCEPT !.at = "upsert", !.start = start]
  <2>1. /\ call[c] \in CallState /\ call[c].at = "clock" /\ Sound(call[c], workspaces)
        /\ UNCHANGED <<workspaces, now, windows, projects, admitted>>
    BY <1>4 DEF ReadClock, CallIs, AdmissionTypeInv, OneWorkspaceInv
  <2>2. start \in 1..MaxWindows
    BY <2>1 DEF Guarding, Sound, AdmissionTypeInv
  <2>3. call' = [call EXCEPT ![c] = s]
    BY <1>4 DEF ReadClock, Proceeds
  <2> HIDE DEF start
  <2>4. /\ s \in CallState /\ s.at = "upsert" /\ s.start = start /\ s.due = call[c].due
        /\ s.workspace = call[c].workspace
    <3>1. start \in 0..MaxWindows
      BY <2>2, AdmissionAssumption
    <3> QED BY <2>1, <3>1 DEF CallState
  <2> HIDE DEF s
  <2>5. Sound(s, workspaces')
    BY <2>1, <2>2, <2>4 DEF Sound
  <2> QED BY <2>1, <2>3, <2>4, <2>5, CallMovesInv
<1> QED BY <1>1, <1>2, <1>3, <1>4

\* What a request that is at a guard asks for, in the words of the invariant.
LEMMA GuardOf ==
  ASSUME AdmissionInv, NEW c \in Caller, call[c].at \in {"upsert", "counted"}
  PROVE  /\ WindowOf(c) = [workspace |-> call[c].workspace, class |-> Head(call[c].due),
                            start |-> call[c].start]
         /\ WindowOf(c) \in Window /\ WindowOf(c).workspace \in workspaces
         /\ WindowOf(c).class = Guarding(c) /\ WindowOf(c).start = call[c].start
         /\ Guarding(c) \in Class /\ call[c].start \in 1..MaxWindows
         /\ Amount(c) = AmountOf(call[c]) /\ Amount(c) \in Nat /\ Bytes(c) \in Nat
         /\ Guarding(c) = "upload_daily" => Bytes(c) = Amount(c)
         /\ Guarding(c) # "upload_daily" => Bytes(c) = 0 /\ Amount(c) = 1
<1> USE DEF AdmissionInv
<1>1. call[c] \in CallState /\ Sound(call[c], workspaces) /\ workspaces \subseteq Caller
  BY DEF AdmissionTypeInv, OneWorkspaceInv
<1>2. call[c].workspace \in workspaces /\ Guarding(c) \in Class /\ call[c].start \in 1..MaxWindows
  BY <1>1 DEF Sound, Guarding
<1>3. WindowOf(c) \in Window
  BY <1>1, <1>2 DEF WindowOf, Window
<1>4. call[c].size \in Nat
  BY <1>1 DEF CallState
<1> QED BY <1>2, <1>3, <1>4 DEF WindowOf, Amount, AmountOf, Bytes, Guarding

\* Adding to a row, or taking back, in the words of the invariant.
LEMMA RowOf ==
  ASSUME AdmissionInv, NEW w \in Window, NEW row \in [count : Int, bytes : Int],
         windows' = [windows EXCEPT ![w] = row]
  PROVE  /\ windows' \in [Window -> [count : Int, bytes : Int]]
         /\ Total(w)' = IF w.class = "upload_daily" THEN row.bytes ELSE row.count
         /\ \A v \in Window \ {w} : Total(v)' = Total(v)
BY DEF AdmissionInv, AdmissionTypeInv, Total

\* Counters, their totals and what was admitted are numbers.
LEMMA WindowsTyped ==
  ASSUME AdmissionInv
  PROVE  \A w \in Window : /\ windows[w] \in [count : Int, bytes : Int]
                           /\ Total(w) \in Int /\ Base(w) \in Nat
<1> SUFFICES ASSUME NEW w \in Window
             PROVE  windows[w] \in [count : Int, bytes : Int] /\ Total(w) \in Int /\ Base(w) \in Nat
  OBVIOUS
<1>1. windows[w] \in [count : Int, bytes : Int] /\ admitted[w.class][w.start] \in Nat
  BY DEF AdmissionInv, AdmissionTypeInv, Window
<1> QED BY <1>1 DEF Total, Base

\* The row of a window is locked by the one that adds to it.
LEMMA UpsertInv ==
  ASSUME AdmissionInv, NEW c \in Caller, Upsert(c)
  PROVE  AdmissionInv'
<1> USE DEF AdmissionInv
<1> DEFINE s == [call[c] EXCEPT !.at = "counted"]
<1> PICK own \in Window : own = WindowOf(c)
  BY GuardOf DEF Upsert, CallIs
<1> PICK row : row = Added(windows[own], Bytes(c))
  OBVIOUS
<1>1. /\ call[c] \in CallState /\ call[c].at = "upsert" /\ Sound(call[c], workspaces)
      /\ UNCHANGED <<workspaces, now, projects, admitted>>
      /\ windows' = [windows EXCEPT ![own] = row] /\ call' = [call EXCEPT ![c] = s]
  BY DEF Upsert, CallIs, Proceeds, AdmissionTypeInv, OneWorkspaceInv
<1>2. /\ s \in CallState /\ s.at = "counted" /\ s.start = call[c].start /\ s.due = call[c].due
      /\ s.workspace = call[c].workspace /\ s.size = call[c].size
  BY <1>1 DEF CallState
<1> HIDE DEF s
<1>3. /\ own = [workspace |-> call[c].workspace, class |-> Head(call[c].due), start |-> call[c].start]
      /\ own.class = Guarding(c)
      /\ Amount(c) = AmountOf(call[c]) /\ Amount(c) \in Nat /\ Bytes(c) \in Nat
      /\ (Guarding(c) = "upload_daily" => Bytes(c) = Amount(c))
      /\ (Guarding(c) # "upload_daily" => Amount(c) = 1)
  BY <1>1, GuardOf
<1>4. \A d \in Caller : ~Holds(call[d], own)
  <2> SUFFICES ASSUME NEW d \in Caller, Holds(call[d], own) PROVE FALSE
    OBVIOUS
  <2>1. call[d].at = "counted" /\ WindowOf(d) = own
    BY GuardOf DEF Holds
  <2> QED BY <2>1 DEF Upsert, Unheld, Counting, CallIs
<1>5. /\ row \in [count : Int, bytes : Int]
      /\ row.count = windows[own].count + 1 /\ row.bytes = windows[own].bytes + Bytes(c)
  BY <1>3, WindowsTyped DEF Added
<1>6. /\ call' \in [Caller -> CallState] /\ call'[c] = s
      /\ \A d \in Caller \ {c} : call'[d] = call[d]
  BY <1>1, <1>2, ProceedsSets
<1>7. /\ windows' \in [Window -> [count : Int, bytes : Int]]
      /\ Total(own)' = IF own.class = "upload_daily" THEN row.bytes ELSE row.count
      /\ \A w \in Window \ {own} : Total(w)' = Total(w)
  BY <1>1, <1>5, RowOf
<1>8. AdmissionTypeInv'
  BY <1>1, <1>6, <1>7 DEF AdmissionTypeInv
<1>9. OneWorkspaceInv'
  <2>1. Sound(s, workspaces)
    BY <1>1, <1>2 DEF Sound
  <2> QED BY <1>1, <1>6, <2>1 DEF OneWorkspaceInv
<1>10. Total(own)' = Total(own) + Amount(c)
  <2>1. Total(own) = IF own.class = "upload_daily" THEN windows[own].bytes ELSE windows[own].count
    BY DEF Total
  <2> QED BY <1>3, <1>5, <1>7, <2>1
<1>11. \A w \in Window : Base(w)' = Base(w)
  BY <1>1 DEF Base
<1>12. AmountOf(s) = Amount(c) /\ \A w \in Window : Holds(s, w) => w = own
  BY <1>2, <1>3 DEF Holds, AmountOf
<1>13. WindowInv'
  <2>1. ASSUME NEW w \in Window PROVE Base(w)' <= Total(w)'
    BY <1>3, <1>7, <1>10, <1>11, WindowsTyped DEF WindowInv
  <2>2. ASSUME NEW w \in Window, NEW d \in Caller, Holds(call'[d], w)
        PROVE  Base(w)' + AmountOf(call'[d]) <= Total(w)'
    <3>1. CASE d = c
      BY <1>3, <1>6, <1>10, <1>11, <1>12, <2>2, <3>1, WindowsTyped DEF WindowInv
    <3>2. CASE d # c
      BY <1>4, <1>6, <1>7, <1>11, <2>2, <3>2 DEF WindowInv
    <3> QED BY <3>1, <3>2
  <2>3. ASSUME NEW w \in Window, NEW d \in Caller, NEW e \in Caller, Holds(call'[d], w), Holds(call'[e], w)
        PROVE  d = e
    BY <1>4, <1>6, <1>12, <2>3 DEF WindowInv
  <2> QED BY <1>1, <2>1, <2>2, <2>3 DEF WindowInv
<1>14. ProjectsInv'
  BY <1>1, <1>2, <1>6 DEF ProjectsInv, Active
<1> QED BY <1>8, <1>9, <1>13, <1>14

\* What is let through was counted, and is within the limit; what is refused stays counted.
LEMMA AnswerInv ==
  ASSUME AdmissionInv, NEW c \in Caller, AnswerGuard(c)
  PROVE  AdmissionInv'
<1> USE DEF AdmissionInv
<1> PICK own \in Window : own = WindowOf(c)
  BY GuardOf DEF AnswerGuard, CallIs
<1>1. /\ call[c] \in CallState /\ call[c].at = "counted" /\ Sound(call[c], workspaces)
      /\ UNCHANGED <<workspaces, now, windows, projects>>
  BY DEF AnswerGuard, CallIs, AdmissionTypeInv, OneWorkspaceInv
<1>2. CASE Refused(c) /\ UNCHANGED admitted
  BY <1>1, <1>2, NoCallSound, CallMovesInv DEF Refused, Proceeds
<1>3. CASE Used(c) <= Limit[Guarding(c)]
  <2> PICK s : s = Onwards(call[c], Tail(call[c].due))
    OBVIOUS
  <2> PICK class \in Class, start \in 1..MaxWindows : class = Guarding(c) /\ start = call[c].start
    BY <1>1, GuardOf
  <2> PICK amount \in Nat : amount = Amount(c)
    BY <1>1, GuardOf
  <2>1. /\ admitted' = [admitted EXCEPT ![class][start] = @ + amount] /\ call' = [call EXCEPT ![c] = s]
    BY <1>3 DEF AnswerGuard, Proceeds
  <2>2. /\ own.workspace \in workspaces /\ own.class = class /\ own.start = start /\ Holds(call[c], own)
        /\ AmountOf(call[c]) = amount
    BY <1>1, GuardOf DEF Holds
  <2>3. s \in CallState /\ Sound(s, workspaces) /\ s.at \in {"idle", "clock", "create"}
    <3>1. call[c].due \in Ahead /\ call[c].due # <<>> /\ call[c].workspace \in workspaces
      BY <1>1 DEF CallState, Sound
    <3> QED BY <1>1, <3>1, AheadOf, OnwardsSound
  <2>4. /\ call' \in [Caller -> CallState] /\ call'[c] = s
        /\ \A d \in Caller \ {c} : call'[d] = call[d]
    BY <2>1, <2>3, ProceedsSets
  <2>5. admitted' \in [Class -> [1..MaxWindows -> Nat]]
    <3> DEFINE row == [admitted[class] EXCEPT ![start] = @ + amount]
    <3>1. row \in [1..MaxWindows -> Nat]
      <4>1. admitted \in [Class -> [1..MaxWindows -> Nat]]
        BY DEF AdmissionTypeInv
      <4>2. admitted[class] \in [1..MaxWindows -> Nat]
        BY <4>1
      <4>3. admitted[class][start] \in Nat
        BY <4>2
      <4> QED BY <4>2, <4>3
    <3>2. admitted' = [admitted EXCEPT ![class] = row]
      BY <2>1
    <3> HIDE DEF row
    <3> QED BY <3>1, <3>2 DEF AdmissionTypeInv
  <2>6. /\ admitted'[class][start] = admitted[class][start] + amount
        /\ \A k \in Class, n \in 1..MaxWindows :
             <<k, n>> # <<class, start>> => admitted'[k][n] = admitted[k][n]
    BY <2>1 DEF AdmissionTypeInv
  <2>7. Base(own) + amount <= Total(own) /\ Base(own) = admitted[class][start]
    BY <2>2 DEF WindowInv, Base
  <2>8. \A w \in Window : Total(w)' = Total(w)
    BY <1>1 DEF Total
  <2>9. \A w \in Window : Base(w)' = IF w = own THEN Base(own) + amount ELSE Base(w)
    <3> SUFFICES ASSUME NEW w \in Window
                 PROVE  Base(w)' = IF w = own THEN Base(own) + amount ELSE Base(w)
      OBVIOUS
    <3>1. CASE w = own
      BY <1>1, <2>2, <2>6, <3>1 DEF Base
    <3>2. CASE w # own /\ w.workspace \in workspaces
      <4>1. w.workspace = own.workspace
        BY <2>2, <3>2 DEF OneWorkspaceInv
      <4>2. <<w.class, w.start>> # <<class, start>>
        BY <2>2, <3>2, <4>1 DEF Window
      <4> QED BY <1>1, <2>6, <3>2, <4>2 DEF Base, Window
    <3>3. CASE w.workspace \notin workspaces
      BY <1>1, <2>2, <3>3 DEF Base
    <3> QED BY <3>1, <3>2, <3>3
  <2>10. AdmissionTypeInv'
    BY <1>1, <2>4, <2>5 DEF AdmissionTypeInv
  <2>11. OneWorkspaceInv'
    BY <1>1, <2>2, <2>3, <2>4 DEF OneWorkspaceInv
  <2>12. admitted[class][start] + amount <= Limit[class]
    <3>1. CASE amount = 0
      <4>1. admitted[class][start] \in Nat /\ admitted[class][start] <= Limit[class]
        BY DEF WindowInv, AdmissionTypeInv
      <4> QED BY <3>1, <4>1
    <3>2. CASE amount # 0
      <4>1. Used(c) = Total(own)
        BY <1>1, <2>2, <3>2, GuardOf DEF Used, Total
      <4>2. Total(own) \in Int /\ Base(own) \in Nat /\ Limit[class] \in Nat
        BY WindowsTyped, AdmissionAssumption
      <4> QED BY <1>3, <2>7, <4>1, <4>2
    <3> QED BY <3>1, <3>2
  <2>13. WindowInv'
    <3>1. \A w \in Window, d \in Caller :
            Holds(call'[d], w) => d # c /\ call'[d] = call[d] /\ w # own
      <4>1. \A w \in Window : ~Holds(s, w)
        BY <2>3 DEF Holds
      <4> QED BY <2>2, <2>4, <4>1 DEF WindowInv
    <3>2. \A w \in Window : Base(w)' <= Total(w)'
      BY <2>7, <2>8, <2>9 DEF WindowInv
    <3>3. \A w \in Window, d \in Caller : Holds(call'[d], w) => Base(w)' + AmountOf(call'[d]) <= Total(w)'
      BY <2>8, <2>9, <3>1 DEF WindowInv
    <3>4. \A k \in Class, n \in 1..MaxWindows : admitted'[k][n] <= Limit[k]
      <4> SUFFICES ASSUME NEW k \in Class, NEW n \in 1..MaxWindows PROVE admitted'[k][n] <= Limit[k]
        OBVIOUS
      <4>1. CASE k = class /\ n = start
        BY <2>6, <2>12, <4>1
      <4>2. CASE ~(k = class /\ n = start)
        BY <2>6, <4>2 DEF WindowInv
      <4> QED BY <4>1, <4>2
    <3> QED BY <3>1, <3>2, <3>3, <3>4 DEF WindowInv
  <2>14. ProjectsInv'
    <3>1. \A d \in Caller : call'[d].at = "inserted" => d # c /\ call'[d] = call[d]
      BY <2>3, <2>4
    <3>2. Active' = Active
      BY <1>1 DEF Active
    <3> QED BY <1>1, <3>1, <3>2 DEF ProjectsInv
  <2> QED BY <2>10, <2>11, <2>13, <2>14
<1> QED BY <1>2, <1>3 DEF AnswerGuard

\* What was not committed is taken back from the window.
LEMMA AbandonInv ==
  ASSUME AdmissionInv, NEW c \in Caller, Abandon(c)
  PROVE  AdmissionInv'
<1> USE DEF AdmissionInv
<1>1. UNCHANGED <<workspaces, now, projects, admitted>> /\ call' = [call EXCEPT ![c] = NoCall]
  BY DEF Abandon, Refused, Proceeds
<1>2. CASE call[c].at # "counted"
  <2>1. windows' = windows
    BY <1>2 DEF Abandon, CallIs
  <2> QED BY <1>1, <2>1, NoCallSound, CallMovesInv
<1>3. CASE call[c].at = "counted"
  <2> PICK own \in Window : own = WindowOf(c)
    BY <1>3, GuardOf
  <2> PICK row : row = Removed(windows[own], Bytes(c))
    OBVIOUS
  <2>1. windows' = [windows EXCEPT ![own] = row]
    BY <1>3 DEF Abandon, CallIs
  <2>2. /\ own.class = Guarding(c) /\ Holds(call[c], own)
        /\ AmountOf(call[c]) = Amount(c) /\ Amount(c) \in Nat /\ Bytes(c) \in Nat
        /\ (Guarding(c) = "upload_daily" => Bytes(c) = Amount(c))
        /\ (Guarding(c) # "upload_daily" => Amount(c) = 1)
    BY <1>3, GuardOf DEF Holds
  <2>3. /\ row \in [count : Int, bytes : Int]
        /\ row.count = windows[own].count - 1 /\ row.bytes = windows[own].bytes - Bytes(c)
    BY <2>2, WindowsTyped DEF Removed
  <2>4. /\ call' \in [Caller -> CallState] /\ call'[c] = NoCall
        /\ \A d \in Caller \ {c} : call'[d] = call[d]
    BY <1>1, NoCallSound, ProceedsSets
  <2>5. /\ windows' \in [Window -> [count : Int, bytes : Int]]
        /\ Total(own)' = IF own.class = "upload_daily" THEN row.bytes ELSE row.count
        /\ \A w \in Window \ {own} : Total(w)' = Total(w)
    BY <2>1, <2>3, RowOf
  <2>6. Total(own)' = Total(own) - Amount(c)
    <3>1. Total(own) = IF own.class = "upload_daily" THEN windows[own].bytes ELSE windows[own].count
      BY DEF Total
    <3> QED BY <2>2, <2>3, <2>5, <3>1
  <2>7. AdmissionTypeInv'
    BY <1>1, <2>4, <2>5 DEF AdmissionTypeInv
  <2>8. OneWorkspaceInv'
    BY <1>1, <2>4, NoCallSound DEF OneWorkspaceInv
  <2>9. \A w \in Window : Base(w)' = Base(w)
    BY <1>1 DEF Base
  <2>10. WindowInv'
    <3>1. \A w \in Window, d \in Caller :
            Holds(call'[d], w) => d # c /\ call'[d] = call[d] /\ w # own
      <4>1. \A w \in Window : ~Holds(NoCall, w)
        BY NoCallSound DEF Holds
      <4> QED BY <2>2, <2>4, <4>1 DEF WindowInv
    <3>2. ASSUME NEW w \in Window PROVE Base(w)' <= Total(w)'
      <4>1. Base(own) + Amount(c) <= Total(own)
        BY <2>2 DEF WindowInv
      <4> QED BY <2>2, <2>5, <2>6, <2>9, <4>1, WindowsTyped DEF WindowInv
    <3>3. \A w \in Window, d \in Caller : Holds(call'[d], w) => Base(w)' + AmountOf(call'[d]) <= Total(w)'
      BY <2>5, <2>9, <3>1 DEF WindowInv
    <3> QED BY <1>1, <3>1, <3>2, <3>3 DEF WindowInv
  <2>11. ProjectsInv'
    <3>1. \A d \in Caller : call'[d].at = "inserted" => d # c /\ call'[d] = call[d]
      BY <2>4, NoCallSound
    <3>2. Active' = Active
      BY <1>1 DEF Active
    <3> QED BY <1>1, <3>1, <3>2 DEF ProjectsInv
  <2> QED BY <2>7, <2>8, <2>10, <2>11
<1> QED BY <1>2, <1>3

\* All active projects are those of the one workspace.
LEMMA ActiveOfWorkspace ==
  ASSUME AdmissionInv, NEW w \in workspaces
  PROVE  ActiveProjects(w) = Active
<1>1. ActiveProjects(w) \subseteq Active
  BY DEF ActiveProjects, Active
<1>2. ASSUME NEW p \in Active PROVE p \in ActiveProjects(w)
  <2>1. p \in Project /\ projects[p] \in ProjectState /\ projects[p].status = "active"
        /\ projects[p].workspace = w
    BY DEF Active, AdmissionInv, AdmissionTypeInv, ProjectsInv, OneWorkspaceInv
  <2>2. projects[p] = [status |-> "active", workspace |-> w]
    BY <2>1 DEF ProjectState
  <2> QED BY <2>1, <2>2 DEF ActiveProjects
<1> QED BY <1>1, <1>2

\* The projects are counted under the lock of the workspace's row.
LEMMA CreateInv ==
  ASSUME AdmissionInv, NEW c \in Caller, CreateProject(c)
  PROVE  AdmissionInv'
<1> USE DEF AdmissionInv
<1>1. /\ call[c] \in CallState /\ call[c].at = "create" /\ Sound(call[c], workspaces)
      /\ UNCHANGED <<workspaces, now, windows, projects, admitted>>
  BY DEF CreateProject, CallIs, AdmissionTypeInv, OneWorkspaceInv
<1>2. call[c].workspace \in workspaces
  BY <1>1 DEF Sound
<1>3. CASE Refused(c)
  BY <1>1, <1>3, NoCallSound, CallMovesInv DEF Refused, Proceeds
<1>4. CASE /\ ~(Cardinality(ActiveProjects(call[c].workspace)) >= MaxProjects)
           /\ Proceeds(c, [call[c] EXCEPT !.at = "inserted"])
  <2> DEFINE s == [call[c] EXCEPT !.at = "inserted"]
  <2>1. s \in CallState /\ s.at = "inserted" /\ s.workspace = call[c].workspace
    BY <1>1 DEF CallState
  <2>2. call' = [call EXCEPT ![c] = s]
    BY <1>4 DEF Proceeds
  <2> HIDE DEF s
  <2>3. /\ call' \in [Caller -> CallState] /\ call'[c] = s
        /\ \A d \in Caller \ {c} : call'[d] = call[d]
    BY <2>1, <2>2, ProceedsSets
  <2>4. \A d \in Caller : call[d].at # "inserted"
    <3> SUFFICES ASSUME NEW d \in Caller, call[d].at = "inserted" PROVE FALSE
      OBVIOUS
    <3>1. call[d].workspace = call[c].workspace
      BY <1>2 DEF OneWorkspaceInv, Sound
    <3> QED BY <3>1 DEF CreateProject, Creating, CallIs
  <2>5. Cardinality(Active) < MaxProjects
    <3>1. Cardinality(Active) \in Nat /\ ActiveProjects(call[c].workspace) = Active
      BY <1>2, ActiveOfWorkspace, FS_CardinalityType DEF ProjectsInv
    <3> QED BY <1>4, <3>1, AdmissionAssumption
  <2>6. AdmissionTypeInv'
    BY <1>1, <2>3 DEF AdmissionTypeInv
  <2>7. OneWorkspaceInv'
    <3>1. Sound(s, workspaces)
      BY <1>2, <2>1 DEF Sound
    <3> QED BY <1>1, <2>3, <3>1 DEF OneWorkspaceInv
  <2>8. /\ \A w \in Window : Base(w)' = Base(w) /\ Total(w)' = Total(w)
        /\ Active' = Active
    BY <1>1 DEF Base, Total, Active
  <2>9. WindowInv'
    <3>1. \A w \in Window, d \in Caller : Holds(call'[d], w) => d # c /\ call'[d] = call[d]
      BY <2>1, <2>3 DEF Holds
    <3> QED BY <1>1, <2>8, <3>1 DEF WindowInv
  <2>10. ProjectsInv'
    BY <1>1, <2>3, <2>4, <2>5, <2>8 DEF ProjectsInv
  <2> QED BY <2>6, <2>7, <2>9, <2>10
<1> QED BY <1>3, <1>4 DEF CreateProject

\* A project is added where there is room for it.
LEMMA CommitProjectInv ==
  ASSUME AdmissionInv, NEW c \in Caller, CommitProject(c)
  PROVE  AdmissionInv'
<1> USE DEF AdmissionInv
<1>1. /\ call[c] \in CallState /\ call[c].at = "inserted" /\ call[c].workspace \in workspaces
      /\ UNCHANGED <<workspaces, now, windows, admitted>> /\ call' = [call EXCEPT ![c] = NoCall]
  BY DEF CommitProject, CallIs, Refused, Proceeds, AdmissionTypeInv, OneWorkspaceInv, Sound
<1> PICK new : new = [status |-> "active", workspace |-> call[c].workspace]
  OBVIOUS
<1>2. PICK p \in Project : projects[p] = NoProject /\ projects' = [projects EXCEPT ![p] = new]
  BY DEF CommitProject
<1>3. new \in ProjectState /\ new.status = "active" /\ new.workspace = call[c].workspace
  BY <1>1 DEF ProjectState, AdmissionTypeInv
<1>4. /\ projects' \in [Project -> ProjectState] /\ projects'[p] = new
      /\ \A q \in Project \ {p} : projects'[q] = projects[q]
  BY <1>2, <1>3 DEF AdmissionTypeInv
<1>5. /\ call' \in [Caller -> CallState] /\ call'[c] = NoCall
      /\ \A d \in Caller \ {c} : call'[d] = call[d]
  BY <1>1, NoCallSound, ProceedsSets
<1>6. AdmissionTypeInv'
  BY <1>1, <1>4, <1>5 DEF AdmissionTypeInv
<1>7. OneWorkspaceInv'
  BY <1>1, <1>5, NoCallSound DEF OneWorkspaceInv
<1>8. WindowInv'
  <2>1. \A w \in Window : Base(w)' = Base(w) /\ Total(w)' = Total(w)
    BY <1>1 DEF Base, Total
  <2>2. \A w \in Window, d \in Caller : Holds(call'[d], w) => d # c /\ call'[d] = call[d]
    BY <1>5, NoCallSound DEF Holds
  <2> QED BY <1>1, <2>1, <2>2 DEF WindowInv
<1>9. ProjectsInv'
  <2>1. p \notin Active /\ Active' = Active \cup {p}
    BY <1>2, <1>3, <1>4 DEF Active, NoProject
  <2>2. IsFiniteSet(Active \cup {p}) /\ Cardinality(Active \cup {p}) = Cardinality(Active) + 1
    BY <2>1, FS_AddElement DEF ProjectsInv
  <2>3. Cardinality(Active) \in Nat /\ Cardinality(Active) < MaxProjects
    BY <1>1, FS_CardinalityType DEF ProjectsInv
  <2>4. IsFiniteSet(Active') /\ Cardinality(Active') <= MaxProjects
    BY <2>1, <2>2, <2>3, AdmissionAssumption
  <2>5. \A d \in Caller : call'[d].at # "inserted"
    BY <1>1, <1>5, NoCallSound DEF ProjectsInv
  <2>6. \A q \in Active' : projects'[q].workspace \in workspaces
    BY <1>1, <1>3, <1>4, <2>1 DEF ProjectsInv, Active
  <2> QED BY <1>1, <2>4, <2>5, <2>6 DEF ProjectsInv
<1> QED BY <1>6, <1>7, <1>8, <1>9

\* A deletion makes room.
LEMMA DeleteProjectInv ==
  ASSUME AdmissionInv, NEW p \in Project, DeleteProject(p)
  PROVE  AdmissionInv'
<1> USE DEF AdmissionInv
<1>1. PICK status \in {"deleting", "gone"} : projects' = [projects EXCEPT ![p].status = status]
  BY DEF DeleteProject
<1> DEFINE new == [projects[p] EXCEPT !.status = status]
<1>2. new \in ProjectState /\ new.status # "active"
  BY DEF AdmissionTypeInv, ProjectState
<1>3. projects' = [projects EXCEPT ![p] = new]
  BY <1>1 DEF AdmissionTypeInv
<1> HIDE DEF new
<1>4. /\ projects' \in [Project -> ProjectState] /\ projects'[p] = new
      /\ \A q \in Project \ {p} : projects'[q] = projects[q]
  BY <1>2, <1>3 DEF AdmissionTypeInv
<1>5. /\ p \in Active /\ UNCHANGED <<workspaces, now, windows, call, admitted>>
  BY DEF DeleteProject, Active
<1>6. AdmissionTypeInv' /\ OneWorkspaceInv'
  BY <1>4, <1>5 DEF AdmissionTypeInv, OneWorkspaceInv
<1>7. WindowInv'
  <2>1. \A w \in Window : Base(w)' = Base(w) /\ Total(w)' = Total(w)
    BY <1>5 DEF Base, Total
  <2> QED BY <1>5, <2>1 DEF WindowInv
<1>8. ProjectsInv'
  <2>1. Active' = Active \ {p}
    BY <1>2, <1>4 DEF Active
  <2>2. IsFiniteSet(Active \ {p}) /\ Cardinality(Active \ {p}) = Cardinality(Active) - 1
    BY <1>5, FS_RemoveElement DEF ProjectsInv
  <2>3. Cardinality(Active) \in Nat
    BY FS_CardinalityType DEF ProjectsInv
  <2>4. \A q \in Active' : projects'[q].workspace \in workspaces
    BY <1>4, <2>1 DEF ProjectsInv, Active
  <2>5. Cardinality(Active') < MaxProjects
    <3>1. Cardinality(Active) <= MaxProjects
      BY DEF ProjectsInv
    <3> QED BY <2>1, <2>2, <2>3, <3>1, AdmissionAssumption
  <2>6. Cardinality(Active') <= MaxProjects
    BY <2>1, <2>2, <2>3, <2>5, AdmissionAssumption
  <2> QED BY <1>5, <2>1, <2>2, <2>4, <2>5, <2>6 DEF ProjectsInv
<1> QED BY <1>6, <1>7, <1>8

\* Every step keeps the invariant.
LEMMA AdmissionNextInv == AdmissionInv /\ [AdmissionNext]_admissionVars => AdmissionInv'
<1> SUFFICES ASSUME AdmissionInv, [AdmissionNext]_admissionVars PROVE AdmissionInv'
  OBVIOUS
<1>1. CASE UNCHANGED admissionVars
  BY <1>1 DEF admissionVars, AdmissionInv, AdmissionTypeInv, OneWorkspaceInv, WindowInv, ProjectsInv,
              Active, Base, Total
<1>2. CASE AdmissionNext
  BY <1>2, WaitingInv, UpsertInv, AnswerInv, AbandonInv, CreateInv, CommitProjectInv, DeleteProjectInv
     DEF AdmissionNext
<1> QED BY <1>1, <1>2

\* No teacher gets more than the limits, whichever requests overlap: what the guards let
\* through in a window, and the projects that are active (consume_rate, resolve_workspace,
\* create_project).
THEOREM LimitsAreKept == AdmissionSpec => []LimitsHold
<1>1. AdmissionSpec => []AdmissionInv
  BY AdmissionInitInv, AdmissionNextInv, PTL DEF AdmissionSpec
<1>2. AdmissionInv => LimitsHold
  BY DEF AdmissionInv, WindowInv, ProjectsInv, Active, LimitsHold
<1> QED BY <1>1, <1>2, PTL
=============================================================================
