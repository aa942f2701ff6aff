------------------------------ MODULE TeacherMemory ------------------------------
(***************************************************************************)
(* The memory of a teacher's workspace (teacher_memory/service.py,         *)
(* teacher_memory/context.py, api/memory.py, worker.py).                   *)
(*                                                                         *)
(* A confirmation or a settled run schedules a pass; a worker asks the     *)
(* model for proposals and stores those that are new; the teacher confirms *)
(* a proposal into a record or rejects it, edits, deletes and disables     *)
(* records; a run takes the records that apply to it when it begins.       *)
(* Only the confirmation takes a lock, that of the workspace's row.        *)
(*                                                                         *)
(* The model has one category: proposals and records of different          *)
(* categories meet in the number of records only, and there a content is   *)
(* as good as a category.  A record is known by its content, whose         *)
(* identity is unique.                                                     *)
(***************************************************************************)
EXTENDS Integers, Sequences, FiniteSets

CONSTANTS
  Content,       \* normalised contents
  Trigger,       \* confirmed versions and settled runs that schedule a pass
  PassWorker,    \* workers that execute passes
  Teacher,       \* requests that decide proposals
  Reader,        \* tasks of one run
  MaxRecords,    \* records of a workspace
  MaxCandidates, \* proposals of a pass
  MaxExecutions  \* bound: executions of passes

ASSUME MemoryAssumption == MaxRecords \in Nat /\ MaxCandidates \in Nat /\ MaxExecutions \in Nat

VARIABLES
  records,    \* contents of the MemoryRecord rows
  disabled,   \* contents of the records that an override disables for the project
  proposals,  \* MemoryProposal rows; a row that is deleted keeps its place
  passes,     \* passes[t]: the status of the MemoryPass of trigger t, or "none"
  sent,       \* executions so far, and tasks on their way: pairs of number and trigger
  executor,   \* executor[w]: an execution of a pass
  decision,   \* decision[c]: a confirmation or rejection
  applied,    \* "memory.applied" events of the run
  reader,     \* reader[r]: a task that attaches the memory to the run
  contexts,   \* history: the contexts the tasks of the run have worked with
  together    \* history: two tasks of the run have attached the memory together

memoryPasses == <<proposals, passes, sent, executor>>
memoryRun == <<applied, reader, contexts, together>>
memoryVars == <<records, disabled, memoryPasses, decision, memoryRun>>

NoExecution == [pc |-> "idle", trigger |-> "none", blocked |-> {}, old |-> 0]
NoDecision == [pc |-> "idle", proposal |-> 0, used |-> {}]
NoAttach == [pc |-> "idle", context |-> {}]

MemoryInit ==
  /\ records = {}
  /\ disabled = {}
  /\ proposals = <<>>
  /\ passes = [t \in Trigger |-> "none"]
  /\ sent = [count |-> 0, tasks |-> {}]
  /\ executor = [w \in PassWorker |-> NoExecution]
  /\ decision = [c \in Teacher |-> NoDecision]
  /\ applied = <<>>
  /\ reader = [r \in Reader |-> NoAttach]
  /\ contexts = {}
  /\ together = FALSE

With(status) == {i \in DOMAIN proposals : proposals[i].status = status}
ContentsOf(rows) == {proposals[i].content : i \in rows}

-----------------------------------------------------------------------------
(* Passes.                                                                   *)

Send(t) ==
  /\ sent.count < MaxExecutions
  /\ sent' = [count |-> sent.count + 1, tasks |-> sent.tasks \cup {<<sent.count, t>>}]

\* schedule_pass: one row for a trigger.  The task is sent after the commit, or not at all
\* when the process dies between the two.
SchedulePass(t) ==
  /\ passes[t] = "none"
  /\ passes' = [passes EXCEPT ![t] = "scheduled"]
  /\ Send(t) \/ UNCHANGED sent
  /\ UNCHANGED <<records, disabled, proposals, executor, decision, memoryRun>>

RetryPass(t) ==
  /\ passes[t] = "failed"
  /\ Send(t)
  /\ UNCHANGED <<records, disabled, proposals, passes, executor, decision, memoryRun>>

Executes(w, record) == executor' = [executor EXCEPT ![w] = record]

ExecutePass(w) ==
  /\ executor[w].pc = "idle"
  /\ \E task \in sent.tasks :
       /\ sent' = [sent EXCEPT !.tasks = @ \ {task}]
       /\ IF passes[task[2]] = "completed"
            THEN UNCHANGED <<passes, executor>>
            ELSE /\ passes' = [passes EXCEPT ![task[2]] = "running"]
                 /\ Executes(w, [NoExecution EXCEPT !.pc = "call", !.trigger = task[2]])
  /\ UNCHANGED <<records, disabled, proposals, decision, memoryRun>>

PassFails(w) ==
  /\ executor[w].pc = "call"
  /\ passes' = [passes EXCEPT ![executor[w].trigger] = "failed"]
  /\ Executes(w, NoExecution)
  /\ UNCHANGED <<records, disabled, proposals, sent, decision, memoryRun>>

\* Any other error, and a crash, leave the pass running.
PassDies(w) ==
  /\ executor[w].pc # "idle"
  /\ Executes(w, NoExecution)
  /\ UNCHANGED <<records, disabled, proposals, passes, sent, decision, memoryRun>>

\* _persist_proposals reads what it must not propose again and the proposal that is pending.
ReadBlocked(w) ==
  /\ executor[w].pc = "call"
  /\ \E old \in IF With("pending") = {} THEN {0} ELSE With("pending") :
       Executes(w, [executor[w] EXCEPT !.pc = "persist", !.old = old,
                      !.blocked = records \cup ContentsOf(With("pending") \cup With("rejected"))])
  /\ UNCHANGED <<records, disabled, proposals, passes, sent, decision, memoryRun>>

\* The session flushes at the end: each candidate supersedes the same old proposal, and
\* none of them the one before it.
PersistProposals(w) ==
  /\ executor[w].pc = "persist"
  /\ LET j == executor[w]
         kept == IF j.old = 0 THEN proposals ELSE [proposals EXCEPT ![j.old].status = "superseded"]
         Added(content) == [content |-> content, status |-> "pending"]
     IN \/ UNCHANGED proposals
        \/ /\ j.old # 0 => proposals[j.old].status # "deleted"
           /\ \E x \in Content \ j.blocked :
                \/ proposals' = Append(kept, Added(x))
                \/ /\ MaxCandidates > 1
                   /\ \E y \in Content \ (j.blocked \cup {x}) :
                        proposals' = kept \o <<Added(x), Added(y)>>
  /\ passes' = [passes EXCEPT ![executor[w].trigger] = "completed"]
  /\ Executes(w, NoExecution)
  /\ UNCHANGED <<records, disabled, sent, decision, memoryRun>>

-----------------------------------------------------------------------------
(* The teacher.                                                              *)

Decides(c, record) == decision' = [decision EXCEPT ![c] = record]

ReadProposal(c) ==
  /\ decision[c].pc = "idle"
  /\ \E p \in With("pending"), pc \in {"confirm", "reject"} :
       Decides(c, [NoDecision EXCEPT !.pc = pc, !.proposal = p])
  /\ UNCHANGED <<records, disabled, memoryPasses, memoryRun>>

\* Mutant: the records are counted without the lock.
CountUnlocked(c) ==
  /\ decision[c].pc = "confirm"
  /\ Decides(c, [decision[c] EXCEPT !.pc = "locked", !.used = records])
  /\ UNCHANGED <<records, disabled, memoryPasses, memoryRun>>

\* The lock of the workspace's row is held until the commit.
LockAndCount(c) ==
  /\ decision[c].pc = "confirm"
  /\ \A d \in Teacher : decision[d].pc # "locked"
  /\ Decides(c, [decision[c] EXCEPT !.pc = "locked", !.used = records])
  /\ UNCHANGED <<records, disabled, memoryPasses, memoryRun>>

Decided(c, status) ==
  /\ proposals[decision[c].proposal].status # "deleted"
  /\ proposals' = [proposals EXCEPT ![decision[c].proposal].status = status]

\* The proposal is confirmed as it is or with a text of the teacher's; an identical record
\* is enough, and beyond the limit or against the unique key nothing happens.
ConfirmProposal(c) ==
  /\ decision[c].pc = "locked"
  /\ \/ \E x \in decision[c].used : Decided(c, "confirmed") /\ UNCHANGED records
     \/ /\ Cardinality(decision[c].used) < MaxRecords
        /\ \E x \in Content \ (decision[c].used \cup records) : records' = records \cup {x}
        /\ Decided(c, "confirmed")
     \/ UNCHANGED <<records, proposals>>
  /\ Decides(c, NoDecision)
  /\ UNCHANGED <<disabled, passes, sent, executor, memoryRun>>

RejectProposal(c) ==
  /\ decision[c].pc = "reject"
  /\ Decided(c, "rejected") \/ UNCHANGED proposals
  /\ Decides(c, NoDecision)
  /\ UNCHANGED <<records, disabled, passes, sent, executor, memoryRun>>

\* The override belongs to the record and not to its text.
EditRecord(x, y) ==
  /\ x \in records /\ y \notin records
  /\ records' = (records \ {x}) \cup {y}
  /\ disabled' = IF x \in disabled THEN (disabled \ {x}) \cup {y} ELSE disabled
  /\ UNCHANGED <<memoryPasses, decision, memoryRun>>

\* The overrides and the identical pending proposals go with the record.
DeleteRecord(x) ==
  /\ x \in records
  /\ records' = records \ {x}
  /\ disabled' = disabled \ {x}
  /\ proposals' = [i \in DOMAIN proposals |->
                     IF proposals[i] = [content |-> x, status |-> "pending"]
                       THEN [proposals[i] EXCEPT !.status = "deleted"] ELSE proposals[i]]
  /\ UNCHANGED <<passes, sent, executor, decision, memoryRun>>

SetOverride(x) ==
  /\ x \in records
  /\ \E changed \in {disabled \cup {x}, disabled \ {x}} : disabled' = changed
  /\ UNCHANGED <<records, memoryPasses, decision, memoryRun>>

-----------------------------------------------------------------------------
(* attach_run_memory, which every task of a run calls when it begins.        *)

Reads(r, record) == reader' = [reader EXCEPT ![r] = record]

WorksWith(r, context) ==
  /\ contexts' = contexts \cup {context}
  /\ Reads(r, NoAttach)

\* Mutant: the records are read again by every task.
AttachAnew(r) ==
  /\ reader[r].pc = "idle"
  /\ Len(applied) < Cardinality(Reader)
  /\ Reads(r, [pc |-> "attach", context |-> records \ disabled])
  /\ together' = (together \/ \E s \in Reader : reader[s].pc = "attach")
  /\ UNCHANGED <<records, disabled, memoryPasses, decision, applied, contexts>>

\* The newest event counts; without one the records are read.
AttachMemory(r) ==
  /\ reader[r].pc = "idle"
  /\ IF applied # <<>>
       THEN WorksWith(r, applied[Len(applied)]) /\ UNCHANGED together
       ELSE /\ Reads(r, [pc |-> "attach", context |-> records \ disabled])
            /\ together' = (together \/ \E s \in Reader : reader[s].pc = "attach")
            /\ UNCHANGED contexts
  /\ UNCHANGED <<records, disabled, memoryPasses, decision, applied>>

AttachCommit(r) ==
  /\ reader[r].pc = "attach"
  /\ applied' = Append(applied, reader[r].context)
  /\ WorksWith(r, reader[r].context)
  /\ UNCHANGED <<records, disabled, memoryPasses, decision, together>>

PassTask(w) ==
  \/ ExecutePass(w) \/ PassFails(w) \/ PassDies(w)
  \/ ReadBlocked(w) \/ PersistProposals(w)
\* The endpoints of api/memory.py for proposals and for records.
ProposalRequest(c) ==
  ReadProposal(c) \/ LockAndCount(c) \/ ConfirmProposal(c) \/ RejectProposal(c)
RecordRequest(x) == DeleteRecord(x) \/ SetOverride(x) \/ \E y \in Content : EditRecord(x, y)

MemoryNext ==
  \/ \E t \in Trigger : SchedulePass(t) \/ RetryPass(t)
  \/ \E w \in PassWorker : PassTask(w)
  \/ \E c \in Teacher : ProposalRequest(c)
  \/ \E x \in Content : RecordRequest(x)
  \/ \E r \in Reader : AttachMemory(r) \/ AttachCommit(r)

MemorySpec == MemoryInit /\ [][MemoryNext]_memoryVars

-----------------------------------------------------------------------------
(* Properties                                                                *)

\* Confirmations that race for the last record never exceed the limit, whatever is edited
\* and deleted meanwhile, and an override never outlives its record
\* (confirm_proposal, delete_record).
RecordsWithinCap == Cardinality(records) <= MaxRecords /\ disabled \subseteq records

\* Every task of a run works with the memory the first one attached, however the records
\* change between a failure and the retry, unless two tasks attached it together
\* (attach_run_memory: snapshot-once).
ContextIsKept == together \/ Cardinality(contexts) <= 1
=============================================================================
