---------------------------- MODULE ProductValidation ----------------------------
(***************************************************************************)
(* The review of a project's packages by an external teacher               *)
(* (product_validation/service.py, rubric.py, api/product_validation.py).  *)
(*                                                                         *)
(* An assignment fixes the package of an evaluation unit; the evidence of  *)
(* the evaluator and the document it came in are imported for it, one      *)
(* revision after the other, and decide its outcome.  An import inserts    *)
(* its row, stores the document and commits; the unique keys make it wait  *)
(* for an import of the same revision, and the row it supersedes for one   *)
(* that supersedes the same.  An assignment is stale when the package is   *)
(* no longer the one it fixed, which is computed when it is read.          *)
(*                                                                         *)
(* The package is a number: it changes with every version that is          *)
(* confirmed and every artifact that is replaced (external: the modules    *)
(* Confirmation and DeliveryExport have those).  Scores are kept as the    *)
(* outcome they give.                                                      *)
(***************************************************************************)
EXTENDS Integers, Sequences, FiniteSets

CONSTANTS
  Unit,        \* evaluation units
  Submission,   \* labels of submissions
  Evaluation,  \* requests that may be in flight
  MaxPackages, \* bound: packages
  MaxEvidence, \* bound: rows of evidence
  MaxDocuments \* bound: documents stored

ASSUME ValidationAssumption ==
  MaxPackages \in Nat \ {0} /\ MaxEvidence \in Nat /\ MaxDocuments \in Nat

Outcome == {"passed", "failed"}

VARIABLES
  package,     \* [number, complete]: the package of record
  assignments, \* ProductValidationAssignment rows
  evidence,    \* ProductValidationEvidence rows
  documents,   \* [stored, count]: the documents in the bucket, and how many were put so far
  evaluation,  \* evaluation[c]: a request
  stranded,    \* history: documents of requests that died, or whose put or cleanup failed
  crossing     \* history: assignments that two requests have worked on together

validationVars == <<package, assignments, evidence, documents, evaluation, stranded, crossing>>

NoEvaluation == [pc |-> "idle", unit |-> "none", a |-> 0, number |-> 0, revision |-> "none",
                 outcome |-> "none", prior |-> 0, state |-> "none", document |-> 0]

ValidationInit ==
  /\ package = [number |-> 1, complete |-> FALSE]
  /\ assignments = <<>>
  /\ evidence = <<>>
  /\ documents = [stored |-> {}, count |-> 0]
  /\ evaluation = [c \in Evaluation |-> NoEvaluation]
  /\ stranded = {}
  /\ crossing = {}

Evaluates(c, record) == evaluation' = [evaluation EXCEPT ![c] = record]
Evaluated(c) == Evaluates(c, NoEvaluation)
IsAt(c, pc) == evaluation[c].pc = pc

\* A request takes up assignment a, alone or beside another one.
TakesUp(c, record) ==
  /\ Evaluates(c, record)
  /\ crossing' = IF \E d \in Evaluation : evaluation[d].a = record.a
                   THEN crossing \cup {record.a} ELSE crossing

PackageChanges ==
  /\ \/ ~package.complete /\ package' = [package EXCEPT !.complete = TRUE]
     \/ /\ package.number < MaxPackages
        /\ \E complete \in BOOLEAN : package' = [number |-> package.number + 1, complete |-> complete]
  /\ UNCHANGED <<assignments, evidence, documents, evaluation, stranded, crossing>>

-----------------------------------------------------------------------------
(* create_assignment.                                                        *)

Fixed(u, number) ==
  {a \in DOMAIN assignments : assignments[a].unit = u /\ assignments[a].number = number}

ReadPackage(c, u) ==
  /\ IsAt(c, "idle")
  /\ package.complete
  /\ Fixed(u, package.number) = {}
  /\ Evaluates(c, [NoEvaluation EXCEPT !.pc = "fix", !.unit = u, !.number = package.number])
  /\ UNCHANGED <<package, assignments, evidence, documents, stranded, crossing>>

\* A second row for the unit and the package is refused by the key.
CreateAssignment(c) ==
  /\ IsAt(c, "fix")
  /\ LET j == evaluation[c] IN
       assignments' = IF Fixed(j.unit, j.number) # {} THEN assignments
                      ELSE Append(assignments, [unit |-> j.unit, number |-> j.number,
                                                state |-> "pending_evidence"])
  /\ Evaluated(c)
  /\ UNCHANGED <<package, evidence, documents, stranded, crossing>>

-----------------------------------------------------------------------------
(* import_evidence.                                                          *)

Superseded(a) == assignments[a].number # package.number
Current(a) == {e \in DOMAIN evidence : evidence[e].a = a /\ evidence[e].status = "current"}
OfRevision(a, revision) ==
  {e \in DOMAIN evidence : evidence[e].a = a /\ evidence[e].revision = revision}

ReadAssignment(c, a, revision) ==
  /\ IsAt(c, "idle")
  /\ ~Superseded(a)
  /\ OfRevision(a, revision) = {}
  /\ Len(evidence) < MaxEvidence
  /\ \E outcome \in Outcome, prior \in IF Current(a) = {} THEN {0} ELSE Current(a) :
       TakesUp(c, [NoEvaluation EXCEPT !.pc = "insert", !.a = a, !.revision = revision, !.prior = prior,
                                       !.outcome = outcome, !.state = assignments[a].state])
  /\ UNCHANGED <<package, assignments, evidence, documents, stranded>>

\* Mutant: the document is stored although the row is not inserted yet.
StoreUninserted(c) ==
  /\ IsAt(c, "insert")
  /\ documents.count < MaxDocuments
  /\ documents' = [stored |-> documents.stored \cup {documents.count + 1},
                   count |-> documents.count + 1]
  /\ IF OfRevision(evaluation[c].a, evaluation[c].revision) # {} THEN Evaluated(c)
     ELSE Evaluates(c, [evaluation[c] EXCEPT !.pc = "commit", !.document = documents.count + 1])
  /\ UNCHANGED <<package, assignments, evidence, stranded, crossing>>

Inserted == {c \in Evaluation : evaluation[c].pc \in {"store", "commit"}}

InsertEvidence(c) ==
  /\ IsAt(c, "insert")
  /\ LET j == evaluation[c] IN
       /\ \A d \in Inserted : LET k == evaluation[d] IN
            /\ <<k.a, k.revision>> # <<j.a, j.revision>>
            /\ j.prior # 0 => k.prior # j.prior
       /\ IF OfRevision(j.a, j.revision) # {} THEN Evaluated(c)
          ELSE Evaluates(c, [j EXCEPT !.pc = "store"])
  /\ UNCHANGED <<package, assignments, evidence, documents, stranded, crossing>>

Stores ==
  /\ documents.count < MaxDocuments
  /\ documents' = [stored |-> documents.stored \cup {documents.count + 1},
                   count |-> documents.count + 1]

Put(c) ==
  /\ Stores
  /\ Evaluates(c, [evaluation[c] EXCEPT !.pc = "commit", !.document = documents.count + 1])
  /\ UNCHANGED stranded

\* A put that is reported failed after it stored the document. Only the commit is cleaned up.
PutFails(c) ==
  /\ Stores
  /\ Evaluated(c)
  /\ stranded' = stranded \cup {documents.count + 1}

\* A document that is not accepted rolls the insert back, and so does a put that fails.
StoreDocument(c) ==
  /\ IsAt(c, "store")
  /\ \/ Put(c) \/ PutFails(c)
     \/ Evaluated(c) /\ UNCHANGED <<documents, stranded>>
  /\ UNCHANGED <<package, assignments, evidence, crossing>>

\* Mutant: the revision before stays current.
ImportBeside(c) ==
  /\ IsAt(c, "commit")
  /\ LET j == evaluation[c] IN
       /\ evidence' = Append(evidence, [a |-> j.a, revision |-> j.revision, outcome |-> j.outcome,
                                        status |-> "current", document |-> j.document])
       /\ assignments' = [assignments EXCEPT ![j.a].state = j.outcome]
  /\ Evaluated(c)
  /\ UNCHANGED <<package, documents, stranded, crossing>>

\* The outcome is written where it differs from the state that was read.
CommitEvidence(c) ==
  /\ IsAt(c, "commit")
  /\ LET j == evaluation[c]
         row == [a |-> j.a, revision |-> j.revision, outcome |-> j.outcome,
                 status |-> "current", document |-> j.document]
     IN /\ evidence' = Append(IF j.prior = 0 THEN evidence
                              ELSE [evidence EXCEPT ![j.prior].status = "superseded"], row)
        /\ assignments' = IF j.state = j.outcome THEN assignments
                          ELSE [assignments EXCEPT ![j.a].state = j.outcome]
  /\ Evaluated(c)
  /\ UNCHANGED <<package, documents, stranded, crossing>>

\* The commit fails and the document is deleted again, or the process dies before.
ImportFails(c) ==
  /\ IsAt(c, "commit")
  /\ \/ /\ documents' = [documents EXCEPT !.stored = @ \ {evaluation[c].document}]
        /\ UNCHANGED stranded
     \/ /\ stranded' = stranded \cup {evaluation[c].document}
        /\ UNCHANGED documents
  /\ Evaluated(c)
  /\ UNCHANGED <<package, assignments, evidence, crossing>>

-----------------------------------------------------------------------------
(* conclude_not_complete.                                                    *)

ReadPending(c, a) ==
  /\ IsAt(c, "idle")
  /\ assignments[a].state = "pending_evidence"
  /\ TakesUp(c, [NoEvaluation EXCEPT !.pc = "conclude", !.a = a])
  /\ UNCHANGED <<package, assignments, evidence, documents, stranded>>

Conclude(c) ==
  /\ IsAt(c, "conclude")
  /\ assignments' = [assignments EXCEPT ![evaluation[c].a].state = "not_complete"]
  /\ Evaluated(c)
  /\ UNCHANGED <<package, evidence, documents, stranded, crossing>>

\* The endpoints of api/product_validation.py.
AssignmentRequest(c) == CreateAssignment(c) \/ \E u \in Unit : ReadPackage(c, u)
EvidenceRequest(c) ==
  \/ \E a \in DOMAIN assignments, revision \in Submission : ReadAssignment(c, a, revision)
  \/ InsertEvidence(c) \/ StoreDocument(c) \/ CommitEvidence(c) \/ ImportFails(c)
ConclusionRequest(c) == Conclude(c) \/ \E a \in DOMAIN assignments : ReadPending(c, a)

ValidationNext ==
  \/ PackageChanges
  \/ \E c \in Evaluation : AssignmentRequest(c) \/ EvidenceRequest(c) \/ ConclusionRequest(c)

ValidationSpec == ValidationInit /\ [][ValidationNext]_validationVars

-----------------------------------------------------------------------------
(* What a project shows: derive_overall_status.                              *)

DisplayState(a) == IF Superseded(a) THEN "stale" ELSE assignments[a].state

Newest == {a \in DOMAIN assignments :
             \A b \in DOMAIN assignments : assignments[b].unit = assignments[a].unit => b <= a}

OverallStatus ==
  LET states == {DisplayState(a) : a \in Newest}
  IN CASE states = {} -> "not_evaluated"
       [] "failed" \in states -> "failed"
       [] states \cap {"not_complete", "stale"} # {} -> "not_complete"
       [] "pending_evidence" \in states -> "in_progress"
       [] OTHER -> "passed"

-----------------------------------------------------------------------------
(* Properties                                                                *)

\* The outcome of an assignment is that of its one current revision of evidence, and a
\* project is shown as passed only when that of every unit is and was given for the package
\* of record, unless requests for one assignment overlapped (import_evidence,
\* conclude_not_complete, derive_overall_status).
OutcomeIsEarned ==
  /\ \A a \in DOMAIN assignments \ crossing :
       {evidence[e].outcome : e \in Current(a)} =
         IF assignments[a].state \in Outcome THEN {assignments[a].state} ELSE {}
  /\ OverallStatus = "passed" =>
       \A a \in Newest \ crossing :
         /\ assignments[a].number = package.number
         /\ \E e \in DOMAIN evidence : Current(a) = {e} /\ evidence[e].outcome = "passed"

\* The evaluator's private documents belong to a row or to the request that stores one, and
\* every row has its document, whoever imports the same revision at the same time; only a
\* request that dies, whose put fails after storing, or whose commit and cleanup both fail
\* leaves one behind (service.py: "Flush first so identity collisions surface before any
\* private object is stored").
DocumentsAreOwned ==
  /\ {evidence[e].document : e \in DOMAIN evidence} \subseteq documents.stored
  /\ documents.stored \subseteq stranded \cup {evidence[e].document : e \in DOMAIN evidence}
                                         \cup {evaluation[c].document : c \in Evaluation}

=============================================================================
