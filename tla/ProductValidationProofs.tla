------------------------ MODULE ProductValidationProofs ------------------------
(***************************************************************************)
(* Proofs about ProductValidation for every value of its constants.        *)
(***************************************************************************)
EXTENDS ProductValidation, FiniteSetTheorems, TLAPS

AssignmentState == Outcome \cup {"pending_evidence", "not_complete"}

AssignmentRow == [unit : Unit, number : Nat, state : AssignmentState]
EvidenceRow == [a : Nat, revision : Submission, outcome : Outcome,
                status : {"current", "superseded"}, document : Nat]
EvaluationState ==
  [pc : {"idle", "fix", "insert", "store", "commit", "conclude"}, unit : Unit \cup {"none"}, a : Nat,
   number : Nat, revision : Submission \cup {"none"}, outcome : Outcome \cup {"none"}, prior : Nat,
   state : AssignmentState \cup {"none"}, document : Nat]

ValidationTypeInv ==
  /\ package \in [number : Nat, complete : BOOLEAN]
  /\ assignments \in Seq(AssignmentRow)
  /\ evidence \in Seq(EvidenceRow)
  /\ documents \in [stored : SUBSET Nat, count : Nat]
  /\ evaluation \in [Evaluation -> EvaluationState]

Importing == {"insert", "store", "commit"}

\* Evidence and requests are about an assignment that is there, and what an import supersedes
\* is about the same one.
RequestInv ==
  /\ \A e \in DOMAIN evidence : evidence[e].a \in DOMAIN assignments
  /\ \A c \in Evaluation : LET j == evaluation[c] IN
       /\ IF j.pc \in {"idle", "fix"} THEN j.a = 0 ELSE j.a \in DOMAIN assignments
       /\ j.pc = "fix" => j.unit \in Unit
       /\ j.pc \in Importing =>
            /\ j.outcome \in Outcome /\ j.revision \in Submission
            /\ j.prior = 0 \/ (j.prior \in DOMAIN evidence /\ evidence[j.prior].a = j.a)

\* A stored document has one owner.
DocumentInv ==
  /\ documents.stored \subseteq 1..documents.count
  /\ \A c \in Evaluation : IF evaluation[c].pc = "commit" THEN evaluation[c].document \in documents.stored
                           ELSE evaluation[c].document = 0
  /\ \A c, d \in Evaluation : evaluation[c].pc = "commit" /\ evaluation[c].document = evaluation[d].document
                                => c = d
  /\ \A c \in Evaluation, e \in DOMAIN evidence : evaluation[c].document # evidence[e].document
  /\ DocumentsAreOwned

\* An assignment that one request at a time works on has the state its one current evidence
\* gives, and that request knows both.
AssignmentInv(a) ==
  a \in crossing \/
    /\ \A c, d \in Evaluation : evaluation[c].a = a /\ evaluation[d].a = a => c = d
    /\ \A e, f \in Current(a) : e = f
    /\ \A e \in Current(a) : evidence[e].outcome = assignments[a].state
    /\ assignments[a].state \in Outcome => Current(a) # {}
    /\ \A c \in Evaluation : evaluation[c].a = a /\ evaluation[c].pc \in Importing =>
         /\ evaluation[c].state = assignments[a].state
         /\ IF Current(a) = {} THEN evaluation[c].prior = 0 ELSE evaluation[c].prior \in Current(a)
    /\ \A c \in Evaluation : evaluation[c].a = a /\ evaluation[c].pc = "conclude" => Current(a) = {}

ValidationInv ==
  /\ ValidationTypeInv /\ RequestInv /\ DocumentInv
  /\ \A a \in DOMAIN assignments : AssignmentInv(a)

USE ValidationAssumption

\* What a step of request c leaves alone.
LEMMA EvaluatesSets ==
  ASSUME ValidationTypeInv, NEW c \in Evaluation, NEW s \in EvaluationState,
         evaluation' = [evaluation EXCEPT ![c] = s]
  PROVE  /\ evaluation' \in [Evaluation -> EvaluationState]
         /\ evaluation'[c] = s
         /\ \A d \in Evaluation \ {c} : evaluation'[d] = evaluation[d]
BY DEF ValidationTypeInv

\* The tables in a form the provers can use.
LEMMA EvidenceTyped ==
  ASSUME ValidationTypeInv
  PROVE  /\ Len(evidence) \in Nat /\ DOMAIN evidence = 1..Len(evidence)
         /\ \A e \in DOMAIN evidence : evidence[e] \in EvidenceRow
         /\ Len(assignments) \in Nat /\ DOMAIN assignments = 1..Len(assignments)
         /\ \A a \in DOMAIN assignments : assignments[a] \in AssignmentRow
BY DEF ValidationTypeInv

\* An idle request is a request, and is about nothing.
LEMMA NoEvaluationTyped ==
  /\ NoEvaluation \in EvaluationState /\ NoEvaluation.pc = "idle" /\ NoEvaluation.a = 0
  /\ NoEvaluation.document = 0 /\ NoEvaluation.prior = 0
BY DEF NoEvaluation, EvaluationState

\* Initially nothing is assigned and nothing is stored.
LEMMA ValidationInitInv == ValidationInit => ValidationInv
<1> SUFFICES ASSUME ValidationInit PROVE ValidationInv
  OBVIOUS
<1>1. /\ package = [number |-> 1, complete |-> FALSE] /\ assignments = <<>> /\ evidence = <<>>
      /\ documents = [stored |-> {}, count |-> 0]
      /\ evaluation = [c \in Evaluation |-> NoEvaluation]
  BY DEF ValidationInit
<1>2. ValidationTypeInv
  BY <1>1, NoEvaluationTyped DEF ValidationTypeInv
<1>3. DOMAIN assignments = {} /\ DOMAIN evidence = {}
  BY <1>1
<1>4. RequestInv
  BY <1>1, <1>3, NoEvaluationTyped DEF RequestInv, Importing
<1>5. DocumentInv
  BY <1>1, <1>3, NoEvaluationTyped DEF DocumentInv, DocumentsAreOwned
<1> QED BY <1>2, <1>3, <1>4, <1>5 DEF ValidationInv

\* A request goes on with its import, or is over, and nothing is written to the tables.
LEMMA RequestMovesInv ==
  ASSUME ValidationInv, NEW c \in Evaluation, NEW s \in EvaluationState,
         evaluation' = [evaluation EXCEPT ![c] = s],
         UNCHANGED <<assignments, evidence, crossing>>,
         \/ s.pc = "idle" /\ s.a = 0
         \/ s.pc = "fix" /\ s.a = 0 /\ s.unit \in Unit
         \/ /\ s.pc \in Importing /\ evaluation[c].pc \in Importing
            /\ s.a = evaluation[c].a /\ s.prior = evaluation[c].prior
            /\ s.state = evaluation[c].state /\ s.outcome = evaluation[c].outcome
            /\ s.revision = evaluation[c].revision
  PROVE  RequestInv' /\ \A a \in DOMAIN assignments' : AssignmentInv(a)'
<1> USE DEF ValidationInv
<1>1. /\ evaluation' \in [Evaluation -> EvaluationState] /\ evaluation'[c] = s
      /\ \A d \in Evaluation \ {c} : evaluation'[d] = evaluation[d]
  BY EvaluatesSets
<1>2. \A d \in Evaluation : IF evaluation[d].pc \in {"idle", "fix"} THEN evaluation[d].a = 0
                            ELSE evaluation[d].a \in DOMAIN assignments
  BY DEF RequestInv
<1>3. 0 \notin DOMAIN assignments
  BY EvidenceTyped
<1>4. RequestInv'
  BY <1>1, <1>2 DEF RequestInv, Importing
<1>5. ASSUME NEW a \in DOMAIN assignments PROVE AssignmentInv(a)'
  <2>1. CASE a \in crossing
    BY <2>1 DEF AssignmentInv
  <2>2. CASE a \notin crossing
    <3>1. \A d \in Evaluation : evaluation'[d].a = a => evaluation[d].a = a
      BY <1>1, <1>3
    <3>2. \A d \in Evaluation : evaluation'[d].a = a /\ evaluation'[d].pc \in Importing =>
            /\ evaluation[d].pc \in Importing /\ evaluation'[d].prior = evaluation[d].prior
            /\ evaluation'[d].state = evaluation[d].state
      BY <1>1, <1>3 DEF Importing
    <3>3. \A d \in Evaluation : evaluation'[d].a = a /\ evaluation'[d].pc = "conclude" =>
            evaluation[d].pc = "conclude"
      BY <1>1, <1>3 DEF Importing
    <3>4. Current(a)' = Current(a)
      BY DEF Current
    <3> QED BY <2>2, <3>1, <3>2, <3>3, <3>4 DEF AssignmentInv
  <2> QED BY <2>1, <2>2
<1> QED BY <1>4, <1>5

\* A request that has no document before and after owns none.
LEMMA NoDocumentInv ==
  ASSUME ValidationInv, NEW c \in Evaluation, NEW s \in EvaluationState,
         evaluation' = [evaluation EXCEPT ![c] = s],
         evaluation[c].pc # "commit", s.pc # "commit", s.document = 0,
         UNCHANGED <<evidence, documents, stranded>>
  PROVE  DocumentInv'
<1> USE DEF ValidationInv
<1>1. /\ evaluation' \in [Evaluation -> EvaluationState] /\ evaluation'[c] = s
      /\ \A d \in Evaluation \ {c} : evaluation'[d] = evaluation[d]
  BY EvaluatesSets
<1>2. evaluation[c].document = 0
  BY DEF DocumentInv
<1>3. \A d \in Evaluation : evaluation'[d].document = evaluation[d].document
  BY <1>1, <1>2
<1>4. \A d \in Evaluation : evaluation'[d].pc = "commit" <=> evaluation[d].pc = "commit"
  BY <1>1
<1>5. DocumentsAreOwned'
  BY <1>3 DEF DocumentInv, DocumentsAreOwned
<1> QED BY <1>3, <1>4, <1>5 DEF DocumentInv

\* A package that changes, and a request that fixes one, touch no evidence.
LEMMA PackageInv ==
  ASSUME ValidationInv, PackageChanges \/ \E c \in Evaluation, u \in Unit : ReadPackage(c, u)
  PROVE  ValidationInv'
<1> USE DEF ValidationInv
<1>1. CASE PackageChanges
  <2>1. package' \in [number : Nat, complete : BOOLEAN]
    <3>1. package \in [number : Nat, complete : BOOLEAN]
      BY DEF ValidationTypeInv
    <3>2. CASE package' = [package EXCEPT !.complete = TRUE]
      BY <3>1, <3>2
    <3>3. CASE \E complete \in BOOLEAN : package' = [number |-> package.number + 1, complete |-> complete]
      BY <3>1, <3>3
    <3> QED BY <1>1, <3>2, <3>3 DEF PackageChanges
  <2>2. UNCHANGED <<assignments, evidence, documents, evaluation, stranded, crossing>>
    BY <1>1 DEF PackageChanges
  <2> QED BY <2>1, <2>2 DEF ValidationTypeInv, RequestInv, DocumentInv, DocumentsAreOwned, AssignmentInv, Current
<1>2. ASSUME NEW c \in Evaluation, NEW u \in Unit, ReadPackage(c, u)
      PROVE  ValidationInv'
  <2> DEFINE s == [NoEvaluation EXCEPT !.pc = "fix", !.unit = u, !.number = package.number]
  <2>1. /\ UNCHANGED <<package, assignments, evidence, documents, stranded, crossing>>
        /\ evaluation' = [evaluation EXCEPT ![c] = s] /\ evaluation[c].pc = "idle"
    BY <1>2 DEF ReadPackage, Evaluates, IsAt
  <2>2. s \in EvaluationState /\ s.pc = "fix" /\ s.a = 0 /\ s.document = 0 /\ s.unit = u
    <3>1. package.number \in Nat
      BY DEF ValidationTypeInv
    <3> QED BY <3>1 DEF NoEvaluation, EvaluationState
  <2> HIDE DEF s
  <2>3. ValidationTypeInv'
    BY <2>1, <2>2, EvaluatesSets DEF ValidationTypeInv
  <2>4. RequestInv' /\ \A a \in DOMAIN assignments' : AssignmentInv(a)'
    BY <2>1, <2>2, RequestMovesInv
  <2>5. DocumentInv'
    BY <2>1, <2>2, NoDocumentInv
  <2> QED BY <2>3, <2>4, <2>5
<1> QED BY <1>1, <1>2

\* A new assignment has no evidence, and nobody works on it.
LEMMA CreateAssignmentInv ==
  ASSUME ValidationInv, NEW c \in Evaluation, CreateAssignment(c)
  PROVE  ValidationInv'
<1> USE DEF ValidationInv
<1>1. /\ UNCHANGED <<package, evidence, documents, stranded, crossing>> /\ evaluation[c].pc = "fix"
      /\ evaluation' = [evaluation EXCEPT ![c] = NoEvaluation]
  BY DEF CreateAssignment, Evaluated, Evaluates, IsAt
<1>2. /\ evaluation' \in [Evaluation -> EvaluationState] /\ evaluation'[c] = NoEvaluation
      /\ \A d \in Evaluation \ {c} : evaluation'[d] = evaluation[d]
  BY <1>1, NoEvaluationTyped, EvaluatesSets
<1>3. DocumentInv'
  BY <1>1, NoEvaluationTyped, NoDocumentInv
<1>4. CASE assignments' = assignments
  <2>1. ValidationTypeInv'
    BY <1>1, <1>2, <1>4 DEF ValidationTypeInv
  <2>2. RequestInv' /\ \A a \in DOMAIN assignments' : AssignmentInv(a)'
    BY <1>1, <1>4, NoEvaluationTyped, RequestMovesInv
  <2> QED BY <1>3, <2>1, <2>2
<1>5. ASSUME NEW row \in AssignmentRow, assignments' = Append(assignments, row), row.state = "pending_evidence"
      PROVE  ValidationInv'
  <2> PICK n \in Nat : n = Len(assignments) + 1
    BY EvidenceTyped
  <2>1. /\ assignments' \in Seq(AssignmentRow) /\ DOMAIN assignments = 1..(n - 1)
        /\ DOMAIN assignments' = 1..n /\ assignments'[n] = row
        /\ \A a \in DOMAIN assignments : assignments'[a] = assignments[a]
    BY <1>5 DEF ValidationTypeInv
  <2>2. ValidationTypeInv'
    BY <1>1, <1>2, <2>1 DEF ValidationTypeInv
  <2>3. \A d \in Evaluation : /\ evaluation'[d].a = evaluation[d].a
                              /\ evaluation[d].a # n
    <3>1. evaluation[c].a = 0
      BY <1>1 DEF RequestInv
    <3>2. \A d \in Evaluation : evaluation[d].a \in {0} \cup DOMAIN assignments
      BY DEF RequestInv
    <3> QED BY <1>2, <2>1, <3>1, <3>2, NoEvaluationTyped
  <2>4. \A d \in Evaluation : d = c \/ evaluation'[d] = evaluation[d]
    BY <1>2
  <2>5. DOMAIN assignments \subseteq DOMAIN assignments'
    BY <2>1
  <2>6. RequestInv'
    <3>1. \A e \in DOMAIN evidence : evidence[e].a \in DOMAIN assignments'
      BY <2>5 DEF RequestInv
    <3>2. ASSUME NEW d \in Evaluation
          PROVE  LET j == evaluation'[d] IN
                   /\ IF j.pc \in {"idle", "fix"} THEN j.a = 0 ELSE j.a \in DOMAIN assignments'
                   /\ j.pc = "fix" => j.unit \in Unit
                   /\ j.pc \in Importing =>
                        /\ j.outcome \in Outcome /\ j.revision \in Submission
                        /\ j.prior = 0 \/ (j.prior \in DOMAIN evidence /\ evidence[j.prior].a = j.a)
      <4>1. CASE d = c
        BY <1>2, <4>1, NoEvaluationTyped DEF Importing
      <4>2. CASE d # c
        BY <2>4, <2>5, <4>2 DEF RequestInv
      <4> QED BY <4>1, <4>2
    <3> QED BY <1>1, <3>1, <3>2 DEF RequestInv
  <2>7. \A a : Current(a)' = Current(a)
    BY <1>1 DEF Current
  <2>8. Current(n) = {}
    <3>1. n \notin DOMAIN assignments
      BY <2>1
    <3> QED BY <3>1 DEF Current, RequestInv
  <2>9. ASSUME NEW a \in DOMAIN assignments' PROVE AssignmentInv(a)'
    <3>1. CASE a = n
      <4>1. assignments'[a].state \notin Outcome
        BY <1>5, <2>1, <3>1 DEF Outcome
      <4> QED BY <2>3, <2>7, <2>8, <3>1, <4>1 DEF AssignmentInv
    <3>2. CASE a # n
      <4>1. a \in DOMAIN assignments /\ assignments'[a] = assignments[a]
        BY <2>1, <3>2
      <4>2. \A d \in Evaluation : evaluation'[d].a = a => evaluation'[d] = evaluation[d]
        BY <1>2, <2>1, <4>1, NoEvaluationTyped
      <4> QED BY <1>1, <2>3, <2>7, <4>1, <4>2 DEF AssignmentInv
    <3> QED BY <3>1, <3>2
  <2> QED BY <1>3, <2>2, <2>6, <2>9
<1>6. \/ assignments' = assignments
      \/ \E row \in AssignmentRow : row.state = "pending_evidence" /\ assignments' = Append(assignments, row)
  <2> DEFINE row == [unit |-> evaluation[c].unit, number |-> evaluation[c].number, state |-> "pending_evidence"]
  <2>1. assignments' = assignments \/ assignments' = Append(assignments, row)
    BY DEF CreateAssignment
  <2>2. row \in AssignmentRow /\ row.state = "pending_evidence"
    <3>1. evaluation[c].unit \in Unit
      BY <1>1 DEF RequestInv
    <3>2. evaluation[c].number \in Nat
      BY DEF ValidationTypeInv, EvaluationState
    <3> QED BY <3>1, <3>2 DEF AssignmentRow, AssignmentState
  <2> HIDE DEF row
  <2> QED BY <2>1, <2>2
<1> QED BY <1>4, <1>5, <1>6

\* A request takes up an assignment: it is the only one, or they cross.
LEMMA TakeUpInv ==
  ASSUME ValidationInv, NEW c \in Evaluation, NEW s \in EvaluationState, evaluation[c].pc = "idle",
         evaluation' = [evaluation EXCEPT ![c] = s],
         crossing' = IF \E d \in Evaluation : evaluation[d].a = s.a THEN crossing \cup {s.a} ELSE crossing,
         UNCHANGED <<package, assignments, evidence, documents, stranded>>,
         s.pc \in {"insert", "conclude"}, s.a \in DOMAIN assignments, s.document = 0,
         s.pc = "insert" => /\ s.outcome \in Outcome /\ s.revision \in Submission
                            /\ s.state = assignments[s.a].state
                            /\ IF Current(s.a) = {} THEN s.prior = 0 ELSE s.prior \in Current(s.a),
         s.pc = "conclude" => assignments[s.a].state = "pending_evidence"
  PROVE  ValidationInv'
<1> USE DEF ValidationInv
<1>1. /\ evaluation' \in [Evaluation -> EvaluationState] /\ evaluation'[c] = s
      /\ \A d \in Evaluation \ {c} : evaluation'[d] = evaluation[d]
  BY EvaluatesSets
<1>2. ValidationTypeInv'
  BY <1>1 DEF ValidationTypeInv
<1>3. \A a : Current(a)' = Current(a)
  BY DEF Current
<1>4. RequestInv'
  <2>1. s.pc \in Importing => s.prior = 0 \/ (s.prior \in DOMAIN evidence /\ evidence[s.prior].a = s.a)
    BY DEF Importing, Current
  <2> QED BY <1>1, <2>1 DEF RequestInv, Importing
<1>5. DocumentInv'
  BY NoDocumentInv
<1>6. ASSUME NEW a \in DOMAIN assignments PROVE AssignmentInv(a)'
  <2>1. CASE a \in crossing'
    BY <2>1 DEF AssignmentInv
  <2>2. CASE a \notin crossing' /\ a = s.a
    <3>1. a \notin crossing /\ \A d \in Evaluation : evaluation[d].a # a
      BY <2>2
    <3>2. \A d \in Evaluation : evaluation'[d].a = a => d = c
      BY <1>1, <3>1
    <3>3. s.pc = "conclude" => Current(a) = {}
      <4> SUFFICES ASSUME s.pc = "conclude", NEW e \in Current(a) PROVE FALSE
        OBVIOUS
      <4>1. evidence[e].outcome \in Outcome
        BY EvidenceTyped DEF Current, EvidenceRow
      <4>2. evidence[e].outcome = "pending_evidence"
        BY <2>2, <3>1 DEF AssignmentInv
      <4> QED BY <4>1, <4>2 DEF Outcome
    <3> QED BY <1>1, <1>3, <2>2, <3>1, <3>2, <3>3 DEF AssignmentInv, Importing
  <2>3. CASE a \notin crossing' /\ a # s.a
    <3>1. a \notin crossing /\ \A d \in Evaluation : evaluation'[d].a = a => evaluation'[d] = evaluation[d]
      BY <1>1, <2>3
    <3> QED BY <1>3, <3>1 DEF AssignmentInv
  <2> QED BY <2>1, <2>2, <2>3
<1> QED BY <1>2, <1>4, <1>5, <1>6

\* An import reads the current evidence, a conclusion the state.
LEMMA ReadAssignmentInv ==
  ASSUME ValidationInv, NEW c \in Evaluation, NEW a \in DOMAIN assignments,
         ReadPending(c, a) \/ \E revision \in Submission : ReadAssignment(c, a, revision)
  PROVE  ValidationInv'
<1> USE DEF ValidationInv
<1>1. a \in Nat /\ assignments[a].state \in AssignmentState
  BY EvidenceTyped DEF AssignmentRow
<1>2. CASE ReadPending(c, a)
  <2> DEFINE s == [NoEvaluation EXCEPT !.pc = "conclude", !.a = a]
  <2>1. /\ s \in EvaluationState /\ s.pc = "conclude" /\ s.a = a /\ s.document = 0
    BY <1>1 DEF NoEvaluation, EvaluationState
  <2>2. /\ UNCHANGED <<package, assignments, evidence, documents, stranded>> /\ evaluation[c].pc = "idle"
        /\ evaluation' = [evaluation EXCEPT ![c] = s] /\ assignments[a].state = "pending_evidence"
        /\ crossing' = IF \E d \in Evaluation : evaluation[d].a = s.a THEN crossing \cup {s.a} ELSE crossing
    BY <1>2 DEF ReadPending, TakesUp, Evaluates, IsAt
  <2> HIDE DEF s
  <2> QED BY <2>1, <2>2, TakeUpInv
<1>3. ASSUME NEW revision \in Submission, ReadAssignment(c, a, revision)
      PROVE  ValidationInv'
  <2>1. PICK outcome \in Outcome, prior \in IF Current(a) = {} THEN {0} ELSE Current(a) :
          TakesUp(c, [NoEvaluation EXCEPT !.pc = "insert", !.a = a, !.revision = revision, !.prior = prior,
                                          !.outcome = outcome, !.state = assignments[a].state])
    BY <1>3 DEF ReadAssignment
  <2> DEFINE state == assignments[a].state
             s == [NoEvaluation EXCEPT !.pc = "insert", !.a = a, !.revision = revision, !.prior = prior,
                                       !.outcome = outcome, !.state = state]
  <2>2. prior \in Nat /\ state \in AssignmentState
    BY <1>1, EvidenceTyped DEF Current
  <2>3. /\ UNCHANGED <<package, assignments, evidence, documents, stranded>> /\ evaluation[c].pc = "idle"
        /\ evaluation' = [evaluation EXCEPT ![c] = s]
        /\ crossing' = IF \E d \in Evaluation : evaluation[d].a = s.a THEN crossing \cup {s.a} ELSE crossing
    BY <1>3, <2>1 DEF ReadAssignment, TakesUp, Evaluates, IsAt
  <2>4. state = assignments[a].state
    OBVIOUS
  <2> HIDE DEF state
  <2>5. /\ s \in EvaluationState /\ s.pc = "insert" /\ s.a = a /\ s.revision = revision /\ s.document = 0
        /\ s.prior = prior /\ s.outcome = outcome /\ s.state = state
    BY <1>1, <2>2 DEF NoEvaluation, EvaluationState
  <2> HIDE DEF s
  <2> QED BY <2>3, <2>4, <2>5, TakeUpInv
<1> QED BY <1>2, <1>3

\* The row of an import is inserted or refused.
LEMMA InsertInv ==
  ASSUME ValidationInv, NEW c \in Evaluation, InsertEvidence(c)
  PROVE  ValidationInv'
<1> USE DEF ValidationInv
<1> DEFINE s == [evaluation[c] EXCEPT !.pc = "store"]
<1>1. /\ evaluation[c].pc = "insert" /\ evaluation[c] \in EvaluationState /\ evaluation[c].document = 0
      /\ UNCHANGED <<package, assignments, evidence, documents, stranded, crossing>>
  BY DEF InsertEvidence, IsAt, ValidationTypeInv, DocumentInv
<1>2. /\ s \in EvaluationState /\ s.pc = "store" /\ s.a = evaluation[c].a /\ s.prior = evaluation[c].prior
      /\ s.state = evaluation[c].state /\ s.outcome = evaluation[c].outcome
      /\ s.revision = evaluation[c].revision /\ s.document = 0
  BY <1>1 DEF EvaluationState
<1>3. evaluation' = [evaluation EXCEPT ![c] = s] \/ evaluation' = [evaluation EXCEPT ![c] = NoEvaluation]
  BY DEF InsertEvidence, Evaluated, Evaluates
<1> HIDE DEF s
<1>4. CASE evaluation' = [evaluation EXCEPT ![c] = s]
  <2>1. ValidationTypeInv'
    BY <1>1, <1>2, <1>4, EvaluatesSets DEF ValidationTypeInv
  <2>2. RequestInv' /\ \A a \in DOMAIN assignments' : AssignmentInv(a)'
    BY <1>1, <1>2, <1>4, RequestMovesInv DEF Importing
  <2>3. DocumentInv'
    BY <1>1, <1>2, <1>4, NoDocumentInv
  <2> QED BY <2>1, <2>2, <2>3
<1>5. CASE evaluation' = [evaluation EXCEPT ![c] = NoEvaluation]
  <2>1. ValidationTypeInv'
    BY <1>1, <1>5, NoEvaluationTyped, EvaluatesSets DEF ValidationTypeInv
  <2>2. RequestInv' /\ \A a \in DOMAIN assignments' : AssignmentInv(a)'
    BY <1>1, <1>5, NoEvaluationTyped, RequestMovesInv
  <2>3. DocumentInv'
    BY <1>1, <1>5, NoEvaluationTyped, NoDocumentInv
  <2> QED BY <2>1, <2>2, <2>3
<1> QED BY <1>3, <1>4, <1>5

\* The document of an import is a new one.
LEMMA StoreInv ==
  ASSUME ValidationInv, NEW c \in Evaluation, StoreDocument(c)
  PROVE  ValidationInv'
<1> USE DEF ValidationInv
<1>1. /\ evaluation[c].pc = "store" /\ evaluation[c] \in EvaluationState /\ evaluation[c].document = 0
      /\ UNCHANGED <<package, assignments, evidence, crossing>>
  BY DEF StoreDocument, IsAt, ValidationTypeInv, DocumentInv
<1>2. CASE Evaluated(c) /\ UNCHANGED <<documents, stranded>>
  <2>0. evaluation' = [evaluation EXCEPT ![c] = NoEvaluation]
    BY <1>2 DEF Evaluated, Evaluates
  <2>1. ValidationTypeInv'
    BY <1>1, <1>2, <2>0, NoEvaluationTyped, EvaluatesSets DEF ValidationTypeInv
  <2>2. RequestInv' /\ \A a \in DOMAIN assignments' : AssignmentInv(a)'
    BY <1>1, <2>0, NoEvaluationTyped, RequestMovesInv
  <2>3. DocumentInv'
    BY <1>1, <1>2, <2>0, NoEvaluationTyped, NoDocumentInv
  <2> QED BY <2>1, <2>2, <2>3
<1>3. CASE Put(c)
  <2> PICK n \in Nat : n = documents.count + 1
    BY DEF ValidationTypeInv
  <2> DEFINE s == [evaluation[c] EXCEPT !.pc = "commit", !.document = n]
  <2>1. /\ documents' = [stored |-> documents.stored \cup {n}, count |-> n]
        /\ evaluation' = [evaluation EXCEPT ![c] = s]
        /\ UNCHANGED stranded
    BY <1>3 DEF Put, Stores, Evaluates
  <2>2. /\ s \in EvaluationState /\ s.pc = "commit" /\ s.a = evaluation[c].a /\ s.prior = evaluation[c].prior
        /\ s.state = evaluation[c].state /\ s.outcome = evaluation[c].outcome
        /\ s.revision = evaluation[c].revision /\ s.document = n
    BY <1>1 DEF EvaluationState
  <2> HIDE DEF s
  <2>3. /\ evaluation' \in [Evaluation -> EvaluationState] /\ evaluation'[c] = s
        /\ \A d \in Evaluation \ {c} : evaluation'[d] = evaluation[d]
    BY <2>1, <2>2, EvaluatesSets
  <2>4. /\ documents'.stored = documents.stored \cup {n} /\ documents'.count = n
        /\ documents.count = n - 1 /\ documents.stored \subseteq 1..(n - 1) /\ n >= 1
    <3>1. documents.count \in Nat /\ documents.stored \subseteq 1..documents.count
      BY DEF ValidationTypeInv, DocumentInv
    <3>2. documents'.stored = documents.stored \cup {n} /\ documents'.count = n
      BY <2>1
    <3>3. documents.count = n - 1 /\ n >= 1
      BY <3>1
    <3> QED BY <3>1, <3>2, <3>3
  <2>5. ValidationTypeInv'
    BY <1>1, <2>1, <2>3 DEF ValidationTypeInv
  <2>6. RequestInv' /\ \A a \in DOMAIN assignments' : AssignmentInv(a)'
    BY <1>1, <2>1, <2>2, RequestMovesInv DEF Importing
  <2>7. /\ \A d \in Evaluation : evaluation[d].document \in {0} \cup documents.stored
        /\ \A e \in DOMAIN evidence : evidence[e].document \in documents.stored
        /\ n \notin {0} \cup documents.stored
    BY <2>4 DEF DocumentInv, DocumentsAreOwned
  <2>8. DocumentsAreOwned'
    <3>1. documents.stored \subseteq stranded \cup {evidence[e].document : e \in DOMAIN evidence}
                                           \cup {evaluation[d].document : d \in Evaluation}
      BY DEF DocumentInv, DocumentsAreOwned
    <3>2. {evaluation[d].document : d \in Evaluation} \cap documents.stored
            \subseteq {evaluation'[d].document : d \in Evaluation}
      <4> SUFFICES ASSUME NEW d \in Evaluation, evaluation[d].document \in documents.stored
                   PROVE  \E x \in Evaluation : evaluation'[x].document = evaluation[d].document
        OBVIOUS
      <4>1. d # c
        BY <1>1, <2>4
      <4> QED BY <2>3, <4>1
    <3>3. n \in {evaluation'[d].document : d \in Evaluation}
      BY <2>2, <2>3
    <3>4. documents'.stored \subseteq stranded \cup {evidence[e].document : e \in DOMAIN evidence}
                                           \cup {evaluation'[d].document : d \in Evaluation}
      BY <2>4, <3>1, <3>2, <3>3
    <3> QED BY <1>1, <2>1, <2>4, <2>7, <3>4 DEF DocumentsAreOwned
  <2>9. DocumentInv'
    <3>1. documents'.stored \subseteq 1..documents'.count
      <4>1. 1..(n - 1) \subseteq 1..n /\ n \in 1..n
        BY <2>4
      <4> QED BY <2>4, <4>1
    <3>2. \A d \in Evaluation : IF evaluation'[d].pc = "commit" THEN evaluation'[d].document \in documents'.stored
                                ELSE evaluation'[d].document = 0
      BY <2>2, <2>3, <2>4 DEF DocumentInv
    <3>3. \A d, x \in Evaluation :
            evaluation'[d].pc = "commit" /\ evaluation'[d].document = evaluation'[x].document => d = x
      BY <2>2, <2>3, <2>7 DEF DocumentInv
    <3>4. \A d \in Evaluation, e \in DOMAIN evidence : evaluation'[d].document # evidence[e].document
      BY <2>2, <2>3, <2>7 DEF DocumentInv
    <3> QED BY <1>1, <2>8, <3>1, <3>2, <3>3, <3>4 DEF DocumentInv
  <2> QED BY <2>5, <2>6, <2>9
<1>4. CASE PutFails(c)
  <2> PICK n \in Nat : n = documents.count + 1
    BY DEF ValidationTypeInv
  <2>1. /\ documents' = [stored |-> documents.stored \cup {n}, count |-> n]
        /\ evaluation' = [evaluation EXCEPT ![c] = NoEvaluation]
        /\ stranded' = stranded \cup {n}
    BY <1>4 DEF PutFails, Stores, Evaluated, Evaluates
  <2>2. /\ evaluation' \in [Evaluation -> EvaluationState] /\ evaluation'[c] = NoEvaluation
        /\ \A d \in Evaluation \ {c} : evaluation'[d] = evaluation[d]
    BY <2>1, NoEvaluationTyped, EvaluatesSets
  <2>3. /\ documents'.stored = documents.stored \cup {n} /\ documents'.count = n
        /\ 0 \notin documents.stored /\ documents'.stored \subseteq 1..n
    <3>1. documents.count \in Nat /\ documents.stored \subseteq 1..documents.count
      BY DEF ValidationTypeInv, DocumentInv
    <3>2. documents'.stored = documents.stored \cup {n} /\ documents'.count = n
      BY <2>1
    <3> QED BY <3>1, <3>2
  <2>4. ValidationTypeInv'
    BY <1>1, <2>1, <2>2 DEF ValidationTypeInv
  <2>5. RequestInv' /\ \A a \in DOMAIN assignments' : AssignmentInv(a)'
    BY <1>1, <2>1, NoEvaluationTyped, RequestMovesInv
  <2>6. \A e \in DOMAIN evidence : evidence[e].document \in documents.stored
    BY DEF DocumentInv, DocumentsAreOwned
  <2>7. DocumentsAreOwned'
    <3>1. documents'.stored \subseteq stranded' \cup {evidence[e].document : e \in DOMAIN evidence}
                                             \cup {evaluation'[d].document : d \in Evaluation}
      <4> SUFFICES ASSUME NEW x \in documents.stored, x \notin stranded,
                          \A e \in DOMAIN evidence : x # evidence[e].document
                   PROVE  \E d \in Evaluation : x = evaluation'[d].document
        BY <2>1, <2>3
      <4>1. PICK d \in Evaluation : x = evaluation[d].document
        BY DEF DocumentInv, DocumentsAreOwned
      <4>2. d # c
        BY <1>1, <2>3, <4>1
      <4> QED BY <2>2, <4>1, <4>2
    <3> QED BY <1>1, <2>3, <2>6, <3>1 DEF DocumentsAreOwned
  <2>8. DocumentInv'
    <3>1. \A d \in Evaluation : IF evaluation'[d].pc = "commit" THEN evaluation'[d].document \in documents'.stored
                                ELSE evaluation'[d].document = 0
      BY <2>2, <2>3, NoEvaluationTyped DEF DocumentInv
    <3>2. \A d, x \in Evaluation :
            evaluation'[d].pc = "commit" /\ evaluation'[d].document = evaluation'[x].document => d = x
      BY <2>2, <2>3, NoEvaluationTyped DEF DocumentInv
    <3>3. \A d \in Evaluation, e \in DOMAIN evidence : evaluation'[d].document # evidence[e].document
      BY <2>2, <2>3, <2>6, NoEvaluationTyped DEF DocumentInv
    <3> QED BY <1>1, <2>3, <2>7, <3>1, <3>2, <3>3 DEF DocumentInv
  <2> QED BY <2>4, <2>5, <2>8
<1> QED BY <1>2, <1>3, <1>4 DEF StoreDocument

\* An import that fails takes its document along, or strands it.
LEMMA ImportFailsInv ==
  ASSUME ValidationInv, NEW c \in Evaluation, ImportFails(c)
  PROVE  ValidationInv'
<1> USE DEF ValidationInv
<1> PICK n : n = evaluation[c].document
  OBVIOUS
<1>1. /\ evaluation[c].pc = "commit" /\ n \in documents.stored
      /\ UNCHANGED <<package, assignments, evidence, crossing>>
      /\ evaluation' = [evaluation EXCEPT ![c] = NoEvaluation]
  BY DEF ImportFails, IsAt, Evaluated, Evaluates, DocumentInv
<1>2. /\ evaluation' \in [Evaluation -> EvaluationState] /\ evaluation'[c] = NoEvaluation
      /\ \A d \in Evaluation \ {c} : evaluation'[d] = evaluation[d]
  BY <1>1, NoEvaluationTyped, EvaluatesSets
<1>3. RequestInv' /\ \A a \in DOMAIN assignments' : AssignmentInv(a)'
  BY <1>1, NoEvaluationTyped, RequestMovesInv
<1>4. /\ documents' \in [stored : SUBSET Nat, count : Nat] /\ documents'.count = documents.count
      /\ documents'.stored \subseteq documents.stored /\ documents.stored \ {n} \subseteq documents'.stored
      /\ stranded \subseteq stranded' /\ (n \in documents'.stored => n \in stranded')
  <2>1. CASE documents' = [documents EXCEPT !.stored = @ \ {n}] /\ UNCHANGED stranded
    BY <2>1 DEF ValidationTypeInv
  <2>2. CASE stranded' = stranded \cup {n} /\ UNCHANGED documents
    BY <2>2 DEF ValidationTypeInv
  <2> QED BY <2>1, <2>2 DEF ImportFails
<1>5. ValidationTypeInv'
  BY <1>1, <1>2, <1>4 DEF ValidationTypeInv
<1>6. \A d \in Evaluation \ {c} : evaluation[d].document # n
  BY <1>1 DEF DocumentInv
<1>7. \A e \in DOMAIN evidence : evidence[e].document \in documents.stored /\ evidence[e].document # n
  BY DEF DocumentInv, DocumentsAreOwned
<1>8. DocumentsAreOwned'
  <2>1. documents'.stored \subseteq stranded' \cup {evidence[e].document : e \in DOMAIN evidence}
                                           \cup {evaluation'[d].document : d \in Evaluation}
    <3> SUFFICES ASSUME NEW x \in documents'.stored, x # n, x \notin stranded',
                        \A e \in DOMAIN evidence : x # evidence[e].document
                 PROVE  \E d \in Evaluation : x = evaluation'[d].document
      BY <1>4
    <3>1. PICK d \in Evaluation : x = evaluation[d].document
      BY <1>4 DEF DocumentInv, DocumentsAreOwned
    <3> QED BY <1>2, <3>1
  <2> QED BY <1>1, <1>4, <1>7, <2>1 DEF DocumentsAreOwned
<1>9. DocumentInv'
  <2>1. documents'.stored \subseteq 1..documents'.count
    BY <1>4 DEF DocumentInv
  <2>2. \A d \in Evaluation : IF evaluation'[d].pc = "commit" THEN evaluation'[d].document \in documents'.stored
                              ELSE evaluation'[d].document = 0
    BY <1>2, <1>4, <1>6, NoEvaluationTyped DEF DocumentInv
  <2>3. \A d, x \in Evaluation :
          evaluation'[d].pc = "commit" /\ evaluation'[d].document = evaluation'[x].document => d = x
    <3>1. 0 \notin documents.stored
      BY DEF DocumentInv, ValidationTypeInv
    <3> QED BY <1>2, <3>1, NoEvaluationTyped DEF DocumentInv
  <2>4. \A d \in Evaluation, e \in DOMAIN evidence : evaluation'[d].document # evidence[e].document
    <3>1. 0 \notin documents.stored
      BY DEF DocumentInv, ValidationTypeInv
    <3> QED BY <1>2, <1>7, <3>1, NoEvaluationTyped DEF DocumentInv
  <2> QED BY <1>1, <1>8, <2>1, <2>2, <2>3, <2>4 DEF DocumentInv
<1> QED BY <1>3, <1>5, <1>9

\* A conclusion finds the assignment as it was read, or the two cross.
LEMMA ConcludeInv ==
  ASSUME ValidationInv, NEW c \in Evaluation, Conclude(c)
  PROVE  ValidationInv'
<1> USE DEF ValidationInv
<1>1. /\ evaluation[c].pc = "conclude" /\ evaluation[c].a \in DOMAIN assignments
      /\ UNCHANGED <<package, evidence, documents, stranded, crossing>>
      /\ evaluation' = [evaluation EXCEPT ![c] = NoEvaluation]
  BY DEF Conclude, IsAt, Evaluated, Evaluates, RequestInv
<1> PICK b \in DOMAIN assignments : b = evaluation[c].a
  BY <1>1
<1> DEFINE row == [assignments[b] EXCEPT !.state = "not_complete"]
<1>2. row \in AssignmentRow /\ row.state = "not_complete"
  BY EvidenceTyped DEF AssignmentRow, AssignmentState
<1>3. assignments' = [assignments EXCEPT ![b] = row]
  BY EvidenceTyped DEF Conclude
<1> HIDE DEF row
<1>4. /\ assignments' \in Seq(AssignmentRow) /\ DOMAIN assignments' = DOMAIN assignments
      /\ assignments'[b] = row
      /\ \A a \in DOMAIN assignments \ {b} : assignments'[a] = assignments[a]
  BY <1>2, <1>3 DEF ValidationTypeInv
<1>5. /\ evaluation' \in [Evaluation -> EvaluationState] /\ evaluation'[c] = NoEvaluation
      /\ \A d \in Evaluation \ {c} : evaluation'[d] = evaluation[d]
  BY <1>1, NoEvaluationTyped, EvaluatesSets
<1>6. ValidationTypeInv'
  BY <1>1, <1>4, <1>5 DEF ValidationTypeInv
<1>7. RequestInv'
  BY <1>1, <1>4, <1>5, NoEvaluationTyped DEF RequestInv, Importing
<1>8. DocumentInv'
  BY <1>1, NoEvaluationTyped, NoDocumentInv
<1>9. \A a : Current(a)' = Current(a)
  BY <1>1 DEF Current
<1>10. ASSUME NEW a \in DOMAIN assignments PROVE AssignmentInv(a)'
  <2>1. CASE a \in crossing
    BY <1>1, <2>1 DEF AssignmentInv
  <2>2. CASE a \notin crossing /\ a # b
    <3>1. \A d \in Evaluation : evaluation'[d].a = a => evaluation'[d] = evaluation[d]
      BY <1>5, <2>2, EvidenceTyped, NoEvaluationTyped
    <3> QED BY <1>1, <1>4, <1>9, <2>2, <3>1 DEF AssignmentInv
  <2>3. CASE a \notin crossing /\ a = b
    <3>1. Current(b) = {}
      BY <1>1, <2>3 DEF AssignmentInv
    <3>2. \A d \in Evaluation : evaluation'[d].a # b
      BY <1>1, <1>5, <2>3, EvidenceTyped, NoEvaluationTyped DEF AssignmentInv
    <3>3. assignments'[b].state \notin Outcome
      BY <1>2, <1>4 DEF Outcome
    <3> QED BY <1>9, <2>3, <3>1, <3>2, <3>3 DEF AssignmentInv
  <2> QED BY <2>1, <2>2, <2>3
<1> QED BY <1>4, <1>6, <1>7, <1>8, <1>10

\* The table of the evidence when an import has superseded p and added a row.
LEMMA SupersedeSets ==
  ASSUME ValidationTypeInv, NEW p \in Nat, NEW row \in EvidenceRow,
         evidence' = Append(IF p = 0 THEN evidence ELSE [evidence EXCEPT ![p].status = "superseded"], row)
  PROVE  /\ evidence' \in Seq(EvidenceRow)
         /\ \E n \in Nat : /\ n \notin DOMAIN evidence /\ DOMAIN evidence' = DOMAIN evidence \cup {n}
                          /\ evidence'[n] = row
         /\ \A e \in DOMAIN evidence :
              /\ evidence'[e].a = evidence[e].a /\ evidence'[e].outcome = evidence[e].outcome
              /\ evidence'[e].document = evidence[e].document
              /\ evidence'[e].status = IF e = p THEN "superseded" ELSE evidence[e].status
<1> DEFINE old == IF p = 0 THEN evidence ELSE [evidence EXCEPT ![p].status = "superseded"]
           Gone(e) == [evidence[e] EXCEPT !.status = "superseded"]
<1>1. /\ Len(evidence) \in Nat /\ DOMAIN evidence = 1..Len(evidence)
      /\ \A e \in DOMAIN evidence : evidence[e] \in EvidenceRow
  BY EvidenceTyped
<1>2. \A e \in DOMAIN evidence :
        /\ Gone(e) \in EvidenceRow /\ Gone(e).status = "superseded" /\ Gone(e).a = evidence[e].a
        /\ Gone(e).outcome = evidence[e].outcome /\ Gone(e).document = evidence[e].document
  BY <1>1 DEF EvidenceRow
<1>3. /\ DOMAIN old = DOMAIN evidence
      /\ \A e \in DOMAIN evidence : old[e] = IF e = p THEN Gone(e) ELSE evidence[e]
  <2>1. CASE p = 0
    BY <1>1, <2>1
  <2>2. CASE p # 0
    BY <1>1, <2>2
  <2> QED BY <2>1, <2>2
<1>4. old = [e \in 1..Len(evidence) |-> old[e]]
  <2>1. CASE p = 0
    BY <2>1 DEF ValidationTypeInv
  <2>2. CASE p # 0
    BY <1>1, <2>2
  <2> QED BY <2>1, <2>2
<1> HIDE DEF Gone
<1>5. \A e \in 1..Len(evidence) : old[e] \in EvidenceRow
  BY <1>1, <1>2, <1>3
<1> HIDE DEF old
<1>6. old \in [1..Len(evidence) -> EvidenceRow]
  BY <1>4, <1>5
<1>7. old \in Seq(EvidenceRow) /\ Len(old) = Len(evidence)
  BY <1>1, <1>6
<1>8. evidence' = Append(old, row)
  BY DEF old
<1> PICK n \in Nat : n = Len(evidence) + 1
  BY <1>1
<1>9. /\ evidence' \in Seq(EvidenceRow) /\ DOMAIN evidence' = DOMAIN evidence \cup {n} /\ evidence'[n] = row
      /\ \A e \in DOMAIN evidence : evidence'[e] = old[e]
  <2>1. n - 1 = Len(evidence) /\ n - 1 \in Nat
    BY <1>1
  <2>2. /\ Append(old, row) \in Seq(EvidenceRow) /\ DOMAIN Append(old, row) = 1..n
        /\ Append(old, row)[n] = row /\ \A e \in 1..(n - 1) : Append(old, row)[e] = old[e]
    BY <1>7, <2>1
  <2>3. 1..n = (1..(n - 1)) \cup {n}
    BY <2>1
  <2> QED BY <1>1, <1>8, <2>1, <2>2, <2>3
<1>10. n \notin DOMAIN evidence
  BY <1>1
<1>11. \A e \in DOMAIN evidence :
         /\ evidence'[e].a = evidence[e].a /\ evidence'[e].outcome = evidence[e].outcome
         /\ evidence'[e].document = evidence[e].document
         /\ evidence'[e].status = IF e = p THEN "superseded" ELSE evidence[e].status
  BY <1>2, <1>3, <1>9
<1> QED BY <1>9, <1>10, <1>11

\* An import commits: its evidence is the current one and gives the state.
LEMMA CommitInv ==
  ASSUME ValidationInv, NEW c \in Evaluation, CommitEvidence(c)
  PROVE  ValidationInv'
<1> USE DEF ValidationInv
<1> PICK j \in EvaluationState : j = evaluation[c]
  BY DEF ValidationTypeInv
<1> DEFINE row == [a |-> j.a, revision |-> j.revision, outcome |-> j.outcome,
                   status |-> "current", document |-> j.document]
<1>1. /\ j.pc = "commit" /\ j.a \in DOMAIN assignments /\ j.outcome \in Outcome /\ j.revision \in Submission
      /\ j.prior = 0 \/ (j.prior \in DOMAIN evidence /\ evidence[j.prior].a = j.a)
      /\ j.document \in documents.stored
  BY DEF CommitEvidence, IsAt, RequestInv, Importing, DocumentInv
<1>2. /\ row \in EvidenceRow /\ row.a = j.a /\ row.outcome = j.outcome /\ row.status = "current"
      /\ row.document = j.document
  BY <1>1 DEF EvaluationState, EvidenceRow
<1>3. /\ evidence' = Append(IF j.prior = 0 THEN evidence
                           ELSE [evidence EXCEPT ![j.prior].status = "superseded"], row)
      /\ assignments' = IF j.state = j.outcome THEN assignments
                        ELSE [assignments EXCEPT ![j.a].state = j.outcome]
      /\ evaluation' = [evaluation EXCEPT ![c] = NoEvaluation]
      /\ UNCHANGED <<package, documents, stranded, crossing>>
  BY DEF CommitEvidence, Evaluated, Evaluates
<1> HIDE DEF row
<1>4. j.prior \in Nat
  BY DEF EvaluationState
<1>5. PICK n \in Nat : /\ n \notin DOMAIN evidence /\ DOMAIN evidence' = DOMAIN evidence \cup {n}
                       /\ evidence'[n] = row
  BY <1>2, <1>3, <1>4, SupersedeSets
<1>6. /\ evidence' \in Seq(EvidenceRow)
      /\ \A e \in DOMAIN evidence :
           /\ evidence'[e].a = evidence[e].a /\ evidence'[e].outcome = evidence[e].outcome
           /\ evidence'[e].document = evidence[e].document
           /\ evidence'[e].status = IF e = j.prior THEN "superseded" ELSE evidence[e].status
  BY <1>2, <1>3, <1>4, SupersedeSets
<1>7. /\ assignments' \in Seq(AssignmentRow) /\ DOMAIN assignments' = DOMAIN assignments
      /\ \A a \in DOMAIN assignments \ {j.a} : assignments'[a] = assignments[a]
      /\ assignments'[j.a].state = IF j.state = j.outcome THEN assignments[j.a].state ELSE j.outcome
  <2> DEFINE b == j.a
             changed == [assignments[b] EXCEPT !.state = j.outcome]
  <2>1. changed \in AssignmentRow /\ changed.state = j.outcome
    BY <1>1, EvidenceTyped DEF AssignmentRow, AssignmentState
  <2>2. assignments' = IF j.state = j.outcome THEN assignments ELSE [assignments EXCEPT ![b] = changed]
    BY <1>1, <1>3, EvidenceTyped
  <2> HIDE DEF changed
  <2> QED BY <1>1, <2>1, <2>2 DEF ValidationTypeInv
<1>8. /\ evaluation' \in [Evaluation -> EvaluationState] /\ evaluation'[c] = NoEvaluation
      /\ \A d \in Evaluation \ {c} : evaluation'[d] = evaluation[d]
  BY <1>3, NoEvaluationTyped, EvaluatesSets
<1>9. ValidationTypeInv'
  BY <1>3, <1>6, <1>7, <1>8 DEF ValidationTypeInv
<1>10. RequestInv'
  <2>1. \A e \in DOMAIN evidence' : evidence'[e].a \in DOMAIN assignments
    BY <1>1, <1>2, <1>5, <1>6 DEF RequestInv
  <2>2. ASSUME NEW d \in Evaluation
        PROVE  LET k == evaluation'[d] IN
                 /\ IF k.pc \in {"idle", "fix"} THEN k.a = 0 ELSE k.a \in DOMAIN assignments
                 /\ k.pc = "fix" => k.unit \in Unit
                 /\ k.pc \in Importing =>
                      /\ k.outcome \in Outcome /\ k.revision \in Submission
                      /\ k.prior = 0 \/ (k.prior \in DOMAIN evidence' /\ evidence'[k.prior].a = k.a)
    <3>1. CASE d = c
      BY <1>8, <3>1, NoEvaluationTyped DEF Importing
    <3>2. CASE d # c
      BY <1>5, <1>6, <1>8, <3>2 DEF RequestInv
    <3> QED BY <3>1, <3>2
  <2> QED BY <1>7, <2>1, <2>2 DEF RequestInv
<1>11. DocumentInv'
  <2>1. 0 \notin documents.stored
    BY DEF DocumentInv, ValidationTypeInv
  <2>2. \A d \in Evaluation \ {c} : evaluation[d].document # j.document
    BY <1>1 DEF DocumentInv
  <2>3. \A d \in Evaluation : IF evaluation'[d].pc = "commit" THEN evaluation'[d].document \in documents.stored
                              ELSE evaluation'[d].document = 0
    BY <1>8, NoEvaluationTyped DEF DocumentInv
  <2>4. \A d, x \in Evaluation :
          evaluation'[d].pc = "commit" /\ evaluation'[d].document = evaluation'[x].document => d = x
    BY <1>8, <2>1, NoEvaluationTyped DEF DocumentInv
  <2>5. \A e \in DOMAIN evidence' : evidence'[e].document \in documents.stored
    BY <1>1, <1>2, <1>5, <1>6 DEF DocumentInv, DocumentsAreOwned
  <2>6. \A d \in Evaluation, e \in DOMAIN evidence' : evaluation'[d].document # evidence'[e].document
    BY <1>2, <1>5, <1>6, <1>8, <2>1, <2>2, <2>5, NoEvaluationTyped DEF DocumentInv
  <2>7. documents.stored \subseteq stranded \cup {evidence'[e].document : e \in DOMAIN evidence'}
                                         \cup {evaluation'[d].document : d \in Evaluation}
    <3> SUFFICES ASSUME NEW x \in documents.stored, x \notin stranded,
                        \A d \in Evaluation : x # evaluation'[d].document
                 PROVE  \E e \in DOMAIN evidence' : x = evidence'[e].document
      OBVIOUS
    <3>1. CASE \E e \in DOMAIN evidence : x = evidence[e].document
      BY <1>5, <1>6, <3>1
    <3>2. CASE \E d \in Evaluation : x = evaluation[d].document
      <4>1. x = j.document
        BY <1>8, <3>2
      <4> QED BY <1>2, <1>5, <4>1
    <3> QED BY <3>1, <3>2 DEF DocumentInv, DocumentsAreOwned
  <2>8. documents.stored \subseteq 1..documents.count
    BY DEF DocumentInv
  <2>9. DocumentsAreOwned'
    BY <1>3, <2>5, <2>7 DEF DocumentsAreOwned
  <2> QED BY <1>3, <2>3, <2>4, <2>6, <2>8, <2>9 DEF DocumentInv
<1>12. \A a : a # j.a => Current(a)' = Current(a)
  <2> SUFFICES ASSUME NEW a, a # j.a PROVE Current(a)' = Current(a)
    OBVIOUS
  <2>1. \A e \in DOMAIN evidence : evidence'[e].a = a /\ evidence'[e].status = "current"
                                 <=> evidence[e].a = a /\ evidence[e].status = "current"
    <3>1. \A e \in DOMAIN evidence : evidence[e].a = a => e # j.prior
      BY <1>1, EvidenceTyped
    <3> QED BY <1>6, <3>1
  <2> QED BY <1>2, <1>5, <2>1 DEF Current
<1>13. ASSUME NEW a \in DOMAIN assignments PROVE AssignmentInv(a)'
  <2>1. CASE a \in crossing
    BY <1>3, <2>1 DEF AssignmentInv
  <2>2. CASE a \notin crossing /\ a # j.a
    <3>1. \A d \in Evaluation : evaluation'[d].a = a => evaluation'[d] = evaluation[d]
      BY <1>8, <2>2, EvidenceTyped, NoEvaluationTyped
    <3>2. Current(a)' = Current(a) /\ Current(a) \subseteq DOMAIN evidence
      BY <1>12, <2>2 DEF Current
    <3> QED BY <1>3, <1>6, <1>7, <2>2, <3>1, <3>2 DEF AssignmentInv
  <2>3. CASE a \notin crossing /\ a = j.a
    <3>1. /\ \A e, f \in Current(a) : e = f /\ j.state = assignments[a].state
          /\ IF Current(a) = {} THEN j.prior = 0 ELSE j.prior \in Current(a)
      BY <1>1, <2>3 DEF AssignmentInv, Importing
    <3>2. j.state = assignments[a].state
      BY <1>1, <2>3 DEF AssignmentInv, Importing
    <3>3. Current(a)' = {n}
      <4>1. n \in Current(a)'
        BY <1>2, <1>5, <2>3 DEF Current
      <4>2. ASSUME NEW e \in DOMAIN evidence, evidence'[e].a = a, evidence'[e].status = "current" PROVE FALSE
        <5>1. e # j.prior /\ e \in Current(a)
          BY <1>6, <4>2 DEF Current
        <5> QED BY <3>1, <5>1
      <4> QED BY <1>5, <4>1, <4>2 DEF Current
    <3>4. assignments'[a].state = j.outcome
      BY <1>7, <2>3, <3>2
    <3>5. \A d \in Evaluation : evaluation'[d].a # a
      BY <1>8, <2>3, EvidenceTyped, NoEvaluationTyped DEF AssignmentInv
    <3> QED BY <1>2, <1>5, <3>3, <3>4, <3>5 DEF AssignmentInv
  <2> QED BY <2>1, <2>2, <2>3
<1> QED BY <1>7, <1>9, <1>10, <1>11, <1>13

\* Every step keeps the invariant.
LEMMA ValidationNextInv == ValidationInv /\ [ValidationNext]_validationVars => ValidationInv'
<1> SUFFICES ASSUME ValidationInv, [ValidationNext]_validationVars PROVE ValidationInv'
  OBVIOUS
<1>1. CASE UNCHANGED validationVars
  BY <1>1 DEF validationVars, ValidationInv, ValidationTypeInv, RequestInv, DocumentInv, AssignmentInv,
              DocumentsAreOwned, Current
<1>2. CASE ValidationNext
  BY <1>2, PackageInv, CreateAssignmentInv, ReadAssignmentInv, InsertInv, StoreInv, CommitInv,
     ImportFailsInv, ConcludeInv DEF ValidationNext, AssignmentRequest, EvidenceRequest, ConclusionRequest
<1> QED BY <1>1, <1>2

\* A stored document belongs to a row of evidence or to the request that stores it, and a row
\* has its document; only a request that died, whose put failed after storing, or whose commit
\* and cleanup failed leaves one behind (import_evidence).
THEOREM DocumentsHaveOwners == ValidationSpec => []DocumentsAreOwned
<1>1. ValidationSpec => []ValidationInv
  BY ValidationInitInv, ValidationNextInv, PTL DEF ValidationSpec
<1>2. ValidationInv => DocumentsAreOwned
  BY DEF ValidationInv, DocumentInv
<1> QED BY <1>1, <1>2, PTL

\* A passed project has, for each of its newest assignments, the state "passed" for the package
\* of record (derive_overall_status).
LEMMA PassedMeansPassed ==
  ASSUME ValidationInv, OverallStatus = "passed", NEW a \in Newest
  PROVE  a \in DOMAIN assignments /\ assignments[a].number = package.number /\ assignments[a].state = "passed"
<1> DEFINE states == {DisplayState(b) : b \in Newest}
<1>1. a \in DOMAIN assignments
  BY DEF Newest
<1>2. assignments[a].state \in {"passed", "failed", "pending_evidence", "not_complete"}
  BY <1>1, EvidenceTyped DEF ValidationInv, AssignmentRow, AssignmentState, Outcome
<1>3. DisplayState(a) \in states
  OBVIOUS
<1>4. /\ "failed" \notin states /\ "pending_evidence" \notin states
      /\ "not_complete" \notin states /\ "stale" \notin states
  <2>1. OverallStatus = CASE states = {} -> "not_evaluated"
                          [] "failed" \in states -> "failed"
                          [] states \cap {"not_complete", "stale"} # {} -> "not_complete"
                          [] "pending_evidence" \in states -> "in_progress"
                          [] OTHER -> "passed"
    BY DEF OverallStatus
  <2> HIDE DEF states
  <2> QED BY <1>3, <2>1
<1>5. ~Superseded(a) /\ assignments[a].state = "passed"
  <2> HIDE DEF states
  <2> QED BY <1>2, <1>3, <1>4 DEF DisplayState
<1> QED BY <1>1, <1>5 DEF Superseded

\* The outcome of an assignment is that of its one current evidence, and a project is passed
\* only when every unit is, for the package of record, unless requests crossed
\* (import_evidence, conclude_not_complete, derive_overall_status).
THEOREM OutcomesAreEarned == ValidationSpec => []OutcomeIsEarned
<1>1. ValidationSpec => []ValidationInv
  BY ValidationInitInv, ValidationNextInv, PTL DEF ValidationSpec
<1>2. ValidationInv => OutcomeIsEarned
  <2> SUFFICES ASSUME ValidationInv PROVE OutcomeIsEarned
    OBVIOUS
  <2>1. ASSUME NEW a \in DOMAIN assignments \ crossing
        PROVE  {evidence[e].outcome : e \in Current(a)} =
                 IF assignments[a].state \in Outcome THEN {assignments[a].state} ELSE {}
    <3>1. /\ \A e \in Current(a) : evidence[e].outcome = assignments[a].state
          /\ assignments[a].state \in Outcome => Current(a) # {}
      BY DEF ValidationInv, AssignmentInv
    <3>2. \A e \in Current(a) : evidence[e].outcome \in Outcome
      BY EvidenceTyped DEF ValidationInv, Current, EvidenceRow
    <3> QED BY <3>1, <3>2
  <2>2. ASSUME OverallStatus = "passed", NEW a \in Newest \ crossing
        PROVE  /\ assignments[a].number = package.number
               /\ \E e \in DOMAIN evidence : Current(a) = {e} /\ evidence[e].outcome = "passed"
    <3>1. /\ a \in DOMAIN assignments /\ assignments[a].number = package.number
          /\ assignments[a].state = "passed"
      BY <2>2, PassedMeansPassed
    <3>2. /\ \A e, f \in Current(a) : e = f /\ evidence[e].outcome = "passed"
          /\ Current(a) # {}
      BY <3>1 DEF ValidationInv, AssignmentInv, Outcome
    <3>3. PICK e \in Current(a) : Current(a) = {e}
      BY <3>2
    <3>4. evidence[e].outcome = "passed" /\ e \in DOMAIN evidence
      BY <3>2 DEF Current
    <3> QED BY <3>1, <3>3, <3>4
  <2> QED BY <2>1, <2>2 DEF OutcomeIsEarned
<1> QED BY <1>1, <1>2, PTL
=============================================================================
