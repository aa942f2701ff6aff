---------------------------- MODULE SourceLifecycle ----------------------------
(***************************************************************************)
(* The sources of one project: upload, parsing, analysis and deletion      *)
(* (sources_grounding/service.py, tasks.py, analysis.py, api/sources.py).  *)
(*                                                                         *)
(* Uploads and deletions are requests, parsing and analysis are tasks that *)
(* a broker delivers once.  Each works in one database transaction that    *)
(* spans a call of the object store or of the model, and the two stores    *)
(* fail independently.  What transactions see of each other follows        *)
(* PostgreSQL's read-committed level: a row written by an open transaction *)
(* is invisible, and writing or deleting it waits for that transaction.    *)
(***************************************************************************)
EXTENDS Integers, FiniteSets

CONSTANTS
  Source,        \* identities of sources
  Uploader,      \* upload requests that may be in flight
  Deleter,       \* delete requests that may be in flight
  Worker,        \* task workers
  NoOne,         \* nobody holds the lock
  MaxSources,    \* the limit of sources of the project
  MaxTriggers,   \* bound: analyses asked for and not begun, for each source
  MaxErrors,     \* bound: failures of the object store, the database or the broker
  MaxCrashes     \* bound: crashes of a request or a worker

ASSUME SourceAssumption ==
  /\ Source # {} /\ IsFiniteSet(Source)
  /\ NoOne \notin Uploader \union Deleter \union Worker
  /\ Worker \intersect Deleter = {}
  /\ MaxSources \in Nat /\ MaxTriggers \in Nat /\ MaxErrors \in Nat /\ MaxCrashes \in Nat

Status == {"processing", "ready", "failed", "rejected", "delete_failed"}
AnalysisStatus == {"ready", "failed"}   \* what is committed; "analyzing" never is
Text == {"lesson", "student_data", "unreadable"}
None == "none"

VARIABLES
  row,          \* row[s]: committed status of the source, None when there is no row
  text,         \* text[s]: what the uploaded file holds, None before the upload
  object,       \* object[s]: the file is in the bucket
  chunks,       \* chunks[s]: the chunks are stored
  analysis,     \* analysis[s]: committed status of the analysis row
  claim,        \* claim[s]: the open transaction that has written the analysis row
  projectLock,  \* the upload that holds the project row
  parseTask,    \* sources with a parse task waiting
  trigger,      \* trigger[s]: analysis tasks waiting
  uploader,     \* uploader[u]: an upload request
  deleter,      \* deleter[d]: a delete request and the child rows it has deleted
  worker,       \* worker[w]: a task; want is the status to commit, seen the analysis it read
  errors,       \* failures of the object store, the database or the broker so far
  crashes       \* crashes so far

stored == <<row, text, object, chunks, analysis>>
tasks == <<parseTask, trigger>>
vars == <<row, text, object, chunks, analysis, claim, projectLock, parseTask, trigger, uploader,
          deleter, worker, errors, crashes>>

IdleUploader(s) == [pc |-> "idle", s |-> s]
IdleDeleter(s) == [pc |-> "idle", s |-> s, sawChunks |-> FALSE, sawAnalysis |-> FALSE]
IdleWorker(s) == [pc |-> "idle", s |-> s, seen |-> None, want |-> None]
AnySource == CHOOSE s \in Source : TRUE

Init ==
  /\ row = [s \in Source |-> None]
  /\ text = [s \in Source |-> None]
  /\ object = [s \in Source |-> FALSE]
  /\ chunks = [s \in Source |-> FALSE]
  /\ analysis = [s \in Source |-> None]
  /\ claim = [s \in Source |-> NoOne]
  /\ projectLock = NoOne
  /\ parseTask = {}
  /\ trigger = [s \in Source |-> 0]
  /\ uploader = [u \in Uploader |-> IdleUploader(AnySource)]
  /\ deleter = [d \in Deleter |-> IdleDeleter(AnySource)]
  /\ worker = [w \in Worker |-> IdleWorker(AnySource)]
  /\ errors = 0
  /\ crashes = 0

Exists(s) == row[s] # None
Failure == errors < MaxErrors /\ errors' = errors + 1
Set(f, x, v) == [f EXCEPT ![x] = v]
Release(holder) == claim' = [s \in Source |-> IF claim[s] = holder THEN NoOne ELSE claim[s]]

-----------------------------------------------------------------------------
(* POST sources: create_source and the dispatch of the parse task.          *)

Uploads(u, pc, s) == uploader' = Set(uploader, u, [pc |-> pc, s |-> s])

Admits(u) ==
  /\ uploader[u].pc = "idle"
  /\ Cardinality({s \in Source : Exists(s)}) < MaxSources
  /\ \E s \in Source, kind \in Text :
       /\ text[s] = None
       /\ text' = Set(text, s, kind)
       /\ Uploads(u, "put", s)
  /\ UNCHANGED <<row, object, chunks, analysis, claim, tasks, deleter, worker, errors, crashes>>

\* Mutant: the sources are counted without the lock.
UploadAdmitUnlocked(u) == Admits(u) /\ UNCHANGED projectLock

\* The project row is locked until the upload commits, so that uploads count one by one.
UploadAdmit(u) ==
  /\ projectLock = NoOne
  /\ projectLock' = u
  /\ Admits(u)

Unlock(u) == projectLock' = IF projectLock = u THEN NoOne ELSE projectLock

UploadPut(u) ==
  /\ uploader[u].pc = "put"
  /\ object' = Set(object, uploader[u].s, TRUE)
  /\ Uploads(u, "commit", uploader[u].s)
  /\ UNCHANGED <<row, text, chunks, analysis, claim, projectLock, tasks, deleter, worker, errors, crashes>>

\* A put that is reported failed may have stored the file. Nothing looks for it again.
UploadPutFails(u) ==
  /\ uploader[u].pc = "put"
  /\ Failure
  /\ \E kept \in {object[uploader[u].s], TRUE} : object' = Set(object, uploader[u].s, kept)
  /\ Uploads(u, "idle", uploader[u].s)
  /\ Unlock(u)
  /\ UNCHANGED <<row, text, chunks, analysis, claim, tasks, deleter, worker, crashes>>

UploadCommit(u) ==
  /\ uploader[u].pc = "commit"
  /\ row' = Set(row, uploader[u].s, "processing")
  /\ Uploads(u, "dispatch", uploader[u].s)
  /\ Unlock(u)
  /\ UNCHANGED <<text, object, chunks, analysis, claim, tasks, deleter, worker, errors, crashes>>

\* A commit that is reported failed may have been applied. The file stays, the task is not sent.
UploadCommitFails(u) ==
  /\ uploader[u].pc = "commit"
  /\ Failure
  /\ row' \in {row, Set(row, uploader[u].s, "processing")}
  /\ Uploads(u, "idle", uploader[u].s)
  /\ Unlock(u)
  /\ UNCHANGED <<text, object, chunks, analysis, claim, tasks, deleter, worker, crashes>>

UploadDispatch(u) ==
  /\ uploader[u].pc = "dispatch"
  /\ parseTask' = parseTask \union {uploader[u].s}
  /\ Uploads(u, "idle", uploader[u].s)
  /\ UNCHANGED <<stored, claim, projectLock, trigger, deleter, worker, errors, crashes>>

\* The broker fails at the enqueue, after the row is committed.
UploadDispatchFails(u) ==
  /\ uploader[u].pc = "dispatch"
  /\ Failure
  /\ parseTask' \in {parseTask, parseTask \union {uploader[u].s}}
  /\ Uploads(u, "idle", uploader[u].s)
  /\ UNCHANGED <<stored, claim, projectLock, trigger, deleter, worker, crashes>>

-----------------------------------------------------------------------------
(* parse_source and process_source.                                         *)

Works(w, record) == worker' = Set(worker, w, record)
Stop(w) == Works(w, IdleWorker(worker[w].s))

ParseRead(w, s) ==
  /\ worker[w].pc = "idle"
  /\ s \in parseTask
  /\ parseTask' = parseTask \ {s}
  /\ IF Exists(s) THEN Works(w, [IdleWorker(s) EXCEPT !.pc = "get"]) ELSE UNCHANGED worker
  /\ UNCHANGED <<stored, claim, projectLock, trigger, uploader, deleter, errors, crashes>>

ParsedStatus(s) ==
  CASE text[s] = "unreadable" -> "failed"
    [] text[s] = "student_data" -> "rejected"
    [] OTHER -> "ready"

\* A missing file or a failing store ends the task: only a parse error settles the source.
ParseGet(w) ==
  LET s == worker[w].s
  IN /\ worker[w].pc = "get"
     /\ \/ /\ object[s]
           /\ Works(w, [worker[w] EXCEPT !.pc = "write", !.want = ParsedStatus(s)])
           /\ UNCHANGED errors
        \/ ~object[s] /\ Stop(w) /\ UNCHANGED errors
        \/ Failure /\ Stop(w)
     /\ UNCHANGED <<stored, claim, projectLock, tasks, uploader, deleter, crashes>>

\* Mutant: the chunks are stored before the screening.
ParseWriteAll(w) ==
  LET s == worker[w].s
  IN /\ worker[w].pc = "write"
     /\ Exists(s)
     /\ row' = Set(row, s, worker[w].want)
     /\ chunks' = Set(chunks, s, TRUE)
     /\ Stop(w)
     /\ UNCHANGED <<text, object, analysis, claim, projectLock, tasks, uploader, deleter, errors, crashes>>

\* Mutant: a file that cannot be used ends the task without a commit.
ParseWriteReady(w) ==
  LET s == worker[w].s
  IN /\ worker[w].pc = "write"
     /\ IF Exists(s) /\ worker[w].want = "ready"
          THEN /\ row' = Set(row, s, "ready")
               /\ chunks' = Set(chunks, s, TRUE)
               /\ Works(w, [worker[w] EXCEPT !.pc = "dispatch"])
          ELSE Stop(w) /\ UNCHANGED <<row, chunks>>
     /\ UNCHANGED <<text, object, analysis, claim, projectLock, tasks, uploader, deleter, errors, crashes>>

\* The status replaces whatever the row holds by now; without the row nothing is written.
ParseWrite(w) ==
  LET s == worker[w].s
      want == worker[w].want
  IN /\ worker[w].pc = "write"
     /\ IF Exists(s)
          THEN /\ row' = Set(row, s, want)
               /\ chunks' = IF want = "ready" THEN Set(chunks, s, TRUE) ELSE chunks
               /\ IF want = "ready" THEN Works(w, [worker[w] EXCEPT !.pc = "dispatch"]) ELSE Stop(w)
          ELSE Stop(w) /\ UNCHANGED <<row, chunks>>
     /\ UNCHANGED <<text, object, analysis, claim, projectLock, tasks, uploader, deleter, errors, crashes>>

ParseDispatch(w) ==
  /\ worker[w].pc = "dispatch"
  /\ trigger' = Set(trigger, worker[w].s, trigger[worker[w].s] + 1)
  /\ Stop(w)
  /\ UNCHANGED <<stored, claim, projectLock, parseTask, uploader, deleter, errors, crashes>>

-----------------------------------------------------------------------------
(* POST analyze, and analyze_source.                                        *)

\* The owner asks again. The row of an analysis in flight is not visible to the request.
RetryAnalysis(s) ==
  /\ row[s] = "ready"
  /\ trigger[s] < MaxTriggers
  /\ trigger' = Set(trigger, s, trigger[s] + 1)
  /\ UNCHANGED <<stored, claim, projectLock, parseTask, uploader, deleter, worker, errors, crashes>>

AnalyzeRead(w, s) ==
  /\ worker[w].pc = "idle"
  /\ trigger[s] > 0
  /\ trigger' = Set(trigger, s, trigger[s] - 1)
  /\ IF row[s] = "ready"
       THEN Works(w, [IdleWorker(s) EXCEPT !.pc = "claim", !.seen = analysis[s]])
       ELSE UNCHANGED worker
  /\ UNCHANGED <<stored, claim, projectLock, parseTask, uploader, deleter, errors, crashes>>

\* The row is inserted or updated, and stays locked until the answer is stored.
Writable(w) ==
  LET s == worker[w].s
  IN IF worker[w].seen = None THEN analysis[s] = None /\ Exists(s) ELSE analysis[s] # None

\* Mutant: the claim is not flushed before the call.
AnalyzeClaimLate(w) ==
  /\ worker[w].pc = "claim"
  /\ Works(w, [worker[w] EXCEPT !.pc = "call"])
  /\ UNCHANGED <<stored, claim, projectLock, tasks, uploader, deleter, errors, crashes>>

AnalyzeClaim(w) ==
  /\ worker[w].pc = "claim"
  /\ claim[worker[w].s] = NoOne
  /\ IF Writable(w)
       THEN /\ claim' = Set(claim, worker[w].s, w)
            /\ Works(w, [worker[w] EXCEPT !.pc = "call"])
       ELSE Stop(w) /\ UNCHANGED claim
  /\ UNCHANGED <<stored, projectLock, tasks, uploader, deleter, errors, crashes>>

\* The answer settles the row; an error nobody expects rolls the transaction back.
AnalyzeSettle(w) ==
  /\ worker[w].pc = "call"
  /\ \/ \E status \in AnalysisStatus : analysis' = Set(analysis, worker[w].s, status)
     \/ UNCHANGED analysis
  /\ Stop(w)
  /\ Release(w)
  /\ UNCHANGED <<row, text, object, chunks, projectLock, tasks, uploader, deleter, errors, crashes>>

-----------------------------------------------------------------------------
(* DELETE sources: delete_source.                                           *)

Deletes(d, pc) == deleter' = Set(deleter, d, [deleter[d] EXCEPT !.pc = pc])
Leave(d) == deleter' = Set(deleter, d, IdleDeleter(deleter[d].s))

DeleteRead(d, s) ==
  /\ deleter[d].pc = "idle"
  /\ Exists(s)
  /\ deleter' = Set(deleter, d, [IdleDeleter(s) EXCEPT !.pc = "object"])
  /\ UNCHANGED <<stored, claim, projectLock, tasks, uploader, worker, errors, crashes>>

DeleteObject(d) ==
  /\ deleter[d].pc = "object"
  /\ object' = Set(object, deleter[d].s, FALSE)
  /\ Deletes(d, "children")
  /\ UNCHANGED <<row, text, chunks, analysis, claim, projectLock, tasks, uploader, worker, errors, crashes>>

\* Mutant: a failure of the store is ignored.
DeleteObjectIgnored(d) ==
  /\ deleter[d].pc = "object"
  /\ Failure
  /\ Deletes(d, "children")
  /\ UNCHANGED <<stored, claim, projectLock, tasks, uploader, worker, crashes>>

\* A failing store may have deleted the file; the failure is recorded in the row.
DeleteObjectFails(d) ==
  /\ deleter[d].pc = "object"
  /\ Failure
  /\ \E left \in {object[deleter[d].s], FALSE} : object' = Set(object, deleter[d].s, left)
  /\ Deletes(d, "mark")
  /\ UNCHANGED <<row, text, chunks, analysis, claim, projectLock, tasks, uploader, worker, crashes>>

DeleteMark(d) ==
  /\ deleter[d].pc = "mark"
  /\ row' = IF Exists(deleter[d].s) THEN Set(row, deleter[d].s, "delete_failed") ELSE row
  /\ Leave(d)
  /\ UNCHANGED <<text, object, chunks, analysis, claim, projectLock, tasks, uploader, worker, errors, crashes>>

Inserting(s) == \E w \in Worker : claim[s] = w /\ worker[w].seen = None

\* Chunks and analysis are deleted as they are committed now: an analysis being inserted is
\* not seen, one being updated is waited for, and so is another deletion.
DeleteChildren(d) ==
  LET s == deleter[d].s
  IN /\ deleter[d].pc = "children"
     /\ claim[s] = NoOne \/ Inserting(s)
     /\ \A e \in Deleter \ {d} : ~(deleter[e].pc = "row" /\ deleter[e].s = s)
     /\ claim' = IF analysis[s] # None THEN Set(claim, s, d) ELSE claim
     /\ deleter' = Set(deleter, d, [deleter[d] EXCEPT !.pc = "row", !.sawChunks = chunks[s],
                                                      !.sawAnalysis = analysis[s] # None])
     /\ UNCHANGED <<stored, projectLock, tasks, uploader, worker, errors, crashes>>

Gone(s) ==
  /\ row' = Set(row, s, None)
  /\ chunks' = Set(chunks, s, FALSE)
  /\ analysis' = Set(analysis, s, None)

\* Mutant: no foreign key protects the rows of children that have appeared since.
DeleteRowUnchecked(d) ==
  LET s == deleter[d].s
  IN /\ deleter[d].pc = "row"
     /\ row' = Set(row, s, None)
     /\ chunks' = IF deleter[d].sawChunks THEN Set(chunks, s, FALSE) ELSE chunks
     /\ analysis' = IF deleter[d].sawAnalysis THEN Set(analysis, s, None) ELSE analysis
     /\ Leave(d)
     /\ Release(d)
     /\ UNCHANGED <<text, object, projectLock, tasks, uploader, worker, errors, crashes>>

\* The row is deleted with its children, or the transaction is rolled back: children have
\* been committed meanwhile, or the row is gone. An insert that refers to it is waited for.
DeleteRow(d) ==
  LET s == deleter[d].s
      new == (chunks[s] /\ ~deleter[d].sawChunks) \/ (analysis[s] # None /\ ~deleter[d].sawAnalysis)
  IN /\ deleter[d].pc = "row"
     /\ ~Inserting(s)
     /\ IF new THEN UNCHANGED <<row, chunks, analysis>> ELSE Gone(s)
     /\ Leave(d)
     /\ Release(d)
     /\ UNCHANGED <<text, object, projectLock, tasks, uploader, worker, errors, crashes>>

-----------------------------------------------------------------------------
(* Crashes: the transaction is rolled back and a task is not delivered again. *)
(* A task or a deletion that the database fails ends the same way.          *)

Crashes == crashes < MaxCrashes /\ crashes' = crashes + 1

UploadCrash(u) ==
  /\ uploader[u].pc # "idle"
  /\ Crashes
  /\ Uploads(u, "idle", uploader[u].s)
  /\ Unlock(u)
  /\ UNCHANGED <<stored, claim, tasks, deleter, worker, errors>>

WorkerCrash(w) ==
  /\ worker[w].pc # "idle"
  /\ Crashes
  /\ Stop(w)
  /\ Release(w)
  /\ UNCHANGED <<stored, projectLock, tasks, uploader, deleter, errors>>

DeleteCrash(d) ==
  /\ deleter[d].pc # "idle"
  /\ Crashes
  /\ Leave(d)
  /\ Release(d)
  /\ UNCHANGED <<stored, projectLock, tasks, uploader, worker, errors>>

-----------------------------------------------------------------------------
UploadStep(u) ==
  \/ UploadAdmit(u) \/ UploadPut(u) \/ UploadPutFails(u)
  \/ UploadCommit(u) \/ UploadCommitFails(u) \/ UploadDispatch(u) \/ UploadDispatchFails(u)

WorkStep(w) ==
  \/ \E s \in Source : ParseRead(w, s) \/ AnalyzeRead(w, s)
  \/ ParseGet(w) \/ ParseWrite(w) \/ ParseDispatch(w) \/ AnalyzeClaim(w) \/ AnalyzeSettle(w)

DeleteStep(d) ==
  \/ \E s \in Source : DeleteRead(d, s)
  \/ DeleteObject(d) \/ DeleteObjectFails(d) \/ DeleteMark(d) \/ DeleteChildren(d) \/ DeleteRow(d)

Next ==
  \/ \E u \in Uploader : UploadStep(u) \/ UploadCrash(u)
  \/ \E w \in Worker : WorkStep(w) \/ WorkerCrash(w)
  \/ \E d \in Deleter : DeleteStep(d) \/ DeleteCrash(d)
  \/ \E s \in Source : RetryAnalysis(s)

Spec == Init /\ [][Next]_vars

-----------------------------------------------------------------------------
(* Properties.                                                              *)

UploaderPC == {"idle", "put", "commit", "dispatch"}
DeleterPC == {"idle", "object", "mark", "children", "row"}
WorkerPC == {"idle", "get", "write", "dispatch", "claim", "call"}
UploaderState == [pc : UploaderPC, s : Source]
DeleterState == [pc : DeleterPC, s : Source, sawChunks : BOOLEAN, sawAnalysis : BOOLEAN]
WorkerState == [pc : WorkerPC, s : Source, seen : AnalysisStatus \union {None},
                want : Status \union {None}]

TypeOK ==
  /\ row \in [Source -> Status \union {None}]
  /\ text \in [Source -> Text \union {None}]
  /\ object \in [Source -> BOOLEAN]
  /\ chunks \in [Source -> BOOLEAN]
  /\ analysis \in [Source -> AnalysisStatus \union {None}]
  /\ claim \in [Source -> Worker \union Deleter \union {NoOne}]
  /\ projectLock \in Uploader \union {NoOne}
  /\ parseTask \subseteq Source
  /\ trigger \in [Source -> 0..(MaxTriggers + 1)]
  /\ uploader \in [Uploader -> UploaderState]
  /\ deleter \in [Deleter -> DeleterState]
  /\ worker \in [Worker -> WorkerState]
  /\ errors \in 0..MaxErrors
  /\ crashes \in 0..MaxCrashes

\* Concurrent uploads never exceed the limit of the project, the ones not committed yet
\* included (create_source).
SourcesWithinLimit ==
  Cardinality({s \in Source : Exists(s)})
    + Cardinality({u \in Uploader : uploader[u].pc \in {"put", "commit"}}) <= MaxSources

\* A source goes only after its file, whatever fails, dies or is asked for twice: a file that
\* is left can always be deleted again through its row (delete_source). What a failed upload
\* leaves never had a row.
DeletionTakesTheFile ==
  [][\A s \in Source : Exists(s) /\ ~Exists(s)' => ~object'[s]]_vars

\* Deletion is final: a parse or an analysis that finishes later leaves nothing behind.
DeletedLeavesNothing == \A s \in Source : ~Exists(s) => ~chunks[s] /\ analysis[s] = None

\* Two analyses of a source never call the model at the same time, although the status they
\* check is not visible before the commit (claim_analysis).
OneCallAtATime ==
  \A v, w \in Worker : worker[v].pc = "call" /\ worker[w].pc = "call" /\ worker[v].s = worker[w].s
                         => v = w

\* What the screening rejects is neither stored as chunks nor sent to the model.
OnlyScreenedIsUsed ==
  /\ \A s \in Source : chunks[s] => text[s] = "lesson"
  /\ \A w \in Worker : worker[w].pc \in {"claim", "call"} => text[worker[w].s] = "lesson"

\* Without crashes and failures of the store, the database or the broker, a source that is
\* processing has somebody who settles it: the request that will send the task, the task, or
\* a worker. Or a deletion has taken its file before a worker has read it.
ProcessingIsCarried ==
  crashes = 0 /\ errors = 0 =>
    \A s \in Source : row[s] = "processing" =>
      \/ s \in parseTask
      \/ \E u \in Uploader : uploader[u].s = s /\ uploader[u].pc = "dispatch"
      \/ \E w \in Worker : worker[w].s = s /\ worker[w].pc \in {"get", "write"}
      \/ ~object[s]

=============================================================================
