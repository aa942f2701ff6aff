------------------------- MODULE SourceLifecycleProofs -------------------------
(***************************************************************************)
(* Proofs about SourceLifecycle for every value of its constants.          *)
(***************************************************************************)
EXTENDS SourceLifecycle, FiniteSetTheorems, TLAPS

-----------------------------------------------------------------------------
(* The invariant, in the order its parts rest on each other.                *)

\* A source that somebody works on has been uploaded once.
Uploading == {"put", "commit"}
Parsing == {"get", "write", "dispatch"}

TextInv ==
  /\ \A s \in Source : Exists(s) \/ trigger[s] > 0 \/ s \in parseTask => text[s] # None
  /\ \A u \in Uploader : uploader[u].pc # "idle" => text[uploader[u].s] # None
  /\ \A w \in Worker : worker[w].pc # "idle" => text[worker[w].s] # None
  /\ \A d \in Deleter : deleter[d].pc # "idle" => text[deleter[d].s] # None

\* A source is in one upload, has one parse task waiting, or is in one worker's parse.
ChainInv ==
  /\ \A u, v \in Uploader :
       uploader[u].pc # "idle" /\ uploader[v].pc # "idle" /\ uploader[u].s = uploader[v].s => u = v
  /\ \A v, w \in Worker :
       worker[v].pc \in Parsing /\ worker[w].pc \in Parsing /\ worker[v].s = worker[w].s => v = w
  /\ \A u \in Uploader : uploader[u].pc # "idle" =>
       /\ uploader[u].s \notin parseTask
       /\ \A w \in Worker : worker[w].pc \in Parsing => worker[w].s # uploader[u].s
  /\ \A w \in Worker : worker[w].pc \in Parsing => worker[w].s \notin parseTask

\* The parse's own trigger comes once, on top of those the owner may ask for.
TriggerInv ==
  \A s \in Source : trigger[s] > MaxTriggers =>
    /\ s \notin parseTask
    /\ \A u \in Uploader : uploader[u].pc # "idle" => uploader[u].s # s
    /\ \A w \in Worker : worker[w].pc \in Parsing => worker[w].s # s

\* A parse that is about to write has the result its file gives.
WantInv == \A w \in Worker : worker[w].pc = "write" => worker[w].want = ParsedStatus(worker[w].s)

TypeInv == TypeOK /\ TextInv /\ ChainInv /\ TriggerInv /\ WantInv

-----------------------------------------------------------------------------
(* What a step changes of its own actor.                                    *)

\* A step of an upload sets its place and its source, and no other upload.
LEMMA UploadsSets ==
  ASSUME TypeOK, NEW u \in Uploader, NEW pc \in UploaderPC, NEW s \in Source, Uploads(u, pc, s)
  PROVE  /\ uploader' \in [Uploader -> UploaderState]
         /\ uploader'[u].pc = pc /\ uploader'[u].s = s
         /\ \A v \in Uploader : v # u => uploader'[v] = uploader[v]
<1> DEFINE rec == [pc |-> pc, s |-> s]
<1>1. rec \in UploaderState /\ rec.pc = pc /\ rec.s = s
  BY DEF UploaderState
<1>2. uploader' = Set(uploader, u, rec)
  BY DEF Uploads
<1> HIDE DEF rec
<1> QED BY <1>1, <1>2 DEF TypeOK, Set

\* A step of a worker sets its task, and no other.
LEMMA WorksSets ==
  ASSUME TypeOK, NEW w \in Worker, NEW rec \in WorkerState, Works(w, rec)
  PROVE  /\ worker' \in [Worker -> WorkerState]
         /\ worker'[w] = rec
         /\ \A v \in Worker : v # w => worker'[v] = worker[v]
BY DEF TypeOK, Works, Set

\* An idle worker is a worker.
LEMMA IdleWorkerType ==
  ASSUME NEW s \in Source
  PROVE  /\ IdleWorker(s) \in WorkerState
         /\ IdleWorker(s).pc = "idle" /\ IdleWorker(s).s = s
BY DEF IdleWorker, WorkerState, WorkerPC

\* A worker that stops is idle.
LEMMA StopSets ==
  ASSUME TypeOK, NEW w \in Worker, Stop(w)
  PROVE  /\ worker' \in [Worker -> WorkerState]
         /\ worker'[w].pc = "idle" /\ worker'[w].s = worker[w].s
         /\ \A v \in Worker : v # w => worker'[v] = worker[v]
<1>1. worker[w] \in WorkerState /\ worker[w].s \in Source
  BY DEF TypeOK, WorkerState
<1> QED BY <1>1, WorksSets, IdleWorkerType DEF Stop

\* A step of a deletion sets its request, and no other.
LEMMA DeletesSets ==
  ASSUME TypeOK, NEW d \in Deleter, NEW rec \in DeleterState, deleter' = Set(deleter, d, rec)
  PROVE  /\ deleter' \in [Deleter -> DeleterState]
         /\ deleter'[d] = rec
         /\ \A e \in Deleter : e # d => deleter'[e] = deleter[e]
BY DEF TypeOK, Set

\* A deletion that leaves is idle.
LEMMA LeaveSets ==
  ASSUME TypeOK, NEW d \in Deleter, Leave(d)
  PROVE  /\ deleter' \in [Deleter -> DeleterState]
         /\ deleter'[d].pc = "idle" /\ deleter'[d].s = deleter[d].s
         /\ \A e \in Deleter : e # d => deleter'[e] = deleter[e]
<1> DEFINE rec == IdleDeleter(deleter[d].s)
<1>1. rec \in DeleterState /\ rec.pc = "idle" /\ rec.s = deleter[d].s
  BY DEF TypeOK, DeleterState, IdleDeleter, DeleterPC
<1>2. deleter' = Set(deleter, d, rec)
  BY DEF Leave
<1> HIDE DEF rec
<1> QED BY <1>1, <1>2, DeletesSets

-----------------------------------------------------------------------------
(* Type correctness.                                                        *)

\* Failures and crashes stay within their bounds.
LEMMA CountersTyped ==
  ASSUME TypeOK, errors' = errors \/ Failure, crashes' = crashes \/ Crashes
  PROVE  errors' \in 0..MaxErrors /\ crashes' \in 0..MaxCrashes
<1>1. errors' \in 0..MaxErrors
  BY SourceAssumption DEF TypeOK, Failure
<1>2. crashes' \in 0..MaxCrashes
  BY SourceAssumption DEF TypeOK, Crashes
<1> QED BY <1>1, <1>2

\* Nothing but an upload changes what a file holds, and only once.
LEMMA WantStays ==
  ASSUME TypeOK, TextInv, WantInv,
         \A s \in Source : text[s] # None => text'[s] = text[s],
         \A w \in Worker : worker'[w] = worker[w] \/ worker'[w].pc # "write"
  PROVE  WantInv'
BY DEF TypeOK, WorkerState, TextInv, WantInv, ParsedStatus

\* Initially there are no files, rows or tasks.
LEMMA InitTypeInv == Init => TypeInv
<1> SUFFICES ASSUME Init PROVE TypeInv
  OBVIOUS
<1>1. AnySource \in Source
  BY SourceAssumption DEF AnySource
<1>2. IdleWorker(AnySource) \in WorkerState /\ IdleWorker(AnySource).pc = "idle"
  BY <1>1, IdleWorkerType
<1>3. IdleUploader(AnySource) \in UploaderState /\ IdleUploader(AnySource).pc = "idle"
  BY <1>1 DEF IdleUploader, UploaderState, UploaderPC
<1>4. IdleDeleter(AnySource) \in DeleterState /\ IdleDeleter(AnySource).pc = "idle"
  BY <1>1 DEF IdleDeleter, DeleterState, DeleterPC
<1>5. TypeOK
  BY <1>2, <1>3, <1>4, SourceAssumption DEF Init, TypeOK
<1>6. TextInv
  BY <1>2, <1>3, <1>4, SourceAssumption DEF Init, TextInv, Exists
<1>7. ChainInv /\ TriggerInv /\ WantInv
  BY <1>2, <1>3, <1>4, SourceAssumption DEF Init, ChainInv, TriggerInv, WantInv, Parsing
<1> QED BY <1>5, <1>6, <1>7 DEF TypeInv

\* Uploads keep the types.
LEMMA UploadTypeInv ==
  ASSUME TypeInv, NEW u \in Uploader, UploadStep(u) \/ UploadCrash(u)
  PROVE  TypeInv'
<1> USE DEF TypeInv
<1>1. uploader[u] \in UploaderState /\ uploader[u].s \in Source
  BY DEF TypeOK, UploaderState
<1>2. CASE UploadAdmit(u)
  <2>1. PICK s \in Source, kind \in Text :
          text[s] = None /\ text' = Set(text, s, kind) /\ Uploads(u, "put", s)
    BY <1>2 DEF UploadAdmit, Admits
  <2>2. "put" \in UploaderPC /\ kind # None
    BY DEF UploaderPC, Text, None
  <2>3. /\ uploader' \in [Uploader -> UploaderState]
        /\ uploader'[u].pc = "put" /\ uploader'[u].s = s
        /\ \A v \in Uploader : v # u => uploader'[v] = uploader[v]
    BY <2>1, <2>2, UploadsSets
  <2>4. TypeOK'
    BY <1>2, <2>1, <2>3 DEF TypeOK, UploadAdmit, Admits, Set, stored, tasks
  <2>5. TextInv'
    BY <1>2, <2>1, <2>2, <2>3 DEF TypeOK, TextInv, UploadAdmit, Admits, Set, Exists, tasks, UploaderState, WorkerState, DeleterState
  <2>6. ChainInv'
    BY <1>2, <2>1, <2>3 DEF TypeOK, TextInv, ChainInv, UploadAdmit, Admits, tasks, Parsing
  <2>7. TriggerInv'
    BY <1>2, <2>1, <2>3, SourceAssumption DEF TypeOK, TextInv, TriggerInv, UploadAdmit, Admits, tasks
  <2>8. WantInv'
    <3>1. \A r \in Source : text[r] # None => text'[r] = text[r]
      BY <2>1 DEF TypeOK, Set
    <3> QED BY <1>2, <3>1, WantStays DEF UploadAdmit, Admits
  <2> QED BY <2>4, <2>5, <2>6, <2>7, <2>8
<1>3. CASE \/ UploadPut(u) \/ UploadPutFails(u) \/ UploadCommit(u) \/ UploadCommitFails(u)
           \/ UploadDispatch(u) \/ UploadDispatchFails(u) \/ UploadCrash(u)
  <2>1. \E pc \in UploaderPC : Uploads(u, pc, uploader[u].s)
    BY <1>3 DEF UploadPut, UploadPutFails, UploadCommit, UploadCommitFails, UploadDispatch,
        UploadDispatchFails, UploadCrash, UploaderPC
  <2>2. /\ uploader' \in [Uploader -> UploaderState]
        /\ uploader'[u].s = uploader[u].s
        /\ \A v \in Uploader : v # u => uploader'[v] = uploader[v]
        /\ uploader[u].pc # "idle"
    BY <1>1, <1>3, <2>1, UploadsSets DEF UploadPut, UploadPutFails, UploadCommit, UploadCommitFails, UploadDispatch,
        UploadDispatchFails, UploadCrash
  <2>3. UNCHANGED <<text, worker, trigger, deleter>>
    BY <1>3 DEF UploadPut, UploadPutFails, UploadCommit, UploadCommitFails, UploadDispatch,
        UploadDispatchFails, UploadCrash, stored, tasks
  <2>4. /\ row' \in [Source -> Status \union {None}]
        /\ \A s \in Source : Exists(s)' => Exists(s) \/ s = uploader[u].s
    BY <1>1, <1>3 DEF TypeOK, UploadPut, UploadPutFails, UploadCommit, UploadCommitFails, UploadDispatch,
        UploadDispatchFails, UploadCrash,
                      Set, stored, Status, Exists
  <2>5. \/ parseTask' = parseTask
        \/ parseTask' = parseTask \union {uploader[u].s} /\ uploader'[u].pc = "idle"
    <3>1. CASE UploadDispatch(u) \/ UploadDispatchFails(u)
      <4>1. "idle" \in UploaderPC
        BY DEF UploaderPC
      <4> QED BY <1>1, <3>1, <4>1, UploadsSets DEF UploadDispatch, UploadDispatchFails
    <3>2. CASE ~(UploadDispatch(u) \/ UploadDispatchFails(u))
      BY <1>3, <3>2 DEF UploadPut, UploadPutFails, UploadCommit, UploadCommitFails, UploadCrash, tasks
    <3> QED BY <3>1, <3>2
  <2>6. TypeOK'
    <3>1. /\ object' \in [Source -> BOOLEAN] /\ chunks' = chunks /\ analysis' = analysis
          /\ claim' = claim
      BY <1>1, <1>3 DEF TypeOK, UploadPut, UploadPutFails, UploadCommit, UploadCommitFails, UploadDispatch,
        UploadDispatchFails, UploadCrash,
                        Set, stored
    <3>2. projectLock' \in Uploader \union {NoOne}
      BY <1>3 DEF TypeOK, UploadPut, UploadPutFails, UploadCommit, UploadCommitFails, UploadDispatch,
        UploadDispatchFails, UploadCrash, Unlock
    <3>3. (errors' = errors \/ Failure) /\ (crashes' = crashes \/ Crashes)
      BY <1>3 DEF UploadPut, UploadPutFails, UploadCommit, UploadCommitFails, UploadDispatch,
        UploadDispatchFails, UploadCrash
    <3> QED BY <1>1, <2>2, <2>3, <2>4, <2>5, <3>1, <3>2, <3>3, CountersTyped DEF TypeOK
  <2>7. TextInv'
    BY <1>1, <2>2, <2>3, <2>4, <2>5 DEF TypeOK, TextInv, Exists
  <2>8. ChainInv'
    BY <1>1, <2>2, <2>3, <2>5 DEF TypeOK, ChainInv, Parsing
  <2>9. TriggerInv'
    BY <1>1, <2>2, <2>3, <2>5 DEF TypeOK, TriggerInv, Parsing
  <2> QED BY <2>3, <2>6, <2>7, <2>8, <2>9, WantStays
<1> QED BY <1>2, <1>3 DEF UploadStep

\* What a worker's step does to the tasks of its source and to its own state.
LEMMA WorkerTypeInv ==
  ASSUME TypeInv, NEW w \in Worker, WorkStep(w) \/ WorkerCrash(w)
  PROVE  TypeInv'
<1> USE DEF TypeInv
<1>1. worker[w] \in WorkerState /\ worker[w].s \in Source
  BY DEF TypeOK, WorkerState
<1>2. ASSUME NEW s \in Source, ParseRead(w, s)
      PROVE  TypeInv'
  <2> DEFINE rec == [IdleWorker(s) EXCEPT !.pc = "get"]
  <2>1. rec \in WorkerState /\ rec.pc = "get" /\ rec.s = s
    BY DEF IdleWorker, WorkerState, WorkerPC
  <2>2. /\ worker' \in [Worker -> WorkerState]
        /\ worker'[w] = worker[w] \/ (worker'[w].pc = "get" /\ worker'[w].s = s)
        /\ \A v \in Worker : v # w => worker'[v] = worker[v]
    <3>1. CASE Exists(s)
      <4>1. Works(w, rec)
        BY <1>2, <3>1 DEF ParseRead
      <4> HIDE DEF rec
      <4> QED BY <2>1, <4>1, WorksSets
    <3>2. CASE ~Exists(s)
      BY <1>2, <3>2 DEF ParseRead, TypeOK
    <3> QED BY <3>1, <3>2
  <2>3. worker[w].pc = "idle" /\ s \in parseTask /\ parseTask' = parseTask \ {s}
    BY <1>2 DEF ParseRead
  <2>4. UNCHANGED <<stored, claim, projectLock, trigger, uploader, deleter, errors, crashes>>
    BY <1>2 DEF ParseRead
  <2>5. TypeOK'
    BY <2>2, <2>3, <2>4 DEF TypeOK, stored
  <2>6. TextInv'
    BY <2>2, <2>3, <2>4 DEF TypeOK, TextInv, Exists, stored
  <2>7. ChainInv'
    BY <2>2, <2>3, <2>4 DEF TypeOK, ChainInv, Parsing
  <2>8. TriggerInv'
    BY <2>2, <2>3, <2>4 DEF TypeOK, TriggerInv, Parsing
  <2>9. WantInv'
    BY <2>2, <2>4, WantStays DEF stored
  <2> QED BY <2>5, <2>6, <2>7, <2>8, <2>9
<1>3. ASSUME NEW s \in Source, AnalyzeRead(w, s)
      PROVE  TypeInv'
  <2> DEFINE rec == [IdleWorker(s) EXCEPT !.pc = "claim", !.seen = analysis[s]]
  <2>1. rec \in WorkerState /\ rec.pc = "claim" /\ rec.s = s
    BY DEF TypeOK, IdleWorker, WorkerState, WorkerPC
  <2>2. /\ worker' \in [Worker -> WorkerState]
        /\ worker'[w] = worker[w] \/ (worker'[w].pc = "claim" /\ worker'[w].s = s)
        /\ \A v \in Worker : v # w => worker'[v] = worker[v]
    <3>1. CASE row[s] = "ready"
      <4>1. Works(w, rec)
        BY <1>3, <3>1 DEF AnalyzeRead
      <4> HIDE DEF rec
      <4> QED BY <2>1, <4>1, WorksSets
    <3>2. CASE row[s] # "ready"
      BY <1>3, <3>2 DEF AnalyzeRead, TypeOK
    <3> QED BY <3>1, <3>2
  <2>3. /\ worker[w].pc = "idle" /\ trigger[s] > 0
        /\ trigger' \in [Source -> 0..(MaxTriggers + 1)] /\ trigger'[s] < trigger[s]
        /\ \A r \in Source : r # s => trigger'[r] = trigger[r]
    BY <1>3, SourceAssumption DEF AnalyzeRead, TypeOK, Set
  <2>4. UNCHANGED <<stored, claim, projectLock, parseTask, uploader, deleter, errors, crashes>>
    BY <1>3 DEF AnalyzeRead
  <2>5. TypeOK'
    BY <2>2, <2>3, <2>4 DEF TypeOK, stored
  <2>6. TextInv'
    BY <2>2, <2>3, <2>4, SourceAssumption DEF TypeOK, TextInv, Exists, stored
  <2>7. ChainInv'
    BY <2>2, <2>3, <2>4 DEF TypeOK, ChainInv, Parsing
  <2>8. TriggerInv'
    BY <2>2, <2>3, <2>4, SourceAssumption DEF TypeOK, TriggerInv, Parsing
  <2>9. WantInv'
    BY <2>2, <2>4, WantStays DEF stored
  <2> QED BY <2>5, <2>6, <2>7, <2>8, <2>9
<1>4. CASE ParseGet(w) \/ ParseWrite(w) \/ AnalyzeClaim(w) \/ AnalyzeSettle(w) \/ WorkerCrash(w)
  <2>1. /\ worker' \in [Worker -> WorkerState]
        /\ worker[w].pc # "idle" /\ worker'[w].s = worker[w].s
        /\ worker'[w].pc \in Parsing => worker[w].pc \in Parsing
        /\ worker'[w].pc = "write" => worker'[w].want = ParsedStatus(worker[w].s)
        /\ \A v \in Worker : v # w => worker'[v] = worker[v]
    <3>1. CASE Stop(w)
      <4>1. worker[w].pc # "idle"
        BY <1>4 DEF ParseGet, ParseWrite, AnalyzeClaim, AnalyzeSettle, WorkerCrash
      <4> QED BY <3>1, <4>1, StopSets DEF Parsing
    <3>2. CASE ParseGet(w) /\ ~Stop(w)
      <4> DEFINE rec == [worker[w] EXCEPT !.pc = "write", !.want = ParsedStatus(worker[w].s)]
      <4>1. rec \in WorkerState /\ rec.pc = "write" /\ rec.s = worker[w].s
          /\ rec.want = ParsedStatus(worker[w].s)
        BY <1>1 DEF WorkerState, WorkerPC, ParsedStatus, Status
      <4>2. Works(w, rec) /\ worker[w].pc = "get"
        BY <3>2 DEF ParseGet
      <4> HIDE DEF rec
      <4> QED BY <4>1, <4>2, WorksSets DEF Parsing
    <3>3. CASE ParseWrite(w) /\ ~Stop(w)
      <4> DEFINE rec == [worker[w] EXCEPT !.pc = "dispatch"]
      <4>1. rec \in WorkerState /\ rec.pc = "dispatch" /\ rec.s = worker[w].s
        BY <1>1 DEF WorkerState, WorkerPC
      <4>2. Works(w, rec) /\ worker[w].pc = "write"
        BY <3>3 DEF ParseWrite
      <4> HIDE DEF rec
      <4> QED BY <4>1, <4>2, WorksSets DEF Parsing
    <3>4. CASE AnalyzeClaim(w) /\ ~Stop(w)
      <4> DEFINE rec == [worker[w] EXCEPT !.pc = "call"]
      <4>1. rec \in WorkerState /\ rec.pc = "call" /\ rec.s = worker[w].s
        BY <1>1 DEF WorkerState, WorkerPC
      <4>2. Works(w, rec) /\ worker[w].pc = "claim"
        BY <3>4 DEF AnalyzeClaim
      <4> HIDE DEF rec
      <4> QED BY <4>1, <4>2, WorksSets DEF Parsing
    <3> QED BY <1>4, <3>1, <3>2, <3>3, <3>4 DEF AnalyzeSettle, WorkerCrash
  <2>2. /\ UNCHANGED <<text, object, projectLock, tasks, uploader, deleter>>
        /\ row' \in [Source -> Status \union {None}]
        /\ \A s \in Source : Exists(s)' <=> Exists(s)
    <3>1. CASE ParseWrite(w)
      <4>1. worker[w].want \in Status /\ worker[w].want # None
        BY <3>1 DEF WantInv, ParseWrite, ParsedStatus, Status, None
      <4> QED BY <1>1, <3>1, <4>1 DEF TypeOK, ParseWrite, Set, Exists, tasks
    <3>2. CASE ~ParseWrite(w)
      BY <1>4, <3>2 DEF TypeOK, ParseGet, AnalyzeClaim, AnalyzeSettle, WorkerCrash, Exists, stored, tasks
    <3> QED BY <3>1, <3>2
  <2>3. /\ chunks' \in [Source -> BOOLEAN]
        /\ analysis' \in [Source -> AnalysisStatus \union {None}]
        /\ claim' \in [Source -> Worker \union Deleter \union {NoOne}]
    <3>1. CASE ParseWrite(w)
      BY <1>1, <3>1 DEF TypeOK, ParseWrite, Set
    <3>2. CASE AnalyzeSettle(w)
      BY <1>1, <3>2 DEF TypeOK, AnalyzeSettle, Set, Release
    <3>3. CASE ParseGet(w) \/ AnalyzeClaim(w) \/ WorkerCrash(w)
      BY <1>1, <3>3 DEF TypeOK, ParseGet, AnalyzeClaim, WorkerCrash, Set, Release, stored
    <3> QED BY <1>4, <3>1, <3>2, <3>3
  <2>4. (errors' = errors \/ Failure) /\ (crashes' = crashes \/ Crashes)
    BY <1>4 DEF ParseGet, ParseWrite, AnalyzeClaim, AnalyzeSettle, WorkerCrash
  <2>5. TypeOK'
    BY <2>1, <2>2, <2>3, <2>4, CountersTyped DEF TypeOK, tasks
  <2>6. TextInv'
    BY <2>1, <2>2 DEF TextInv, Exists, tasks
  <2>7. ChainInv' /\ TriggerInv'
    BY <2>1, <2>2 DEF ChainInv, TriggerInv, tasks
  <2>8. WantInv'
    BY <2>1, <2>2 DEF TextInv, WantInv, ParsedStatus
  <2> QED BY <2>5, <2>6, <2>7, <2>8
<1>5. CASE ParseDispatch(w)
  <2>1. /\ worker' \in [Worker -> WorkerState]
        /\ worker'[w].pc = "idle" /\ worker'[w].s = worker[w].s
        /\ \A v \in Worker : v # w => worker'[v] = worker[v]
        /\ worker[w].pc = "dispatch"
    BY <1>5, StopSets DEF ParseDispatch
  <2>2. UNCHANGED <<stored, claim, projectLock, parseTask, uploader, deleter, errors, crashes>>
    BY <1>5 DEF ParseDispatch
  <2>3. trigger[worker[w].s] <= MaxTriggers
    BY <1>1, <2>1, SourceAssumption DEF TypeOK, TriggerInv, Parsing
  <2>4. /\ trigger' \in [Source -> 0..(MaxTriggers + 1)]
        /\ \A s \in Source : s # worker[w].s => trigger'[s] = trigger[s]
    BY <1>1, <1>5, <2>3, SourceAssumption DEF TypeOK, ParseDispatch, Set
  <2>5. TypeOK'
    BY <2>1, <2>2, <2>4 DEF TypeOK, stored
  <2>6. TextInv'
    BY <1>1, <2>1, <2>2, <2>4 DEF TypeOK, TextInv, Exists, stored
  <2>7. ChainInv'
    BY <2>1, <2>2 DEF ChainInv, Parsing
  <2>8. TriggerInv'
    BY <1>1, <2>1, <2>2, <2>4 DEF TypeOK, ChainInv, TriggerInv, Parsing
  <2>9. WantInv'
    BY <2>1, <2>2, WantStays DEF stored
  <2> QED BY <2>5, <2>6, <2>7, <2>8, <2>9
<1> QED BY <1>2, <1>3, <1>4, <1>5 DEF WorkStep

\* Deletions keep the types.
LEMMA DeleteTypeInv ==
  ASSUME TypeInv, NEW d \in Deleter, DeleteStep(d) \/ DeleteCrash(d)
  PROVE  TypeInv'
<1> USE DEF TypeInv
<1>1. deleter[d] \in DeleterState /\ deleter[d].s \in Source
  BY DEF TypeOK, DeleterState
<1>2. /\ UNCHANGED <<text, projectLock, tasks, uploader, worker>>
      /\ row' \in [Source -> Status \union {None}]
      /\ \A s \in Source : Exists(s)' => Exists(s)
      /\ object' \in [Source -> BOOLEAN]
      /\ chunks' \in [Source -> BOOLEAN]
      /\ analysis' \in [Source -> AnalysisStatus \union {None}]
      /\ claim' \in [Source -> Worker \union Deleter \union {NoOne}]
  <2>1. CASE DeleteRow(d)
    BY <1>1, <2>1 DEF TypeOK, DeleteRow, Gone, Exists, Release, Set, tasks
  <2>2. CASE DeleteObject(d) \/ DeleteObjectFails(d) \/ DeleteMark(d)
    BY <1>1, <2>2 DEF TypeOK, DeleteObject, DeleteObjectFails, DeleteMark, Exists, Set, Status, None, tasks
  <2>3. CASE DeleteChildren(d) \/ DeleteCrash(d)
    BY <1>1, <2>3 DEF TypeOK, DeleteChildren, DeleteCrash, Exists, Release, Set, stored, tasks
  <2>4. CASE \E s \in Source : DeleteRead(d, s)
    BY <2>4 DEF TypeOK, DeleteRead, Exists, stored, tasks
  <2> QED BY <2>1, <2>2, <2>3, <2>4 DEF DeleteStep
<1>3. /\ deleter' \in [Deleter -> DeleterState]
      /\ deleter'[d].pc # "idle" => text[deleter'[d].s] # None
      /\ \A e \in Deleter : e # d => deleter'[e] = deleter[e]
  <2>1. CASE Leave(d)
    BY <2>1, LeaveSets
  <2>2. CASE ~Leave(d)
    <3>1. PICK rec \in DeleterState : deleter' = Set(deleter, d, rec) /\ text[rec.s] # None
      <4>1. CASE \E s \in Source : DeleteRead(d, s)
        <5>1. PICK s \in Source : DeleteRead(d, s)
          BY <4>1
        <5> DEFINE new == [IdleDeleter(s) EXCEPT !.pc = "object"]
        <5>2. new \in DeleterState /\ new.s = s
          BY DEF IdleDeleter, DeleterState, DeleterPC
        <5>3. deleter' = Set(deleter, d, new) /\ text[s] # None
          BY <5>1 DEF DeleteRead, TextInv
        <5> HIDE DEF new
        <5> QED BY <5>2, <5>3
      <4>2. CASE DeleteObject(d) \/ DeleteObjectFails(d)
        <5>1. PICK pc \in DeleterPC : Deletes(d, pc) /\ deleter[d].pc # "idle"
          BY <4>2 DEF DeleteObject, DeleteObjectFails, DeleterPC
        <5> DEFINE new == [deleter[d] EXCEPT !.pc = pc]
        <5>2. new \in DeleterState /\ new.s = deleter[d].s
          BY <1>1 DEF DeleterState
        <5>3. deleter' = Set(deleter, d, new) /\ text[deleter[d].s] # None
          BY <5>1 DEF Deletes, TextInv
        <5> HIDE DEF new
        <5> QED BY <5>2, <5>3
      <4>3. CASE DeleteChildren(d)
        <5> DEFINE new == [deleter[d] EXCEPT !.pc = "row", !.sawChunks = chunks[deleter[d].s],
                                             !.sawAnalysis = analysis[deleter[d].s] # None]
        <5>1. new \in DeleterState /\ new.s = deleter[d].s
          BY <1>1 DEF TypeOK, DeleterState, DeleterPC
        <5>2. deleter' = Set(deleter, d, new) /\ text[deleter[d].s] # None
          BY <4>3 DEF DeleteChildren, TextInv
        <5> HIDE DEF new
        <5> QED BY <5>1, <5>2
      <4> QED BY <2>2, <4>1, <4>2, <4>3 DEF DeleteStep, DeleteMark, DeleteRow, DeleteCrash
    <3> QED BY <3>1, DeletesSets
  <2> QED BY <2>1, <2>2
<1>4. (errors' = errors \/ Failure) /\ (crashes' = crashes \/ Crashes)
  BY DEF DeleteStep, DeleteRead, DeleteObject, DeleteObjectFails, DeleteMark, DeleteChildren,
         DeleteRow, DeleteCrash
<1>5. TypeOK'
  BY <1>2, <1>3, <1>4, CountersTyped DEF TypeOK, tasks
<1>6. TextInv'
  BY <1>2, <1>3 DEF TextInv, Exists, tasks
<1>7. ChainInv' /\ TriggerInv' /\ WantInv'
  BY <1>2 DEF ChainInv, TriggerInv, WantInv, ParsedStatus, tasks
<1> QED BY <1>5, <1>6, <1>7

\* Every step keeps the types.
LEMMA NextTypeInv == TypeInv /\ [Next]_vars => TypeInv'
<1> SUFFICES ASSUME TypeInv, [Next]_vars PROVE TypeInv'
  OBVIOUS
<1>1. CASE \E u \in Uploader : UploadStep(u) \/ UploadCrash(u)
  BY <1>1, UploadTypeInv
<1>2. CASE \E w \in Worker : WorkStep(w) \/ WorkerCrash(w)
  BY <1>2, WorkerTypeInv
<1>3. CASE \E d \in Deleter : DeleteStep(d) \/ DeleteCrash(d)
  BY <1>3, DeleteTypeInv
<1>4. ASSUME NEW s \in Source, RetryAnalysis(s)
      PROVE  TypeInv'
  <2>1. /\ trigger' \in [Source -> 0..(MaxTriggers + 1)]
        /\ \A r \in Source : trigger'[r] > MaxTriggers => trigger[r] > MaxTriggers
        /\ \A r \in Source : trigger'[r] > 0 => trigger[r] > 0 \/ Exists(r)
    BY <1>4, SourceAssumption DEF TypeInv, TypeOK, RetryAnalysis, Set, Exists, None
  <2>2. UNCHANGED <<stored, claim, projectLock, parseTask, uploader, deleter, worker, errors, crashes>>
    BY <1>4 DEF RetryAnalysis
  <2> QED BY <2>1, <2>2 DEF TypeInv, TypeOK, TextInv, ChainInv, TriggerInv, WantInv, ParsedStatus,
                            Exists, stored
<1>5. CASE UNCHANGED vars
  BY <1>5 DEF TypeInv, TypeOK, TextInv, ChainInv, TriggerInv, WantInv, ParsedStatus, Exists, vars,
              stored, tasks
<1> QED BY <1>1, <1>2, <1>3, <1>4, <1>5 DEF Next

\* The types hold in every reachable state.
LEMMA SpecTypeInv == Spec => []TypeInv
<1> QED BY InitTypeInv, NextTypeInv, PTL DEF Spec

\* Every reachable state of the sources has the declared types; in particular a parse asks
\* for an analysis only once, on top of what the owner asks for (parse_source).
THEOREM SourceTypeCorrect == Spec => []TypeOK
BY SpecTypeInv, PTL DEF TypeInv

-----------------------------------------------------------------------------
(* Safety.  The invariant adds to the types:                                *)

Existing == {s \in Source : Exists(s)}

\* Who uploads holds the lock and works on a source nobody else can reach.
UploadInv ==
  \A u \in Uploader : uploader[u].pc \in Uploading =>
    /\ projectLock = u
    /\ ~Exists(uploader[u].s)
    /\ \A d \in Deleter : deleter[d].pc # "idle" => deleter[d].s # uploader[u].s

LimitInv ==
  /\ Cardinality(Existing) <= MaxSources
  /\ (\E u \in Uploader : uploader[u].pc \in Uploading) => Cardinality(Existing) < MaxSources

\* Who calls the model holds the row of the analysis, and so does a deletion that has seen it.
ClaimInv ==
  /\ \A w \in Worker : worker[w].pc = "call" =>
       /\ claim[worker[w].s] = w
       /\ Exists(worker[w].s)
       /\ worker[w].seen = None <=> analysis[worker[w].s] = None
  /\ \A s \in Source, w \in Worker : claim[s] = w => worker[w].pc = "call" /\ worker[w].s = s
  /\ \A d \in Deleter : deleter[d].pc = "row" /\ deleter[d].sawAnalysis => claim[deleter[d].s] = d

ScreenInv ==
  /\ \A s \in Source : row[s] = "ready" => text[s] = "lesson"
  /\ OnlyScreenedIsUsed

\* A deletion past the object store has left no file.
FileInv == \A d \in Deleter : deleter[d].pc \in {"children", "row"} => ~object[deleter[d].s]

SafeInv ==
  /\ TypeInv /\ UploadInv /\ LimitInv /\ ClaimInv /\ ScreenInv /\ FileInv
  /\ DeletedLeavesNothing /\ ProcessingIsCarried

\* Initially nobody holds a lock or a row.
LEMMA InitSafeInv == Init => SafeInv
<1> SUFFICES ASSUME Init PROVE SafeInv
  OBVIOUS
<1>1. TypeInv
  BY InitTypeInv
<1>2. AnySource \in Source
  BY SourceAssumption DEF AnySource
<1>3. IdleWorker(AnySource).pc = "idle" /\ IdleUploader(AnySource).pc = "idle" /\ IdleDeleter(AnySource).pc = "idle"
  BY DEF IdleWorker, IdleUploader, IdleDeleter
<1>4. UploadInv /\ ClaimInv /\ FileInv
  BY <1>3, SourceAssumption DEF Init, UploadInv, ClaimInv, FileInv, Uploading
<1>5. ScreenInv /\ DeletedLeavesNothing /\ ProcessingIsCarried
  BY <1>3 DEF Init, ScreenInv, OnlyScreenedIsUsed, DeletedLeavesNothing,
              ProcessingIsCarried, None
<1>6. LimitInv
  <2>1. Existing = {}
    BY DEF Init, Existing, Exists
  <2>2. \A u \in Uploader : uploader[u].pc \notin Uploading
    BY <1>3 DEF Init, Uploading
  <2> QED BY <2>1, <2>2, FS_EmptySet, SourceAssumption DEF LimitInv
<1> QED BY <1>1, <1>4, <1>5, <1>6 DEF SafeInv

\* The limit survives when no source appears and nobody begins to upload.
LEMMA LimitStays ==
  ASSUME LimitInv, Existing' \subseteq Existing,
         \A u \in Uploader : uploader'[u].pc \in Uploading => uploader[u].pc \in Uploading
  PROVE  LimitInv'
<1>1. IsFiniteSet(Existing) /\ IsFiniteSet(Existing')
  BY SourceAssumption, FS_Subset DEF Existing
<1>2. Cardinality(Existing') \in Nat /\ Cardinality(Existing) \in Nat
  BY <1>1, FS_CardinalityType
<1>3. Cardinality(Existing') <= Cardinality(Existing)
  BY <1>1, FS_Subset
<1> QED BY <1>2, <1>3, SourceAssumption DEF LimitInv

\* Uploads keep the invariant ...
LEMMA UploadSafeInv ==
  ASSUME SafeInv, NEW u \in Uploader, UploadStep(u) \/ UploadCrash(u)
  PROVE  SafeInv'
<1> USE DEF SafeInv, TypeInv
<1>1. TypeInv'
  BY UploadTypeInv
<1>2. uploader[u].s \in Source
  BY DEF TypeOK, UploaderState
<1>3. \A v \in Uploader : uploader[v].s \in Source
  BY DEF TypeOK, UploaderState
<1>4. UNCHANGED <<chunks, analysis, claim, deleter, worker>>
  BY DEF UploadStep, UploadAdmit, Admits, UploadPut, UploadPutFails, UploadCommit, UploadCommitFails,
         UploadDispatch, UploadDispatchFails, UploadCrash, stored
<1>5. CASE UploadAdmit(u)
  <2>1. PICK s \in Source, kind \in Text :
          text[s] = None /\ text' = Set(text, s, kind) /\ Uploads(u, "put", s)
    BY <1>5 DEF UploadAdmit, Admits
  <2>2. /\ uploader'[u].pc = "put" /\ uploader'[u].s = s
        /\ \A v \in Uploader : v # u => uploader'[v] = uploader[v]
    BY <2>1, UploadsSets DEF UploaderPC
  <2>3. /\ UNCHANGED <<row, object, tasks, errors, crashes>>
        /\ uploader[u].pc = "idle" /\ projectLock = NoOne /\ projectLock' = u
        /\ Cardinality(Existing) < MaxSources
    BY <1>5 DEF UploadAdmit, Admits, Existing
  <2>4. \A v \in Uploader : uploader[v].pc \notin Uploading
    BY <2>3, SourceAssumption DEF UploadInv
  <2>5. UploadInv'
    BY <1>4, <2>1, <2>2, <2>3, <2>4 DEF UploadInv, TextInv, Exists
  <2>6. LimitInv'
    BY <2>2, <2>3 DEF LimitInv, Existing, Exists
  <2>7. ClaimInv' /\ FileInv' /\ DeletedLeavesNothing'
    BY <1>4, <2>3 DEF ClaimInv, FileInv, DeletedLeavesNothing, Exists
  <2>8. ScreenInv'
    <3>1. \A r \in Source : text[r] # None => text'[r] = text[r]
      BY <2>1 DEF TypeOK, Set
    <3>2. \A w \in Worker : worker[w].s \in Source
      BY DEF TypeOK, WorkerState
    <3> QED BY <1>4, <2>3, <3>1, <3>2 DEF ScreenInv, OnlyScreenedIsUsed, None
  <2>9. ProcessingIsCarried'
    BY <1>4, <2>2, <2>3 DEF ProcessingIsCarried, Exists, tasks
  <2> QED BY <1>1, <2>5, <2>6, <2>7, <2>8, <2>9
<1>6. CASE UploadPut(u)
  <2>1. /\ uploader'[u].pc = "commit" /\ uploader'[u].s = uploader[u].s /\ uploader[u].pc = "put"
        /\ \A v \in Uploader : v # u => uploader'[v] = uploader[v]
    BY <1>2, <1>6, UploadsSets DEF UploadPut, UploaderPC
  <2>2. /\ UNCHANGED <<row, text, projectLock, tasks, errors, crashes>>
        /\ object' = Set(object, uploader[u].s, TRUE)
    BY <1>6 DEF UploadPut
  <2>3. UploadInv'
    BY <1>4, <2>1, <2>2 DEF UploadInv, Uploading, Exists
  <2>4. LimitInv'
    BY <2>1, <2>2, LimitStays DEF Existing, Exists, Uploading
  <2>5. ClaimInv' /\ ScreenInv' /\ DeletedLeavesNothing'
    BY <1>4, <2>2 DEF ClaimInv, ScreenInv, OnlyScreenedIsUsed, DeletedLeavesNothing, Exists
  <2>6. FileInv'
    BY <1>2, <1>4, <2>1, <2>2 DEF TypeOK, FileInv, UploadInv, Uploading, Set, DeleterState
  <2>7. ProcessingIsCarried'
    BY <1>2, <1>4, <2>1, <2>2 DEF TypeOK, ProcessingIsCarried, UploadInv, Uploading, Exists, Set, tasks, None
  <2> QED BY <1>1, <2>3, <2>4, <2>5, <2>6, <2>7
<1>7. CASE UploadPutFails(u) \/ UploadCrash(u)
  <2>1. /\ uploader'[u].pc = "idle" /\ uploader[u].pc # "idle"
        /\ \A v \in Uploader : v # u => uploader'[v] = uploader[v]
        /\ UploadPutFails(u) => uploader[u].pc = "put"
    BY <1>2, <1>7, UploadsSets DEF UploadPutFails, UploadCrash, UploaderPC
  <2>2. /\ UNCHANGED <<row, text, tasks>>
        /\ Unlock(u)
        /\ UploadPutFails(u) \/ object' = object
        /\ \A s \in Source : s # uploader[u].s => object'[s] = object[s]
        /\ errors' # 0 \/ crashes' # 0
    BY <1>2, <1>7, SourceAssumption DEF TypeOK, UploadPutFails, UploadCrash, Failure, Crashes, Set, stored
  <2>3. UploadInv'
    BY <1>4, <2>1, <2>2 DEF UploadInv, Uploading, Unlock, Exists
  <2>4. LimitInv'
    BY <2>1, <2>2, LimitStays DEF Existing, Exists, Uploading
  <2>5. ClaimInv' /\ ScreenInv' /\ DeletedLeavesNothing'
    BY <1>4, <2>2 DEF ClaimInv, ScreenInv, OnlyScreenedIsUsed, DeletedLeavesNothing, Exists
  <2>6. FileInv'
    BY <1>2, <1>4, <2>1, <2>2 DEF TypeOK, FileInv, UploadInv, Uploading, DeleterState
  <2>7. ProcessingIsCarried'
    BY <2>2 DEF ProcessingIsCarried
  <2> QED BY <1>1, <2>3, <2>4, <2>5, <2>6, <2>7
<1>8. CASE UploadCommit(u) \/ UploadCommitFails(u)
  <2>1. /\ uploader'[u].pc \in {"dispatch", "idle"} /\ uploader'[u].s = uploader[u].s
        /\ uploader[u].pc = "commit"
        /\ uploader'[u].pc = "idle" => UploadCommitFails(u)
        /\ \A v \in Uploader : v # u => uploader'[v] = uploader[v]
    <3>1. PICK pc \in {"dispatch", "idle"} :
            Uploads(u, pc, uploader[u].s) /\ (pc = "idle" => UploadCommitFails(u))
      BY <1>8 DEF UploadCommit, UploadCommitFails
    <3>2. uploader[u].pc = "commit" /\ pc \in UploaderPC
      BY <1>8 DEF UploadCommit, UploadCommitFails, UploaderPC
    <3> QED BY <1>2, <3>1, <3>2, UploadsSets
  <2>2. /\ UNCHANGED <<text, object, tasks, crashes>>
        /\ row' = row \/ row' = Set(row, uploader[u].s, "processing")
        /\ Unlock(u)
        /\ UploadCommitFails(u) => errors' # 0
        /\ ~UploadCommitFails(u) => errors' = errors
    BY <1>8, SourceAssumption DEF TypeOK, UploadCommit, UploadCommitFails, Failure
  <2>3. \A v \in Uploader : v # u => uploader[v].pc \notin Uploading
    BY <2>1 DEF UploadInv, Uploading
  <2>4. UploadInv'
    BY <2>1, <2>3 DEF UploadInv, Uploading
  <2>5. LimitInv'
    <3>1. CASE row' = row
      BY <2>1, <3>1, LimitStays DEF Existing, Exists, Uploading
    <3>2. CASE row' = Set(row, uploader[u].s, "processing")
      <4>1. Existing' = Existing \union {uploader[u].s} /\ uploader[u].s \notin Existing
        BY <1>2, <2>1, <3>2 DEF TypeOK, Existing, Exists, UploadInv, Uploading, Set, None
      <4>2. IsFiniteSet(Existing)
        BY SourceAssumption, FS_Subset DEF Existing
      <4>3. Cardinality(Existing') = Cardinality(Existing) + 1 /\ Cardinality(Existing) \in Nat
        BY <4>1, <4>2, FS_AddElement, FS_CardinalityType
      <4>4. Cardinality(Existing) < MaxSources
        BY <2>1 DEF LimitInv, Uploading
      <4>5. \A v \in Uploader : uploader'[v].pc \notin Uploading
        BY <2>1, <2>3 DEF Uploading
      <4> QED BY <4>3, <4>4, <4>5, SourceAssumption DEF LimitInv
    <3> QED BY <2>2, <3>1, <3>2
  <2>6. ClaimInv' /\ FileInv' /\ DeletedLeavesNothing'
    BY <1>2, <1>4, <2>2 DEF TypeOK, ClaimInv, FileInv, DeletedLeavesNothing, Exists, Set, WorkerState, None
  <2>7. ScreenInv'
    BY <1>2, <1>4, <2>2 DEF TypeOK, ScreenInv, OnlyScreenedIsUsed, Set
  <2>8. ProcessingIsCarried'
    <3>1. CASE UploadCommitFails(u)
      BY <2>2, <3>1 DEF ProcessingIsCarried
    <3>2. CASE ~UploadCommitFails(u)
      BY <1>2, <1>4, <2>1, <2>2, <3>2 DEF TypeOK, ProcessingIsCarried, Set, tasks
    <3> QED BY <3>1, <3>2
  <2> QED BY <1>1, <2>4, <2>5, <2>6, <2>7, <2>8
<1>9. CASE UploadDispatch(u) \/ UploadDispatchFails(u)
  <2>1. /\ uploader'[u].pc = "idle" /\ uploader[u].pc = "dispatch"
        /\ \A v \in Uploader : v # u => uploader'[v] = uploader[v]
    BY <1>2, <1>9, UploadsSets DEF UploadDispatch, UploadDispatchFails, UploaderPC
  <2>2. /\ UNCHANGED <<stored, projectLock, crashes>>
        /\ \/ parseTask' = parseTask \union {uploader[u].s} /\ errors' = errors
           \/ errors' # 0
    BY <1>9, SourceAssumption DEF TypeOK, UploadDispatch, UploadDispatchFails, Failure
  <2>3. UploadInv'
    BY <1>4, <2>1, <2>2 DEF UploadInv, Uploading, Exists, stored
  <2>4. LimitInv'
    BY <2>1, <2>2, LimitStays DEF Existing, Exists, Uploading, stored
  <2>5. ClaimInv' /\ ScreenInv' /\ FileInv' /\ DeletedLeavesNothing'
    BY <1>4, <2>2 DEF ClaimInv, ScreenInv, OnlyScreenedIsUsed, FileInv, DeletedLeavesNothing, Exists, stored
  <2>6. ProcessingIsCarried'
    BY <1>4, <2>1, <2>2 DEF ProcessingIsCarried, Exists, stored
  <2> QED BY <1>1, <2>3, <2>4, <2>5, <2>6
<1> QED BY <1>5, <1>6, <1>7, <1>8, <1>9 DEF UploadStep

\* The parts of the invariant about uploads, files and the limit are not a worker's business:
\* it neither adds nor removes a source.
LEMMA WorkerKeeps ==
  ASSUME UploadInv, LimitInv, FileInv,
         UNCHANGED <<object, projectLock, uploader, deleter>>,
         \A s \in Source : Exists(s)' <=> Exists(s),
         \A u \in Uploader : uploader[u].s \in Source
  PROVE  UploadInv' /\ LimitInv' /\ FileInv'
<1>1. Existing' = Existing
  BY DEF Existing
<1> QED BY <1>1, LimitStays DEF UploadInv, FileInv

\* ... workers do ...
LEMMA WorkerSafeInv ==
  ASSUME SafeInv, NEW w \in Worker, WorkStep(w) \/ WorkerCrash(w)
  PROVE  SafeInv'
<1> USE DEF SafeInv, TypeInv
<1>1. TypeInv'
  BY WorkerTypeInv
<1>2. /\ \A v \in Worker : worker[v] \in WorkerState /\ worker[v].s \in Source
      /\ \A u \in Uploader : uploader[u].s \in Source
      /\ \A d \in Deleter : deleter[d].s \in Source
  BY DEF TypeOK, WorkerState, UploaderState, DeleterState
<1>3. UNCHANGED <<text, object, projectLock, uploader, deleter>>
  BY DEF WorkStep, ParseRead, ParseGet, ParseWrite, ParseDispatch, AnalyzeRead, AnalyzeClaim,
         AnalyzeSettle, WorkerCrash, stored
<1>4. ASSUME NEW s \in Source, ParseRead(w, s)
      PROVE  SafeInv'
  <2> DEFINE rec == [IdleWorker(s) EXCEPT !.pc = "get"]
  <2>1. rec \in WorkerState /\ rec.pc = "get" /\ rec.s = s
    BY DEF IdleWorker, WorkerState, WorkerPC
  <2>2. /\ IF Exists(s) THEN worker'[w].pc = "get" /\ worker'[w].s = s ELSE worker'[w] = worker[w]
        /\ \A v \in Worker : v # w => worker'[v] = worker[v]
    <3>1. Exists(s) => Works(w, rec)
      BY <1>4 DEF ParseRead
    <3>2. ~Exists(s) => worker' = worker
      BY <1>4 DEF ParseRead
    <3> HIDE DEF rec
    <3> QED BY <2>1, <3>1, <3>2, WorksSets
  <2>3. /\ UNCHANGED <<stored, claim, errors, crashes>>
        /\ parseTask' = parseTask \ {s} /\ worker[w].pc = "idle"
    BY <1>4 DEF ParseRead
  <2>4. UploadInv' /\ LimitInv' /\ FileInv'
    BY <1>2, <1>3, <2>3, WorkerKeeps DEF Exists, stored
  <2>5. ClaimInv'
    BY <1>3, <2>2, <2>3 DEF ClaimInv, Exists, stored
  <2>6. ScreenInv' /\ DeletedLeavesNothing'
    BY <2>2, <2>3 DEF ScreenInv, OnlyScreenedIsUsed, DeletedLeavesNothing, Exists, stored
  <2>7. ProcessingIsCarried'
    BY <1>3, <2>2, <2>3 DEF ProcessingIsCarried, Exists, stored, None
  <2> QED BY <1>1, <2>4, <2>5, <2>6, <2>7
<1>5. CASE ParseGet(w)
  <2>1. /\ \/ worker'[w].pc = "idle" /\ (errors' # 0 \/ ~object[worker[w].s])
           \/ worker'[w].pc = "write" /\ worker'[w].s = worker[w].s
        /\ \A v \in Worker : v # w => worker'[v] = worker[v]
    <3> DEFINE rec == [worker[w] EXCEPT !.pc = "write", !.want = ParsedStatus(worker[w].s)]
    <3>1. rec \in WorkerState /\ rec.pc = "write" /\ rec.s = worker[w].s
      BY <1>2 DEF WorkerState, WorkerPC, ParsedStatus, Status
    <3>2. Works(w, rec) \/ (Stop(w) /\ (~object[worker[w].s] \/ Failure))
      BY <1>5 DEF ParseGet
    <3>3. Failure => errors' # 0
      BY SourceAssumption DEF TypeOK, Failure
    <3> HIDE DEF rec
    <3> QED BY <3>1, <3>2, <3>3, WorksSets, StopSets
  <2>2. /\ UNCHANGED <<stored, claim, tasks, crashes>>
        /\ errors' = errors \/ errors' # 0
        /\ worker[w].pc = "get"
    BY <1>5, SourceAssumption DEF TypeOK, ParseGet, Failure
  <2>3. UploadInv' /\ LimitInv' /\ FileInv'
    BY <1>2, <1>3, <2>2, WorkerKeeps DEF Exists, stored
  <2>4. ClaimInv'
    BY <1>3, <2>1, <2>2 DEF ClaimInv, Exists, stored
  <2>5. ScreenInv' /\ DeletedLeavesNothing'
    BY <2>1, <2>2 DEF ScreenInv, OnlyScreenedIsUsed, DeletedLeavesNothing, Exists, stored
  <2>6. ProcessingIsCarried'
    BY <1>3, <2>1, <2>2 DEF ProcessingIsCarried, stored, tasks
  <2> QED BY <1>1, <2>3, <2>4, <2>5, <2>6
<1>6. CASE ParseWrite(w)
  <2> DEFINE s == worker[w].s
             want == worker[w].want
  <2>1. /\ worker'[w].pc \in {"idle", "dispatch"}
        /\ \A v \in Worker : v # w => worker'[v] = worker[v]
        /\ worker[w].pc = "write"
    <3> DEFINE rec == [worker[w] EXCEPT !.pc = "dispatch"]
    <3>1. rec \in WorkerState /\ rec.pc = "dispatch"
      BY <1>2 DEF WorkerState, WorkerPC
    <3>2. (Works(w, rec) \/ Stop(w)) /\ worker[w].pc = "write"
      BY <1>6 DEF ParseWrite
    <3> HIDE DEF rec
    <3> QED BY <3>1, <3>2, WorksSets, StopSets
  <2>2. UNCHANGED <<analysis, claim, tasks, errors, crashes>>
    BY <1>6 DEF ParseWrite
  <2>3. want \in {"failed", "rejected", "ready"} /\ (want = "ready" => text[s] = "lesson")
    BY <1>2, <2>1 DEF TypeOK, TextInv, WantInv, ParsedStatus, Text
  <2>4. /\ IF Exists(s) THEN row' = Set(row, s, want) ELSE row' = row
        /\ IF Exists(s) /\ want = "ready" THEN chunks' = Set(chunks, s, TRUE) ELSE chunks' = chunks
    BY <1>6 DEF ParseWrite
  <2>5. \A r \in Source : Exists(r)' <=> Exists(r)
    BY <1>2, <2>3, <2>4 DEF TypeOK, Exists, Set, None
  <2>6. UploadInv' /\ LimitInv' /\ FileInv'
    BY <1>2, <1>3, <2>2, <2>5, WorkerKeeps
  <2>7. ClaimInv'
    BY <1>2, <1>3, <2>1, <2>2, <2>5 DEF ClaimInv
  <2>8. ScreenInv'
    BY <1>2, <1>3, <2>1, <2>3, <2>4 DEF TypeOK, ScreenInv, OnlyScreenedIsUsed, Set
  <2>9. DeletedLeavesNothing'
    BY <1>2, <2>2, <2>4, <2>5 DEF TypeOK, DeletedLeavesNothing, Set
  <2>10. ProcessingIsCarried'
    <3> SUFFICES ASSUME crashes = 0 /\ errors = 0, NEW r \in Source, row'[r] = "processing"
                 PROVE  \/ r \in parseTask
                        \/ \E u \in Uploader : uploader[u].s = r /\ uploader[u].pc = "dispatch"
                        \/ \E v \in Worker : worker'[v].s = r /\ worker'[v].pc \in {"get", "write"}
                        \/ ~object[r]
      BY <1>3, <2>2 DEF ProcessingIsCarried, tasks
    <3>1. row[r] = "processing" /\ (r # s \/ ~Exists(s))
      BY <1>2, <2>3, <2>4 DEF TypeOK, Set
    <3>2. r # s
      BY <3>1 DEF Exists, None
    <3> QED BY <2>1, <3>1, <3>2 DEF ProcessingIsCarried
  <2> QED BY <1>1, <2>6, <2>7, <2>8, <2>9, <2>10
<1>7. CASE ParseDispatch(w)
  <2>1. /\ worker'[w].pc = "idle" /\ worker[w].pc = "dispatch"
        /\ \A v \in Worker : v # w => worker'[v] = worker[v]
    BY <1>7, StopSets DEF ParseDispatch
  <2>2. UNCHANGED <<stored, claim, parseTask, errors, crashes>>
    BY <1>7 DEF ParseDispatch
  <2>3. UploadInv' /\ LimitInv' /\ FileInv'
    BY <1>2, <1>3, <2>2, WorkerKeeps DEF Exists, stored
  <2>4. ClaimInv'
    BY <1>3, <2>1, <2>2 DEF ClaimInv, Exists, stored
  <2>5. ScreenInv' /\ DeletedLeavesNothing' /\ ProcessingIsCarried'
    BY <1>3, <2>1, <2>2 DEF ScreenInv, OnlyScreenedIsUsed, DeletedLeavesNothing, ProcessingIsCarried,
                            Exists, stored
  <2> QED BY <1>1, <2>3, <2>4, <2>5
<1>8. ASSUME NEW s \in Source, AnalyzeRead(w, s)
      PROVE  SafeInv'
  <2> DEFINE rec == [IdleWorker(s) EXCEPT !.pc = "claim", !.seen = analysis[s]]
  <2>1. rec \in WorkerState /\ rec.pc = "claim" /\ rec.s = s
    BY DEF TypeOK, IdleWorker, WorkerState, WorkerPC
  <2>2. /\ IF row[s] = "ready" THEN worker'[w].pc = "claim" /\ worker'[w].s = s ELSE worker'[w] = worker[w]
        /\ \A v \in Worker : v # w => worker'[v] = worker[v]
    <3>1. row[s] = "ready" => Works(w, rec)
      BY <1>8 DEF AnalyzeRead
    <3>2. row[s] # "ready" => worker' = worker
      BY <1>8 DEF AnalyzeRead
    <3> HIDE DEF rec
    <3> QED BY <2>1, <3>1, <3>2, WorksSets
  <2>3. UNCHANGED <<stored, claim, parseTask, errors, crashes>> /\ worker[w].pc = "idle"
    BY <1>8 DEF AnalyzeRead
  <2>4. UploadInv' /\ LimitInv' /\ FileInv'
    BY <1>2, <1>3, <2>3, WorkerKeeps DEF Exists, stored
  <2>5. ClaimInv'
    BY <1>3, <2>2, <2>3 DEF ClaimInv, Exists, stored
  <2>6. ScreenInv' /\ DeletedLeavesNothing' /\ ProcessingIsCarried'
    BY <1>3, <2>2, <2>3 DEF ScreenInv, OnlyScreenedIsUsed, DeletedLeavesNothing, ProcessingIsCarried,
                            Exists, stored
  <2> QED BY <1>1, <2>4, <2>5, <2>6
<1>9. CASE AnalyzeClaim(w)
  <2>1. /\ worker[w].pc = "claim" /\ claim[worker[w].s] = NoOne
        /\ UNCHANGED <<stored, tasks, errors, crashes>>
    BY <1>9 DEF AnalyzeClaim
  <2>2. /\ IF Writable(w)
             THEN /\ worker'[w].pc = "call" /\ worker'[w].s = worker[w].s
                  /\ worker'[w].seen = worker[w].seen
             ELSE worker'[w].pc = "idle"
        /\ \A v \in Worker : v # w => worker'[v] = worker[v]
    <3> DEFINE rec == [worker[w] EXCEPT !.pc = "call"]
    <3>1. rec \in WorkerState /\ rec.pc = "call" /\ rec.s = worker[w].s /\ rec.seen = worker[w].seen
      BY <1>2 DEF WorkerState, WorkerPC
    <3>2. IF Writable(w) THEN Works(w, rec) ELSE Stop(w)
      BY <1>9 DEF AnalyzeClaim
    <3> HIDE DEF rec
    <3> QED BY <3>1, <3>2, WorksSets, StopSets
  <2>3. claim' = IF Writable(w) THEN Set(claim, worker[w].s, w) ELSE claim
    BY <1>9 DEF AnalyzeClaim
  <2>4. UploadInv' /\ LimitInv' /\ FileInv'
    BY <1>2, <1>3, <2>1, WorkerKeeps DEF Exists, stored
  <2>5. ClaimInv'
    <3>1. Writable(w) => /\ Exists(worker[w].s)
                         /\ worker[w].seen = None <=> analysis[worker[w].s] = None
      BY <1>2 DEF Writable, DeletedLeavesNothing
    <3> QED BY <1>2, <1>3, <2>1, <2>2, <2>3, <3>1, SourceAssumption DEF TypeOK, ClaimInv, Exists, Set, stored
  <2>6. ScreenInv' /\ DeletedLeavesNothing' /\ ProcessingIsCarried'
    BY <1>3, <2>1, <2>2 DEF ScreenInv, OnlyScreenedIsUsed, DeletedLeavesNothing, ProcessingIsCarried,
                            Exists, stored, tasks
  <2> QED BY <1>1, <2>4, <2>5, <2>6
<1>10. CASE AnalyzeSettle(w) \/ WorkerCrash(w)
  <2>1. /\ worker'[w].pc = "idle" /\ worker[w].pc # "idle"
        /\ \A v \in Worker : v # w => worker'[v] = worker[v]
    BY <1>10, StopSets DEF AnalyzeSettle, WorkerCrash
  <2>2. /\ UNCHANGED <<row, chunks, tasks>>
        /\ Release(w)
        /\ \/ analysis' = analysis
           \/ /\ worker[w].pc = "call"
              /\ \E status \in AnalysisStatus : analysis' = Set(analysis, worker[w].s, status)
    BY <1>10 DEF AnalyzeSettle, WorkerCrash, stored
  <2>3. /\ crashes' = crashes \/ crashes' # 0
        /\ crashes' = 0 => worker[w].pc = "call" /\ errors' = errors
    BY <1>10, SourceAssumption DEF TypeOK, AnalyzeSettle, WorkerCrash, Crashes
  <2>4. UploadInv' /\ LimitInv' /\ FileInv'
    BY <1>2, <1>3, <2>2, <2>3, WorkerKeeps DEF Exists
  <2>5. ClaimInv'
    BY <1>2, <1>3, <2>1, <2>2, SourceAssumption DEF TypeOK, ClaimInv, Release, Exists, Set
  <2>6. ScreenInv'
    BY <1>3, <2>1, <2>2 DEF ScreenInv, OnlyScreenedIsUsed
  <2>7. DeletedLeavesNothing'
    BY <1>2, <2>2 DEF TypeOK, DeletedLeavesNothing, ClaimInv, Exists, Set
  <2>8. ProcessingIsCarried'
    BY <1>3, <2>1, <2>2, <2>3 DEF ProcessingIsCarried, tasks
  <2> QED BY <1>1, <2>4, <2>5, <2>6, <2>7, <2>8
<1> QED BY <1>4, <1>5, <1>6, <1>7, <1>8, <1>9, <1>10 DEF WorkStep

\* ... and so do deletions.
LEMMA DeleteSafeInv ==
  ASSUME SafeInv, NEW d \in Deleter, DeleteStep(d) \/ DeleteCrash(d)
  PROVE  SafeInv'
<1> USE DEF SafeInv, TypeInv
<1>1. TypeInv'
  BY DeleteTypeInv
<1>2. /\ \A e \in Deleter : deleter[e] \in DeleterState /\ deleter[e].s \in Source
      /\ \A w \in Worker : worker[w].s \in Source
      /\ \A u \in Uploader : uploader[u].s \in Source
  BY DEF TypeOK, WorkerState, UploaderState, DeleterState
<1>3. UNCHANGED <<text, projectLock, tasks, uploader, worker>>
  BY DEF DeleteStep, DeleteRead, DeleteObject, DeleteObjectFails, DeleteMark, DeleteChildren,
         DeleteRow, DeleteCrash, stored
<1>4. ASSUME NEW s \in Source, DeleteRead(d, s)
      PROVE  SafeInv'
  <2> DEFINE rec == [IdleDeleter(s) EXCEPT !.pc = "object"]
  <2>1. rec \in DeleterState /\ rec.pc = "object" /\ rec.s = s
    BY DEF IdleDeleter, DeleterState, DeleterPC
  <2>2. /\ deleter'[d].pc = "object" /\ deleter'[d].s = s
        /\ \A e \in Deleter : e # d => deleter'[e] = deleter[e]
    <3>1. deleter' = Set(deleter, d, rec)
      BY <1>4 DEF DeleteRead
    <3> HIDE DEF rec
    <3> QED BY <2>1, <3>1, DeletesSets
  <2>3. UNCHANGED <<stored, claim, errors, crashes>> /\ Exists(s)
    BY <1>4 DEF DeleteRead
  <2>4. UploadInv' /\ ClaimInv' /\ FileInv'
    BY <1>3, <2>2, <2>3 DEF UploadInv, ClaimInv, FileInv, Exists, stored
  <2>5. LimitInv'
    BY <1>3, <2>3, LimitStays DEF Existing, Exists, stored
  <2>6. ScreenInv' /\ DeletedLeavesNothing' /\ ProcessingIsCarried'
    BY <1>3, <2>3 DEF ScreenInv, OnlyScreenedIsUsed, DeletedLeavesNothing,
                      ProcessingIsCarried, Exists, stored, tasks
  <2> QED BY <1>1, <2>4, <2>5, <2>6
<1>5. CASE DeleteObject(d) \/ DeleteObjectFails(d)
  <2>1. /\ deleter'[d].pc \in {"children", "mark"} /\ deleter'[d].s = deleter[d].s
        /\ deleter'[d].pc = "children" => DeleteObject(d)
        /\ deleter[d].pc = "object"
        /\ \A e \in Deleter : e # d => deleter'[e] = deleter[e]
    <3>1. PICK pc \in {"children", "mark"} : Deletes(d, pc) /\ (pc = "children" => DeleteObject(d))
      BY <1>5 DEF DeleteObject, DeleteObjectFails
    <3> DEFINE rec == [deleter[d] EXCEPT !.pc = pc]
    <3>2. rec \in DeleterState /\ rec.pc = pc /\ rec.s = deleter[d].s
      BY <1>2 DEF DeleterState, DeleterPC
    <3>3. deleter' = Set(deleter, d, rec) /\ deleter[d].pc = "object"
      BY <1>5, <3>1 DEF Deletes, DeleteObject, DeleteObjectFails
    <3> HIDE DEF rec
    <3> QED BY <3>1, <3>2, <3>3, DeletesSets
  <2>2. /\ UNCHANGED <<row, chunks, analysis, claim, crashes>>
        /\ \A s \in Source : object'[s] => object[s]
        /\ DeleteObject(d) => ~object'[deleter[d].s]
        /\ errors' = errors \/ errors' # 0
    BY <1>2, <1>5, SourceAssumption DEF TypeOK, DeleteObject, DeleteObjectFails, Failure, Set
  <2>3. UploadInv' /\ ClaimInv' /\ FileInv'
    BY <1>2, <1>3, <2>1, <2>2 DEF UploadInv, ClaimInv, FileInv, Exists
  <2>4. LimitInv'
    BY <1>3, <2>2, LimitStays DEF Existing, Exists
  <2>5. ScreenInv' /\ DeletedLeavesNothing' /\ ProcessingIsCarried'
    BY <1>3, <2>2 DEF ScreenInv, OnlyScreenedIsUsed, DeletedLeavesNothing,
                      ProcessingIsCarried, Exists, tasks
  <2> QED BY <1>1, <2>3, <2>4, <2>5
<1>6. CASE DeleteMark(d)
  <2>1. /\ deleter'[d].pc = "idle" /\ deleter[d].pc = "mark"
        /\ \A e \in Deleter : e # d => deleter'[e] = deleter[e]
    BY <1>6, LeaveSets DEF DeleteMark
  <2>2. /\ UNCHANGED <<object, chunks, analysis, claim, errors, crashes>>
        /\ row' = row \/ (Exists(deleter[d].s) /\ row' = Set(row, deleter[d].s, "delete_failed"))
    BY <1>6 DEF DeleteMark
  <2>3. \A s \in Source : /\ Exists(s)' <=> Exists(s)
                          /\ row'[s] = row[s] \/ row'[s] = "delete_failed"
    BY <1>2, <2>2 DEF TypeOK, Exists, Set, None
  <2>4. UploadInv' /\ ClaimInv' /\ FileInv'
    BY <1>2, <1>3, <2>1, <2>2, <2>3 DEF UploadInv, ClaimInv, FileInv
  <2>5. LimitInv'
    BY <1>3, <2>3, LimitStays DEF Existing
  <2>6. ScreenInv' /\ DeletedLeavesNothing' /\ ProcessingIsCarried'
    BY <1>3, <2>2, <2>3 DEF ScreenInv, OnlyScreenedIsUsed, DeletedLeavesNothing,
                            ProcessingIsCarried, tasks
  <2> QED BY <1>1, <2>4, <2>5, <2>6
<1>7. CASE DeleteChildren(d)
  <2> DEFINE s == deleter[d].s
             rec == [deleter[d] EXCEPT !.pc = "row", !.sawChunks = chunks[deleter[d].s],
                                       !.sawAnalysis = analysis[deleter[d].s] # None]
  <2>1. /\ rec \in DeleterState /\ rec.pc = "row" /\ rec.s = s
        /\ rec.sawAnalysis => analysis[s] # None
    BY <1>2 DEF TypeOK, DeleterState, DeleterPC
  <2>2. /\ deleter'[d].pc = "row" /\ deleter'[d].s = s
        /\ deleter'[d].sawAnalysis => analysis[s] # None
        /\ deleter[d].pc = "children"
        /\ \A e \in Deleter : e # d => deleter'[e] = deleter[e]
    <3>1. deleter' = Set(deleter, d, rec) /\ deleter[d].pc = "children"
      BY <1>7 DEF DeleteChildren
    <3> HIDE DEF rec
    <3> QED BY <2>1, <3>1, DeletesSets
  <2>3. /\ UNCHANGED <<stored, errors, crashes>>
        /\ claim' = IF analysis[s] # None THEN Set(claim, s, d) ELSE claim
        /\ claim[s] = NoOne \/ Inserting(s)
        /\ \A e \in Deleter : e # d => ~(deleter[e].pc = "row" /\ deleter[e].s = s)
    BY <1>7 DEF DeleteChildren
  <2>4. UploadInv' /\ FileInv'
    BY <1>2, <1>3, <2>2, <2>3 DEF UploadInv, FileInv, Exists, stored
  <2>5. ClaimInv'
    <3>1. analysis[s] # None => claim[s] = NoOne
      BY <1>2, <2>3 DEF ClaimInv, Inserting
    <3>2. \A w \in Worker : worker[w].pc = "call" => claim'[worker[w].s] = claim[worker[w].s]
      BY <1>2, <2>3, <3>1, SourceAssumption DEF TypeOK, ClaimInv, Set
    <3>3. \A r \in Source, w \in Worker : claim'[r] = w => claim[r] = w
      BY <1>2, <2>3, SourceAssumption DEF TypeOK, Set
    <3>4. analysis[s] # None => claim'[s] = d
      BY <1>2, <2>3 DEF TypeOK, Set
    <3>5. \A e \in Deleter : e # d /\ deleter[e].pc = "row" => claim'[deleter[e].s] = claim[deleter[e].s]
      BY <1>2, <2>3 DEF TypeOK, Set
    <3>6. \A e \in Deleter : deleter'[e].pc = "row" /\ deleter'[e].sawAnalysis => claim'[deleter'[e].s] = e
      BY <2>2, <3>4, <3>5 DEF ClaimInv
    <3> QED BY <1>3, <2>3, <3>2, <3>3, <3>6 DEF ClaimInv, Exists, stored
  <2>6. LimitInv'
    BY <1>3, <2>3, LimitStays DEF Existing, Exists, stored
  <2>7. ScreenInv' /\ DeletedLeavesNothing' /\ ProcessingIsCarried'
    BY <1>3, <2>3 DEF ScreenInv, OnlyScreenedIsUsed, DeletedLeavesNothing,
                      ProcessingIsCarried, Exists, stored, tasks
  <2> QED BY <1>1, <2>4, <2>5, <2>6, <2>7
<1>8. CASE DeleteRow(d)
  <2> DEFINE s == deleter[d].s
  <2>1. /\ deleter'[d].pc = "idle" /\ deleter[d].pc = "row"
        /\ \A e \in Deleter : e # d => deleter'[e] = deleter[e]
    BY <1>8, LeaveSets DEF DeleteRow
  <2>2. /\ UNCHANGED <<object, errors, crashes>> /\ Release(d)
        /\ \/ UNCHANGED <<row, chunks, analysis>>
           \/ Gone(s) /\ (analysis[s] # None => deleter[d].sawAnalysis)
        /\ ~Inserting(s)
    BY <1>8 DEF DeleteRow
  <2>3. \A r \in Source : /\ row'[r] = row[r] \/ row'[r] = None
                          /\ row'[r] # row[r] => r = s
                          /\ analysis'[r] # analysis[r] => r = s
                          /\ chunks'[r] => chunks[r]
    BY <1>2, <2>2 DEF TypeOK, Gone, Set
  <2>4. UploadInv' /\ FileInv'
    BY <1>2, <1>3, <2>1, <2>2, <2>3 DEF UploadInv, FileInv, Exists
  <2>5. ClaimInv'
    \* Nobody calls the model for a source that goes: it would be an insert, which is waited
    \* for, or hold the row the deletion holds.
    <3>1. ASSUME NEW w \in Worker, worker[w].pc = "call", worker[w].s = s, Gone(s)
          PROVE  UNCHANGED <<row, chunks, analysis>>
      <4>1. claim[s] = w /\ analysis[s] # None
        BY <2>2, <3>1 DEF ClaimInv, Inserting
      <4>2. CASE UNCHANGED <<row, chunks, analysis>>
        BY <4>2
      <4>3. CASE deleter[d].sawAnalysis
        BY <2>1, <4>1, <4>3, SourceAssumption DEF ClaimInv
      <4> QED BY <2>2, <4>1, <4>2, <4>3
    <3>2. \A w \in Worker : worker[w].pc = "call" =>
            row'[worker[w].s] = row[worker[w].s] /\ analysis'[worker[w].s] = analysis[worker[w].s]
      BY <1>2, <2>2, <2>3, <3>1
    <3>3. \A w \in Worker : worker[w].pc = "call" => claim'[worker[w].s] = claim[worker[w].s]
      BY <1>2, <2>2, SourceAssumption DEF TypeOK, ClaimInv, Release
    <3>4. \A r \in Source, w \in Worker : claim'[r] = w => claim[r] = w
      BY <2>2, SourceAssumption DEF Release
    <3>5. \A e \in Deleter : deleter'[e].pc = "row" /\ deleter'[e].sawAnalysis => claim'[deleter'[e].s] = e
      BY <1>2, <2>1, <2>2 DEF ClaimInv, Release
    <3> QED BY <1>3, <3>2, <3>3, <3>4, <3>5 DEF ClaimInv, Exists
  <2>6. LimitInv'
    BY <1>3, <2>3, LimitStays DEF Existing, Exists, None
  <2>7. ScreenInv'
    BY <1>3, <2>3 DEF ScreenInv, OnlyScreenedIsUsed, None
  <2>8. DeletedLeavesNothing'
    BY <1>2, <2>2, <2>3 DEF TypeOK, DeletedLeavesNothing, Gone, Exists, Set, None
  <2>9. ProcessingIsCarried'
    BY <1>2, <1>3, <2>1, <2>2, <2>3 DEF ProcessingIsCarried, FileInv, Exists, tasks, None
  <2> QED BY <1>1, <2>4, <2>5, <2>6, <2>7, <2>8, <2>9
<1>9. CASE DeleteCrash(d)
  <2>1. /\ deleter'[d].pc = "idle"
        /\ \A e \in Deleter : e # d => deleter'[e] = deleter[e]
    BY <1>9, LeaveSets DEF DeleteCrash
  <2>2. UNCHANGED stored /\ Release(d) /\ crashes' # 0
    BY <1>9, SourceAssumption DEF TypeOK, DeleteCrash, Crashes
  <2>3. UploadInv' /\ FileInv'
    BY <1>2, <1>3, <2>1, <2>2 DEF UploadInv, FileInv, Exists, stored
  <2>4. ClaimInv'
    BY <1>2, <1>3, <2>1, <2>2, SourceAssumption DEF TypeOK, ClaimInv, Release, Exists, stored
  <2>5. LimitInv'
    BY <1>3, <2>2, LimitStays DEF Existing, Exists, stored
  <2>6. ScreenInv' /\ DeletedLeavesNothing' /\ ProcessingIsCarried'
    BY <1>3, <2>2 DEF ScreenInv, OnlyScreenedIsUsed, DeletedLeavesNothing,
                      ProcessingIsCarried, Exists, stored
  <2> QED BY <1>1, <2>3, <2>4, <2>5, <2>6
<1> QED BY <1>4, <1>5, <1>6, <1>7, <1>8, <1>9 DEF DeleteStep

\* Every step keeps the invariant.
LEMMA NextSafeInv == SafeInv /\ [Next]_vars => SafeInv'
<1> SUFFICES ASSUME SafeInv, [Next]_vars PROVE SafeInv'
  OBVIOUS
<1>1. CASE \E u \in Uploader : UploadStep(u) \/ UploadCrash(u)
  BY <1>1, UploadSafeInv
<1>2. CASE \E w \in Worker : WorkStep(w) \/ WorkerCrash(w)
  BY <1>2, WorkerSafeInv
<1>3. CASE \E d \in Deleter : DeleteStep(d) \/ DeleteCrash(d)
  BY <1>3, DeleteSafeInv
<1>4. CASE UNCHANGED vars \/ \E s \in Source : RetryAnalysis(s)
  <2>1. TypeInv'
    BY NextTypeInv DEF SafeInv
  <2>2. UNCHANGED <<stored, claim, projectLock, parseTask, uploader, deleter, worker, errors, crashes>>
    BY <1>4 DEF RetryAnalysis, vars, stored, tasks
  <2>3. LimitInv'
    BY <2>2, LimitStays DEF SafeInv, Existing, Exists, stored
  <2> QED BY <2>1, <2>2, <2>3 DEF SafeInv, UploadInv, ClaimInv, ScreenInv, OnlyScreenedIsUsed, FileInv,
           DeletedLeavesNothing, ProcessingIsCarried, Exists, stored
<1> QED BY <1>1, <1>2, <1>3, <1>4 DEF Next

\* The invariant holds in every reachable state.
LEMMA SpecSafeInv == Spec => []SafeInv
<1> QED BY InitSafeInv, NextSafeInv, PTL DEF Spec

\* Concurrent uploads never exceed the limit of the project, whatever its limit and
\* however many uploads, deletions and crashes (create_source).
THEOREM UploadsStayWithinLimit == Spec => []SourcesWithinLimit
<1> DEFINE Up == {u \in Uploader : uploader[u].pc \in {"put", "commit"}}
<1>1. ASSUME SafeInv PROVE SourcesWithinLimit
  <2> USE <1>1 DEF SafeInv
  <2>1. Cardinality(Existing) \in Nat
    BY SourceAssumption, FS_Subset, FS_CardinalityType DEF Existing
  <2>2. CASE Up = {}
    BY <2>1, <2>2, FS_EmptySet, SourceAssumption DEF LimitInv, SourcesWithinLimit, Existing
  <2>3. CASE Up # {}
    <3>1. PICK u \in Up : Up = {u}
      BY <2>3 DEF UploadInv, Uploading
    <3>2. Cardinality(Up) = 1
      <4> HIDE DEF Up
      <4> QED BY <3>1, FS_Singleton
    <3>3. Cardinality(Existing) < MaxSources
      BY <2>3 DEF LimitInv, Uploading
    <3> QED BY <2>1, <3>2, <3>3, SourceAssumption DEF SourcesWithinLimit, Existing
  <2> QED BY <2>2, <2>3
<1> QED BY <1>1, SpecSafeInv, PTL

\* Deletion is final: no chunk or analysis of a deleted source remains or appears
\* (delete_source against process_source and analyze_source).
THEOREM DeletionIsFinal == Spec => []DeletedLeavesNothing
BY SpecSafeInv, PTL DEF SafeInv

\* The model is called for one analysis of a source at a time (claim_analysis).
THEOREM AnalysesDoNotOverlap == Spec => []OneCallAtATime
<1>1. SafeInv => OneCallAtATime
  BY DEF SafeInv, ClaimInv, OneCallAtATime
<1> QED BY <1>1, SpecSafeInv, PTL

\* What the screening rejects is neither stored as chunks nor sent to the model.
THEOREM ScreeningComesFirst == Spec => []OnlyScreenedIsUsed
BY SpecSafeInv, PTL DEF SafeInv, ScreenInv

\* A source goes only after its file, whatever fails, crashes or is asked for twice
\* (delete_source): the deletion that removes the row is past the object store, and nobody
\* puts the file back.
THEOREM DeletionsTakeTheFile == Spec => DeletionTakesTheFile
<1>1. ASSUME SafeInv, [Next]_vars
      PROVE  [\A s \in Source : Exists(s) /\ ~Exists(s)' => ~object'[s]]_vars
  <2> SUFFICES ASSUME Next, NEW s \in Source, Exists(s), ~Exists(s)'
               PROVE  ~object'[s]
    BY <1>1
  <2> USE <1>1 DEF SafeInv, TypeInv
  <2>1. \A u \in Uploader : ~(UploadStep(u) \/ UploadCrash(u))
    BY DEF TypeOK, UploaderState, UploadStep, UploadAdmit, Admits, UploadPut, UploadPutFails, UploadCommit,
           UploadCommitFails, UploadDispatch, UploadDispatchFails, UploadCrash, stored, Set, Exists, None
  <2>2. \A w \in Worker : ~(WorkStep(w) \/ WorkerCrash(w))
    <3> SUFFICES ASSUME NEW w \in Worker, WorkStep(w) \/ WorkerCrash(w) PROVE FALSE
      OBVIOUS
    <3>1. CASE ParseWrite(w)
      <4>1. worker[w].want \in {"failed", "rejected", "ready"}
        BY <3>1 DEF WantInv, ParsedStatus, ParseWrite
      <4> QED BY <3>1, <4>1 DEF TypeOK, WorkerState, ParseWrite, Set, Exists, None
    <3>2. CASE ~ParseWrite(w)
      BY <3>2 DEF WorkStep, WorkerCrash, ParseRead, ParseGet, ParseDispatch, AnalyzeRead, AnalyzeClaim,
                  AnalyzeSettle, stored, Exists
    <3> QED BY <3>1, <3>2
  <2>3. \A r \in Source : ~RetryAnalysis(r)
    BY DEF RetryAnalysis, stored, Exists
  <2>4. PICK d \in Deleter : DeleteStep(d) \/ DeleteCrash(d)
    BY <2>1, <2>2, <2>3 DEF Next
  <2>5. DeleteRow(d)
    BY <2>4 DEF TypeOK, DeleterState, DeleteStep, DeleteCrash, DeleteRead, DeleteObject, DeleteObjectFails,
                DeleteMark, DeleteChildren, stored, Set, Exists, None
  <2>6. deleter[d].s = s /\ deleter[d].pc = "row" /\ object' = object
    BY <2>5 DEF TypeOK, DeleterState, DeleteRow, Gone, Set, Exists
  <2> QED BY <2>6 DEF FileInv
<1> QED BY <1>1, SpecSafeInv, PTL DEF Spec, DeletionTakesTheFile

\* Without crashes and failures of the store, a processing source has somebody who settles
\* it, or a deletion has taken its file (create_source, process_source).
THEOREM SourcesAreCarried == Spec => []ProcessingIsCarried
BY SpecSafeInv, PTL DEF SafeInv

=============================================================================
