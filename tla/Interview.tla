-------------------------------- MODULE Interview --------------------------------
(***************************************************************************)
(* The interviews of one project: discovery runs, which end in a brief     *)
(* draft, and planning runs, which end in a unit blueprint draft           *)
(* (discovery_planning/service.py, planning.py, graph.py, tool_loop.py).   *)
(*                                                                         *)
(* Both kinds are rows of one table and threads of one checkpointer; a     *)
(* request executes the thread from its last checkpoint, node after node,  *)
(* until it waits for the teacher or ends.  Three copies of a row matter:  *)
(* the committed one, the one the request loaded, and the one the session  *)
(* of a node loaded.  A commit writes a status only where it differs from  *)
(* the one that session loaded, and the call counter as loaded plus one.   *)
(*                                                                         *)
(* A node's commit and the checkpoint after it are one step: a process     *)
(* that dies between the two repeats the node, like one that dies before.  *)
(***************************************************************************)
EXTENDS Integers, Sequences, FiniteSets, FiniteSetsExt

CONSTANTS
  Client,         \* requests that may be in flight
  MaxRounds,      \* rounds of questions
  MaxToolRounds,  \* rounds of the tool loop
  Cap,            \* model calls of a run
  MaxPlans,       \* planning runs of the workspace
  MaxRuns,        \* bound: runs
  MaxBriefs,      \* bound: confirmed briefs
  MaxDisturbances \* bound: narrations, overlapping requests and requests that die

ASSUME InterviewAssumption ==
  /\ MaxRounds \in Nat \ {0} /\ MaxToolRounds \in Nat /\ Cap \in Nat \ {0}
  /\ MaxPlans \in Nat /\ MaxRuns \in Nat /\ MaxBriefs \in Nat
  /\ MaxDisturbances \in Nat

Kind == {"discovery", "planning"}
ActivePlanning == {"initializing", "questioning", "drafting"}
None == "none"

VARIABLES
  run,        \* DiscoveryRun rows in the order of their creation
  thread,     \* thread[r]: the last checkpoint, the node to run next and the rounds asked
  brief,      \* the newest confirmed brief version, 0 when there is none
  client,     \* client[c]: a request
  narrating,  \* narrating[r]: narrations of r that have not been stored yet
  disturbances, \* narrations, overlaps and deaths so far
  overlapped  \* history: two requests have been in flight together

interviewVars == <<run, thread, brief, client, narrating, disturbances, overlapped>>
Run == DOMAIN run

\* graph is the code that executes the thread, row and seen are the statuses that the
\* request's and the node's session have loaded, calls is the node's copy of the counter,
\* tools counts its tool rounds.
Idle == [pc |-> "idle", r |-> 0, graph |-> "discovery", brief |-> 0, row |-> None, seen |-> None,
         at |-> None, round |-> 0, calls |-> 0, tools |-> 0]
\* The session of a node is closed.
Closed(j) == [j EXCEPT !.seen = None, !.calls = 0, !.tools = 0]

InterviewInit ==
  /\ run = <<>>
  /\ thread = <<>>
  /\ brief = 0
  /\ client = [c \in Client |-> Idle]
  /\ narrating = <<>>
  /\ disturbances = 0
  /\ overlapped = FALSE

Working(c) == client[c].pc # "idle"
Becomes(c, record) == client' = [client EXCEPT ![c] = record]
Done(c) == Becomes(c, Idle)

Disturb ==
  /\ disturbances < MaxDisturbances
  /\ disturbances' = disturbances + 1

\* A request begins alone or beside another one.
Begins(c, record) ==
  /\ Becomes(c, record)
  /\ \/ /\ \A d \in Client \ {c} : ~Working(d)
        /\ UNCHANGED <<disturbances, overlapped>>
     \/ /\ \E d \in Client \ {c} : Working(d)
        /\ Disturb
        /\ overlapped' = TRUE

Plans == {r \in Run : run[r].kind = "planning"}

\* A write of status by a session that has loaded it as known.
Written(r, known, status) == IF known = status THEN run[r].status ELSE status
SetStatus(r, known, status) == run' = [run EXCEPT ![r].status = Written(r, known, status)]
Checkpoint(r, next, round) == thread' = [thread EXCEPT ![r] = [next |-> next, round |-> round]]

-----------------------------------------------------------------------------
(* POST start: an open run is returned, otherwise one is inserted.           *)

\* get_active_run does not ask for the kind.
NoOpenRun == \A r \in Run : run[r].status = "draft_ready"

\* Mutant: a run that is being drafted is forgotten.
NoActivePlanForgetful == \A r \in Plans : run[r].status \notin (ActivePlanning \ {"drafting"})

NoActivePlan == \A r \in Plans : run[r].status \notin ActivePlanning

StartRead(c, kind) ==
  /\ ~Working(c)
  /\ IF kind = "discovery"
       THEN NoOpenRun
       ELSE brief > 0 /\ NoActivePlan /\ Cardinality(Plans) < MaxPlans
  /\ Len(run) + Cardinality({d \in Client : client[d].pc = "insert"}) < MaxRuns
  /\ Begins(c, [Idle EXCEPT !.pc = "insert", !.graph = kind, !.brief = IF kind = "planning" THEN brief ELSE 0])
  /\ UNCHANGED <<run, thread, brief, narrating>>

StartInsert(c) ==
  /\ client[c].pc = "insert"
  /\ run' = Append(run, [kind |-> client[c].graph, brief |-> client[c].brief,
                         status |-> "initializing", calls |-> 0, draft |-> None])
  /\ thread' = Append(thread, [next |-> None, round |-> 0])
  /\ narrating' = Append(narrating, 0)
  /\ Becomes(c, [client[c] EXCEPT !.pc = "enter", !.r = Len(run) + 1, !.row = "initializing"])
  /\ UNCHANGED <<brief, disturbances, overlapped>>

\* The memory and the grounding are attached and the graph is entered.
Enter(c) ==
  /\ client[c].pc = "enter"
  /\ Checkpoint(client[c].r, "analyze", 0)
  /\ Becomes(c, [client[c] EXCEPT !.pc = "node", !.at = "analyze"])
  /\ UNCHANGED <<run, brief, narrating, disturbances, overlapped>>

-----------------------------------------------------------------------------
(* POST answers and POST retry: the newest run is executed from its          *)
(* checkpoint.  The endpoints of discovery take a run of either kind.        *)

Addressed(graph) == IF graph = "planning" THEN Plans ELSE Run

Resume(c, graph, r, at) ==
  Begins(c, [Idle EXCEPT !.pc = IF at \in {"analyze", "draft"} THEN "node" ELSE "sync",
                         !.r = r, !.graph = graph, !.row = run[r].status, !.at = at,
                         !.round = thread[r].round])

\* The interrupt is answered: the thread goes on from what follows the questions.
AskNode(c, graph, r) ==
  Checkpoint(r, "analyze", thread[r].round) /\ Resume(c, graph, r, "analyze")

Answer(c, graph) ==
  /\ ~Working(c)
  /\ Addressed(graph) # {}
  /\ LET r == Max(Addressed(graph)) IN
       /\ run[r].status # "draft_ready"
       /\ thread[r].next # None
       /\ IF thread[r].next = "ask"
            THEN AskNode(c, graph, r)
            ELSE UNCHANGED thread /\ Resume(c, graph, r, thread[r].next)
  /\ UNCHANGED <<run, brief, narrating>>

Retry(c, graph) ==
  /\ ~Working(c)
  /\ Addressed(graph) # {}
  /\ LET r == Max(Addressed(graph)) IN
       /\ run[r].status = "provider_failed"
       /\ Resume(c, graph, r, thread[r].next)
  /\ UNCHANGED <<run, thread, brief, narrating>>

-----------------------------------------------------------------------------
(* The nodes of both graphs.                                                 *)

Exhausted(c) == client[c].graph = "discovery" /\ run[client[c].r].calls >= Cap

LoadNode(c) ==
  /\ client[c].pc = "node"
  /\ ~Exhausted(c)
  /\ Becomes(c, [client[c] EXCEPT !.pc = "call", !.tools = 0, !.seen = run[client[c].r].status,
                                  !.calls = run[client[c].r].calls])
  /\ UNCHANGED <<run, thread, brief, narrating, disturbances, overlapped>>

\* The quota error of graph.py is not the class the endpoints catch.
QuotaStop(c) ==
  /\ client[c].pc = "node"
  /\ Exhausted(c)
  /\ Done(c)
  /\ UNCHANGED <<run, thread, brief, narrating, disturbances, overlapped>>

\* The node's session is rolled back and the request's session writes the failure.
ProviderFails(c) ==
  /\ client[c].pc = "call"
  /\ SetStatus(client[c].r, client[c].row, "provider_failed")
  /\ Done(c)
  /\ UNCHANGED <<thread, brief, narrating, disturbances, overlapped>>

RouteAfterAnalyze(asks, round) == IF asks /\ round < MaxRounds THEN "ask" ELSE "draft"

Analyze(c) ==
  /\ client[c].pc = "call"
  /\ client[c].at = "analyze"
  /\ \E asks \in BOOLEAN :
       LET j == client[c]
           round == j.round + (IF asks THEN 1 ELSE 0)
           next == RouteAfterAnalyze(asks, round)
       IN /\ run' = [run EXCEPT ![j.r].calls = j.calls + 1,
                                ![j.r].status = IF j.graph = "planning"
                                                  THEN Written(j.r, j.seen, "questioning") ELSE @]
          /\ Checkpoint(j.r, next, round)
          /\ Becomes(c, [Closed(j) EXCEPT !.pc = IF next = "ask" THEN "sync" ELSE "node",
                                          !.at = next, !.round = round])
  /\ UNCHANGED <<brief, narrating, disturbances, overlapped>>

InToolLoop(c) ==
  /\ client[c].pc = "call"
  /\ client[c].at = "draft"
  /\ client[c].graph = "planning"

\* What a round of the tool loop that gives no blueprint commits.
CommitsDrafting(c, calls) ==
  run' = [run EXCEPT ![client[c].r].calls = calls,
                     ![client[c].r].status = Written(client[c].r, client[c].seen, "drafting")]

ToolRound(c) ==
  /\ InToolLoop(c)
  /\ client[c].tools < MaxToolRounds
  /\ client[c].calls < Cap
  /\ CommitsDrafting(c, client[c].calls + 1)
  /\ Becomes(c, [client[c] EXCEPT !.seen = "drafting", !.calls = @ + 1,
                                  !.tools = @ + 1])
  /\ UNCHANGED <<thread, brief, narrating, disturbances, overlapped>>

\* What the last node writes: the brief draft of an interview, the blueprint draft of a plan.
Drafted(j) == [run EXCEPT ![j.r].calls = j.calls + 1, ![j.r].draft = j.graph,
                          ![j.r].status = Written(j.r, j.seen, "draft_ready")]
\* The draft is the last answer of the loop, or of the call without tools that follows it;
\* that call is made at the cap, too.
BuildDraft(c) ==
  /\ client[c].pc = "call"
  /\ client[c].at = "draft"
  /\ LET j == client[c] IN
       /\ run' = Drafted(j)
       /\ Checkpoint(j.r, "end", j.round)
       /\ Becomes(c, [Closed(j) EXCEPT !.pc = "sync", !.at = "end"])
  /\ UNCHANGED <<brief, narrating, disturbances, overlapped>>

-----------------------------------------------------------------------------
(* _sync_status, and what happens beside the requests.                       *)

\* Mutant: a thread that does not wait for the teacher has ended.
SyncedReady(r) == IF thread[r].next # "ask" THEN "draft_ready" ELSE "questioning"

Synced(r) == IF thread[r].next = "end" THEN "draft_ready" ELSE "questioning"

SyncRead(c) ==
  /\ client[c].pc = "sync"
  /\ Becomes(c, [client[c] EXCEPT !.pc = "settle", !.at = Synced(client[c].r)])
  /\ UNCHANGED <<run, thread, brief, narrating, disturbances, overlapped>>

SyncWrite(c) ==
  /\ client[c].pc = "settle"
  /\ SetStatus(client[c].r, client[c].row, client[c].at)
  /\ Done(c)
  /\ UNCHANGED <<thread, brief, narrating, disturbances, overlapped>>

\* The process dies, or an answer that is no JSON ends the request.
Die(c) ==
  /\ Working(c)
  /\ Disturb
  /\ Done(c)
  /\ UNCHANGED <<run, thread, brief, narrating, overlapped>>

\* on_brief_version_confirmed; the brief draft comes from a run that was ready once.
ConfirmBrief ==
  /\ brief < MaxBriefs
  /\ brief > 0 \/ \E r \in Run : run[r].draft # None
  /\ brief' = brief + 1
  /\ run' = [r \in Run |-> IF r \in Plans /\ run[r].status \in ActivePlanning
                             THEN [run[r] EXCEPT !.status = "superseded"] ELSE run[r]]
  /\ UNCHANGED <<thread, client, narrating, disturbances, overlapped>>

\* A narration checks the counter of a discovery run when it begins and adds to it at its end.
Narrate(r) ==
  /\ Disturb
  /\ run[r].kind = "planning" \/ run[r].calls < Cap
  /\ narrating' = [narrating EXCEPT ![r] = @ + 1]
  /\ UNCHANGED <<run, thread, brief, client, overlapped>>

Narrated(r) ==
  /\ narrating[r] > 0
  /\ narrating' = [narrating EXCEPT ![r] = @ - 1]
  /\ run' = [run EXCEPT ![r].calls = @ + 1]
  /\ UNCHANGED <<thread, brief, client, disturbances, overlapped>>

Step(c) ==
  \/ StartInsert(c) \/ Enter(c) \/ LoadNode(c) \/ QuotaStop(c)
  \/ ProviderFails(c) \/ Analyze(c) \/ ToolRound(c) \/ BuildDraft(c)
  \/ SyncRead(c) \/ SyncWrite(c)

Request(c) == \E kind \in Kind : StartRead(c, kind) \/ Answer(c, kind) \/ Retry(c, kind)

InterviewNext ==
  \/ \E c \in Client : Request(c) \/ Step(c) \/ Die(c)
  \/ ConfirmBrief
  \/ \E r \in Run : Narrate(r) \/ Narrated(r)

InterviewSpec == InterviewInit /\ [][InterviewNext]_interviewVars

-----------------------------------------------------------------------------
(* Properties                                                                *)

\* A run that is shown as ready has a draft, whatever requests, failures and
\* supersessions it went through, and a question is only open within the rounds: the
\* status of a run is computed from its thread after every invocation (service.py:103-110).
ReadyHasDraft ==
  \A r \in Run :
    /\ run[r].status = "draft_ready" => run[r].draft # None
    /\ thread[r].next = "ask" => thread[r].round < MaxRounds

\* A project has one active planning run, as long as its requests do not overlap: a
\* superseded run that is answered again is the newest one (planning.py:402-431, 480-527).
OneActivePlan ==
  overlapped \/ Cardinality({r \in Plans : run[r].status \in ActivePlanning}) <= 1
=============================================================================
