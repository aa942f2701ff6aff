-------------------------------- MODULE Admission --------------------------------
(***************************************************************************)
(* What one teacher may consume (identity_workspace/limits.py,             *)
(* identity_workspace/service.py, api/deps.py, api/projects.py,            *)
(* api/sources.py).                                                        *)
(*                                                                         *)
(* A request resolves the workspace of its subject, is counted in the      *)
(* general window, an expensive one in a second window and an upload with  *)
(* its bytes in the window of the day; only then does it do what it is     *)
(* for, of which the model keeps the creation of a project.  Each guard    *)
(* reads the clock, adds to the row of that window with one statement and  *)
(* commits; the row stays locked in between.                               *)
(*                                                                         *)
(* Left out: daily windows delete their predecessors from two days ago,    *)
(* and no request lives that long.                                         *)
(***************************************************************************)
EXTENDS Integers, Sequences, FiniteSets, FiniteSetsExt

CONSTANTS
  Caller,      \* requests of one subject that may be in flight
  Limit,       \* Limit[class]: what a window admits
  MaxProjects, \* projects of a workspace
  Size,        \* bytes of an upload
  MaxWindows,  \* bound: windows of a class
  MaxCalls,    \* bound: requests
  Project      \* bound: projects ever created

Class == {"general", "expensive", "upload_daily"}

ASSUME AdmissionAssumption ==
  /\ Limit \in [Class -> Nat]
  /\ MaxProjects \in Nat /\ Size \subseteq Nat /\ MaxWindows \in Nat \ {0} /\ MaxCalls \in Nat

Window == [workspace : Caller, class : Class, start : 1..MaxWindows]

VARIABLES
  workspaces, \* Workspace rows of the subject, each named after the request that inserted it
  now,        \* now[class]: the window the clock is in
  windows,    \* RateWindowCounter rows
  projects,   \* projects[p]: status and workspace of a Project row
  call,       \* call[c]: a request
  calls,      \* requests so far
  admitted    \* history: what the guards of a class and window have let through

admissionVars == <<workspaces, now, windows, projects, call, calls, admitted>>

\* due are the guards and the work that are ahead of the request, start the window it has
\* read from the clock.
NoCall == [at |-> "idle", workspace |-> "none", due |-> <<>>, size |-> 0, start |-> 0]
NoProject == [status |-> "none", workspace |-> "none"]

AdmissionInit ==
  /\ workspaces = {}
  /\ now = [class \in Class |-> 1]
  /\ windows = [w \in Window |-> [count |-> 0, bytes |-> 0]]
  /\ projects = [p \in Project |-> NoProject]
  /\ call = [c \in Caller |-> NoCall]
  /\ calls = 0
  /\ admitted = [class \in Class |-> [start \in 1..MaxWindows |-> 0]]

CallIs(c, at) == call[c].at = at
Proceeds(c, record) == call' = [call EXCEPT ![c] = record]
Refused(c) == Proceeds(c, NoCall)

\* The work of a request: a read, a start of a run, an upload, the creation of a project.
Work == {<<"general">>, <<"general", "expensive">>,
         <<"general", "expensive", "upload_daily">>, <<"general", "create">>}

Sizes(due) == IF Len(due) = 3 THEN Size ELSE {0}

Receive(c, due) ==
  /\ CallIs(c, "idle")
  /\ calls < MaxCalls
  /\ calls' = calls + 1
  /\ \E size \in Sizes(due) :
       Proceeds(c, [NoCall EXCEPT !.at = "resolve", !.due = due, !.size = size])
  /\ UNCHANGED <<workspaces, now, windows, projects, admitted>>

\* The clock of a class goes on by one window.
NextWindow(class) ==
  /\ now[class] < MaxWindows
  /\ now' = [now EXCEPT ![class] = @ + 1]
  /\ UNCHANGED <<workspaces, windows, projects, call, calls, admitted>>

-----------------------------------------------------------------------------
(* resolve_workspace and the commit that follows it.                         *)

\* After a guard or a workspace the request waits for its next guard, or is done.
Onwards(record, due) ==
  CASE due = <<>> -> NoCall
    [] due # <<>> /\ Head(due) = "create" -> [record EXCEPT !.at = "create", !.due = due]
    [] OTHER -> [record EXCEPT !.at = "clock", !.due = due]

Resolve(c) ==
  /\ CallIs(c, "resolve")
  /\ IF workspaces = {}
       THEN Proceeds(c, [call[c] EXCEPT !.at = "insert"])
       ELSE \E w \in workspaces :
              Proceeds(c, Onwards([call[c] EXCEPT !.workspace = w], call[c].due))
  /\ UNCHANGED <<workspaces, now, windows, projects, calls, admitted>>

\* The subject is unique: the request that comes second adopts the row of the first.
InsertWorkspace(c) ==
  /\ CallIs(c, "insert")
  /\ LET w == IF workspaces = {} THEN c ELSE CHOOSE v \in workspaces : TRUE
     IN /\ workspaces' = workspaces \cup {w}
        /\ Proceeds(c, Onwards([call[c] EXCEPT !.workspace = w], call[c].due))
  /\ UNCHANGED <<now, windows, projects, calls, admitted>>

-----------------------------------------------------------------------------
(* consume_rate and the guards that call it.                                 *)

Guarding(c) == Head(call[c].due)
WindowOf(c) == [workspace |-> call[c].workspace, class |-> Guarding(c), start |-> call[c].start]
Counting(c, w) == CallIs(c, "counted") /\ WindowOf(c) = w
Unheld(w) == \A d \in Caller : ~Counting(d, w)
Bytes(c) == IF Guarding(c) = "upload_daily" THEN call[c].size ELSE 0

ReadClock(c) ==
  /\ CallIs(c, "clock")
  /\ Proceeds(c, [call[c] EXCEPT !.at = "upsert", !.start = now[Guarding(c)]])
  /\ UNCHANGED <<workspaces, now, windows, projects, calls, admitted>>

Added(row, bytes) == [count |-> row.count + 1, bytes |-> row.bytes + bytes]
Removed(row, bytes) == [count |-> row.count - 1, bytes |-> row.bytes - bytes]

Upsert(c) ==
  /\ CallIs(c, "upsert")
  /\ Unheld(WindowOf(c))
  /\ windows' = [windows EXCEPT ![WindowOf(c)] = Added(@, Bytes(c))]
  /\ Proceeds(c, [call[c] EXCEPT !.at = "counted"])
  /\ UNCHANGED <<workspaces, now, projects, calls, admitted>>

\* Bytes are compared with a limit on bytes, requests with one on requests; an empty upload
\* counts as a request.
Used(c) == IF Bytes(c) > 0 THEN windows[WindowOf(c)].bytes ELSE windows[WindowOf(c)].count
Amount(c) == IF Guarding(c) = "upload_daily" THEN call[c].size ELSE 1

\* The attempt is committed, also one that is refused.
AnswerGuard(c) ==
  /\ CallIs(c, "counted")
  /\ IF Used(c) <= Limit[Guarding(c)]
       THEN /\ admitted' = [admitted EXCEPT ![Guarding(c)][call[c].start] = @ + Amount(c)]
            /\ Proceeds(c, Onwards(call[c], Tail(call[c].due)))
       ELSE Refused(c) /\ UNCHANGED admitted
  /\ UNCHANGED <<workspaces, now, windows, projects, calls>>

-----------------------------------------------------------------------------
(* create_project under the lock of the workspace's row, and deletion.       *)

ActiveProjects(w) == {p \in Project : projects[p] = [status |-> "active", workspace |-> w]}
Creating(w) == \E d \in Caller : CallIs(d, "inserted") /\ call[d].workspace = w

\* Mutant: the projects are counted without the lock.
CountUnderNoLock(c) ==
  /\ CallIs(c, "create")
  /\ IF Cardinality(ActiveProjects(call[c].workspace)) >= MaxProjects
       THEN Refused(c)
       ELSE Proceeds(c, [call[c] EXCEPT !.at = "inserted"])
  /\ UNCHANGED <<workspaces, now, windows, projects, calls, admitted>>

CreateProject(c) ==
  /\ CallIs(c, "create")
  /\ ~Creating(call[c].workspace)
  /\ IF Cardinality(ActiveProjects(call[c].workspace)) >= MaxProjects
       THEN Refused(c)
       ELSE Proceeds(c, [call[c] EXCEPT !.at = "inserted"])
  /\ UNCHANGED <<workspaces, now, windows, projects, calls, admitted>>

CommitProject(c) ==
  /\ CallIs(c, "inserted")
  /\ \E p \in Project :
       /\ projects[p] = NoProject
       /\ projects' = [projects EXCEPT ![p] = [status |-> "active", workspace |-> call[c].workspace]]
  /\ Refused(c)
  /\ UNCHANGED <<workspaces, now, windows, calls, admitted>>

\* A deletion that cannot be completed leaves the project "deleting", which no limit counts
\* (module ProjectDeletion).
DeleteProject(p) ==
  /\ projects[p].status = "active"
  /\ \E status \in {"deleting", "gone"} : projects' = [projects EXCEPT ![p].status = status]
  /\ UNCHANGED <<workspaces, now, windows, call, calls, admitted>>

\* The connection is lost: what the request has not committed is rolled back.
Abandon(c) ==
  /\ ~CallIs(c, "idle")
  /\ windows' = IF CallIs(c, "counted")
                  THEN [windows EXCEPT ![WindowOf(c)] = Removed(@, Bytes(c))] ELSE windows
  /\ Refused(c)
  /\ UNCHANGED <<workspaces, now, projects, calls, admitted>>

AdmissionNext ==
  \/ \E class \in Class : NextWindow(class)
  \/ \E p \in Project : DeleteProject(p)
  \/ \E c \in Caller :
       \/ \E due \in Work : Receive(c, due)
       \/ Resolve(c) \/ InsertWorkspace(c)
       \/ ReadClock(c) \/ Upsert(c) \/ AnswerGuard(c)
       \/ CreateProject(c) \/ CommitProject(c)
       \/ Abandon(c)

AdmissionSpec == AdmissionInit /\ [][AdmissionNext]_admissionVars

-----------------------------------------------------------------------------
(* Properties                                                                *)

\* A teacher gets no more than the limits: what the guards let through in a window and the
\* projects that are active, however requests overlap, whichever of them is the first one
\* of the teacher, and wherever the clock changes between reading and counting (F011 D1, D9).
LimitsHold ==
  /\ \A class \in Class, start \in 1..MaxWindows : admitted[class][start] <= Limit[class]
  /\ Cardinality({p \in Project : projects[p].status = "active"}) <= MaxProjects
=============================================================================
