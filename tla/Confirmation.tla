------------------------------ MODULE Confirmation ------------------------------
(***************************************************************************)
(* The drafts and the confirmed versions of one project: the brief, which  *)
(* the teacher edits and confirms, and the unit blueprint, which is        *)
(* imported from a planning run, edited and confirmed for a brief          *)
(* (discovery_planning/brief.py, blueprint.py, api/brief.py,               *)
(* api/blueprint.py).                                                      *)
(*                                                                         *)
(* No request takes a lock.  Each reads with one statement after the other *)
(* and inserts one row; two unique keys per table (revision; version       *)
(* number and source revision) refuse what somebody else was faster with.  *)
(* Rows are never deleted, so a table is a sequence and a revision or a    *)
(* version number is an index.                                             *)
(*                                                                         *)
(* Of the contents of a draft the model keeps what a confirmation asks:    *)
(* the number of lessons, 0 when a field that is required is missing, and  *)
(* whether a finding that needs a decision is open.                        *)
(***************************************************************************)
EXTENDS Integers, Sequences

CONSTANTS
  Editor,        \* requests that may be in flight
  MaxLessons,    \* bound: lessons of a unit
  MaxRevisions,  \* bound: revisions of each draft
  MaxReadyPlans       \* bound: planning runs that become ready

ASSUME ConfirmationAssumption ==
  MaxLessons \in Nat \ {0} /\ MaxRevisions \in Nat /\ MaxReadyPlans \in Nat

Lessons == 0..MaxLessons
Findings == {"none", "open", "closed"}

VARIABLES
  briefDrafts,    \* BriefDraft rows; from is the revision a draft was computed from
  briefVersions,  \* BriefVersion rows
  plans,          \* planning runs with a draft, in the order of their creation
  drafts,         \* BlueprintDraft rows
  versions,       \* BlueprintVersion rows
  editor          \* editor[c]: a request

briefRows == <<briefDrafts, briefVersions>>
blueprintRows == <<plans, drafts, versions>>
confirmationVars == <<briefRows, blueprintRows, editor>>

NoRequest == [pc |-> "idle", brief |-> 0, base |-> 0, plan |-> 0, number |-> 0]

ConfirmationInit ==
  /\ briefDrafts = <<>>
  /\ briefVersions = <<>>
  /\ plans = <<>>
  /\ drafts = <<>>
  /\ versions = <<>>
  /\ editor = [c \in Editor |-> NoRequest]

At(c, pc) == editor[c].pc = pc
Goes(c, record) == editor' = [editor EXCEPT ![c] = record]
Answered(c) == Goes(c, NoRequest)
NewestBrief == Len(briefVersions)

-----------------------------------------------------------------------------
(* The brief.                                                                *)

\* ensure_draft; a second request for revision 1 is refused by the key and finds this one.
EnsureDraft ==
  /\ briefDrafts = <<>>
  /\ \E n \in Lessons : briefDrafts' = <<[from |-> 0, lessons |-> n]>>
  /\ UNCHANGED <<briefVersions, blueprintRows, editor>>

PatchBriefRead(c) ==
  /\ At(c, "idle")
  /\ Len(briefDrafts) \in 1..(MaxRevisions - 1)
  /\ Goes(c, [NoRequest EXCEPT !.pc = "patchBrief", !.base = Len(briefDrafts)])
  /\ UNCHANGED <<briefRows, blueprintRows>>

\* Mutant: the revision is numbered when it is inserted.
PatchBriefNumbered(c) ==
  /\ At(c, "patchBrief")
  /\ \E n \in Lessons : briefDrafts' = Append(briefDrafts, [from |-> editor[c].base, lessons |-> n])
  /\ Answered(c)
  /\ UNCHANGED <<briefVersions, blueprintRows>>

\* The unique key refuses a revision that exists.
PatchBriefCommit(c) ==
  /\ At(c, "patchBrief")
  /\ \/ /\ Len(briefDrafts) = editor[c].base
        /\ \E n \in Lessons :
             briefDrafts' = Append(briefDrafts, [from |-> editor[c].base, lessons |-> n])
     \/ Len(briefDrafts) > editor[c].base /\ UNCHANGED briefDrafts
  /\ Answered(c)
  /\ UNCHANGED <<briefVersions, blueprintRows>>

ConfirmBriefRead(c) ==
  /\ At(c, "idle")
  /\ briefDrafts # <<>>
  /\ briefDrafts[Len(briefDrafts)].lessons > 0
  /\ Goes(c, [NoRequest EXCEPT !.pc = "numberBrief", !.base = Len(briefDrafts)])
  /\ UNCHANGED <<briefRows, blueprintRows>>

HasSource(table, revision) == \E i \in DOMAIN table : table[i].source = revision

\* A draft that has been confirmed already is answered with its version.
ConfirmBriefNumber(c) ==
  /\ At(c, "numberBrief")
  /\ IF HasSource(briefVersions, editor[c].base)
       THEN Answered(c)
       ELSE Goes(c, [editor[c] EXCEPT !.pc = "confirmBrief", !.number = Len(briefVersions) + 1])
  /\ UNCHANGED <<briefRows, blueprintRows>>

\* on_brief_version_confirmed: the blueprint versions of other briefs become stale.  (Runs
\* are superseded in the same transaction: modules Interview and GenerationRun.)
Stale == versions' = [i \in DOMAIN versions |-> [versions[i] EXCEPT !.stale = TRUE]]

\* Number and source revision are unique.
Free(table, number, revision) == Len(table) = number - 1 /\ ~HasSource(table, revision)

ConfirmBriefCommit(c) ==
  /\ At(c, "confirmBrief")
  /\ LET base == editor[c].base IN
       IF Free(briefVersions, editor[c].number, base)
         THEN /\ briefVersions' =
                   Append(briefVersions, [source |-> base, lessons |-> briefDrafts[base].lessons])
              /\ Stale
         ELSE UNCHANGED <<briefVersions, versions>>
  /\ Answered(c)
  /\ UNCHANGED <<briefDrafts, plans, drafts>>

-----------------------------------------------------------------------------
(* The blueprint draft.                                                      *)

\* A planning run becomes ready (module Interview): a superseded one may, too.
PlanReady ==
  /\ Len(plans) < MaxReadyPlans
  /\ \E b \in 1..NewestBrief, n \in Lessons, f \in {"none", "open"} :
       plans' = Append(plans, [brief |-> b, lessons |-> n, findings |-> f])
  /\ UNCHANGED <<briefRows, drafts, versions, editor>>

\* sync_draft_from_run, which every reading of the blueprint calls.
ImportRead(c) ==
  /\ At(c, "idle")
  /\ plans # <<>>
  /\ Len(drafts) < MaxRevisions
  /\ drafts # <<>> => drafts[Len(drafts)].plan # Len(plans)
  /\ plans[Len(plans)].brief = NewestBrief
  /\ Goes(c, [NoRequest EXCEPT !.pc = "import", !.brief = NewestBrief, !.plan = Len(plans),
                               !.base = Len(drafts)])
  /\ UNCHANGED <<briefRows, blueprintRows>>

Revision(from, brief, plan, content) ==
  [from |-> from, brief |-> brief, plan |-> plan,
   lessons |-> content.lessons, findings |-> content.findings]

\* The first revision is 1, every other one is numbered anew before the insert.
ImportCommit(c) ==
  /\ At(c, "import")
  /\ LET j == editor[c] IN
       drafts' = IF j.base = 0 /\ drafts # <<>> THEN drafts
                 ELSE Append(drafts, Revision(0, j.brief, j.plan, plans[j.plan]))
  /\ Answered(c)
  /\ UNCHANGED <<briefRows, plans, versions>>

\* _require_current_draft reads the brief and then the draft, for an edit or a confirmation.
RequireBrief(c) ==
  /\ At(c, "idle")
  /\ NewestBrief > 0
  /\ Goes(c, [NoRequest EXCEPT !.pc = "require", !.brief = NewestBrief])
  /\ UNCHANGED <<briefRows, blueprintRows>>

\* Mutant: the brief the draft is bound to is not compared.
RequireAnyDraft(c) ==
  /\ At(c, "require")
  /\ drafts # <<>>
  /\ \E next \in {"edit", "check"} : Goes(c, [editor[c] EXCEPT !.pc = next, !.base = Len(drafts)])
  /\ UNCHANGED <<briefRows, blueprintRows>>

RequireDraft(c) ==
  /\ At(c, "require")
  /\ drafts # <<>>
  /\ drafts[Len(drafts)].brief = editor[c].brief
  /\ \E next \in {"edit", "check"} : Goes(c, [editor[c] EXCEPT !.pc = next, !.base = Len(drafts)])
  /\ UNCHANGED <<briefRows, blueprintRows>>

\* patch_draft: the lessons are replaced and the findings it knows get another status;
\* record_decision: an open finding is decided.
Edited(draft) ==
  {[lessons |-> n, findings |-> f] :
     n \in Lessons, f \in IF draft.findings = "none" THEN {"none"} ELSE {"open", "closed"}}

EditCommit(c) ==
  /\ At(c, "edit")
  /\ LET j == editor[c] IN
       \/ /\ Len(drafts) = j.base
          /\ Len(drafts) < MaxRevisions
          /\ \E content \in Edited(drafts[j.base]) :
               drafts' = Append(drafts, Revision(j.base, j.brief, drafts[j.base].plan, content))
       \/ Len(drafts) > j.base /\ UNCHANGED drafts
  /\ Answered(c)
  /\ UNCHANGED <<briefRows, plans, versions>>

-----------------------------------------------------------------------------
(* confirm_blueprint.                                                        *)

Passes(draft, brief) ==
  draft.lessons = briefVersions[brief].lessons /\ draft.findings # "open"

ConfirmNumber(c) ==
  /\ At(c, "check")
  /\ IF Passes(drafts[editor[c].base], editor[c].brief) /\ ~HasSource(versions, editor[c].base)
       THEN Goes(c, [editor[c] EXCEPT !.pc = "confirm", !.number = Len(versions) + 1])
       ELSE Answered(c)
  /\ UNCHANGED <<briefRows, blueprintRows>>

ConfirmCommit(c) ==
  /\ At(c, "confirm")
  /\ LET j == editor[c] IN
       versions' = IF Free(versions, j.number, j.base)
                     THEN Append(versions, [source |-> j.base, brief |-> j.brief, stale |-> FALSE,
                                            lessons |-> drafts[j.base].lessons])
                     ELSE versions
  /\ Answered(c)
  /\ UNCHANGED <<briefRows, plans, drafts>>

-----------------------------------------------------------------------------
\* The steps of the endpoints of api/brief.py and of api/blueprint.py; each of the latter
\* imports the newest ready plan first.
BriefRequest(c) ==
  \/ PatchBriefRead(c) \/ PatchBriefCommit(c)
  \/ ConfirmBriefRead(c) \/ ConfirmBriefNumber(c) \/ ConfirmBriefCommit(c)
BlueprintRequest(c) ==
  \/ ImportRead(c) \/ ImportCommit(c)
  \/ RequireBrief(c) \/ RequireDraft(c) \/ EditCommit(c)
  \/ ConfirmNumber(c) \/ ConfirmCommit(c)

ConfirmationNext ==
  \/ EnsureDraft \/ PlanReady
  \/ \E c \in Editor : BriefRequest(c) \/ BlueprintRequest(c)

ConfirmationSpec == ConfirmationInit /\ [][ConfirmationNext]_confirmationVars

-----------------------------------------------------------------------------
(* Properties                                                                *)

\* No edit is lost: every revision was computed from the one before it or imported from a
\* planning run, whoever edits at the same time (patch_draft, record_decision and the keys
\* of the draft tables).
EditsAreLinear ==
  /\ \A i \in DOMAIN briefDrafts : briefDrafts[i].from = i - 1
  /\ \A i \in DOMAIN drafts : drafts[i].from \in {0, i - 1}

\* What generation works from was planned for the brief it is bound to, has as many lessons
\* and is the draft the teacher confirmed, although brief, draft and version are read one
\* after the other (confirm_blueprint, _require_current_draft).
ConfirmedFitsItsBrief ==
  \A i \in DOMAIN versions :
    LET v == versions[i]
        draft == drafts[v.source]
    IN /\ draft.brief = v.brief /\ plans[draft.plan].brief = v.brief
       /\ v.lessons = briefVersions[v.brief].lessons /\ v.lessons = draft.lessons
       /\ draft.findings # "open"
=============================================================================
