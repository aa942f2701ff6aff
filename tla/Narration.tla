-------------------------------- MODULE Narration --------------------------------
(***************************************************************************)
(* The narrations of one run: an explanation of its evidence               *)
(* (run_orchestration/evidence.py, api/evidence.py) or of an interview's   *)
(* next step (discovery_planning/narration.py, api/discovery.py,           *)
(* api/planning.py).                                                       *)
(*                                                                         *)
(* A request registers a narration in the memory of the process and starts *)
(* a thread that produces it token by token, stores it and marks it        *)
(* complete; listeners follow the registered narration, or are told the    *)
(* last stored one when none is registered.  Evidence narrations are       *)
(* charged to the workspace, an active one is not started again, and a     *)
(* narration that has ended is taken out of the registry; a narration of   *)
(* an interview replaces the one before.                                   *)
(***************************************************************************)
EXTENDS Integers, Sequences

CONSTANTS
  Starter,       \* requests that start narrations
  Listener,      \* clients that listen
  Quota,         \* evidence narrations of a workspace
  MaxTokens,     \* bound: tokens of a narration
  MaxNarrations  \* bound: narrations

ASSUME NarrationAssumption == Quota \in Nat /\ MaxTokens \in Nat /\ MaxNarrations \in Nat

VARIABLES
  flavour,    \* "evidence" or "interview"
  spent,      \* QuotaCounter.used, -1 when there is no row
  narrations, \* the narrations and their threads, in the order they were registered
  registered, \* the one in the registry, 0 when there is none
  stored,     \* narrations in the trace
  starter,    \* starter[c]: a request
  listener    \* listener[f]: a client; told is the narration it was told the whole of

narrationVars == <<flavour, spent, narrations, registered, stored, starter, listener>>

NewNarration == [pc |-> "stream", tokens |-> 0, complete |-> FALSE, stop |-> FALSE, error |-> FALSE]
NoStart == [pc |-> "idle", used |-> 0]
Silence == [open |-> FALSE, n |-> 0, index |-> 0, told |-> 0]

NarrationInit ==
  /\ flavour \in {"evidence", "interview"}
  /\ spent = -1
  /\ narrations = <<>>
  /\ registered = 0
  /\ stored = <<>>
  /\ starter = [c \in Starter |-> NoStart]
  /\ listener = [f \in Listener |-> Silence]

Starts(c, record) == starter' = [starter EXCEPT ![c] = record]
StarterIs(c, pc) == starter[c].pc = pc

-----------------------------------------------------------------------------
(* start_evidence_narration, reserve_narration_quota and start_narration.    *)

AskNarration(c) ==
  /\ StarterIs(c, "idle")
  /\ flavour = "evidence" => registered = 0
  /\ Starts(c, [NoStart EXCEPT !.pc = IF flavour = "evidence" THEN "reserve" ELSE "register"])
  /\ UNCHANGED <<flavour, spent, narrations, registered, stored, listener>>

\* The key of the counter is unique: a second first request waits and reads it again.  Two
\* that have read the same number write the same one.
Reserve(c) ==
  /\ StarterIs(c, "reserve")
  /\ spent = -1 => \A d \in Starter : ~StarterIs(d, "commit")
  /\ LET used == IF spent = -1 THEN 0 ELSE spent
     IN Starts(c, IF spent >= Quota THEN NoStart ELSE [pc |-> "commit", used |-> used + 1])
  /\ UNCHANGED <<flavour, spent, narrations, registered, stored, listener>>

CommitReservation(c) ==
  /\ StarterIs(c, "commit")
  /\ spent' = starter[c].used
  /\ Starts(c, [NoStart EXCEPT !.pc = "register"])
  /\ UNCHANGED <<flavour, narrations, registered, stored, listener>>

Register(c) ==
  /\ StarterIs(c, "register")
  /\ Len(narrations) < MaxNarrations
  /\ narrations' = Append(narrations, NewNarration)
  /\ registered' = Len(narrations) + 1
  /\ Starts(c, NoStart)
  /\ UNCHANGED <<flavour, spent, stored, listener>>

-----------------------------------------------------------------------------
(* _produce_narration and _produce.                                          *)

Threaded(n, pc) == narrations[n].pc = pc
Produces(n, record) == narrations' = [narrations EXCEPT ![n] = record]

Token(n) ==
  /\ Threaded(n, "stream")
  /\ narrations[n].tokens < MaxTokens
  /\ Produces(n, [narrations[n] EXCEPT !.tokens = @ + 1])
  /\ UNCHANGED <<flavour, spent, registered, stored, starter, listener>>

ProviderError(n) ==
  /\ Threaded(n, "stream")
  /\ Produces(n, [narrations[n] EXCEPT !.pc = "leave", !.error = TRUE, !.complete = TRUE])
  /\ UNCHANGED <<flavour, spent, registered, stored, starter, listener>>

\* Mutant: the narration is marked complete with its last token.
EndOfTokensTold(n) ==
  /\ Threaded(n, "stream")
  /\ Produces(n, [narrations[n] EXCEPT !.pc = "store", !.complete = TRUE])
  /\ UNCHANGED <<flavour, spent, registered, stored, starter, listener>>

EndOfTokens(n) ==
  /\ Threaded(n, "stream")
  /\ Produces(n, [narrations[n] EXCEPT !.pc = "store"])
  /\ UNCHANGED <<flavour, spent, registered, stored, starter, listener>>

Store(n) ==
  /\ Threaded(n, "store")
  /\ stored' = Append(stored, n)
  /\ Produces(n, [narrations[n] EXCEPT !.pc = "tell"])
  /\ UNCHANGED <<flavour, spent, registered, starter, listener>>

MarkComplete(n) ==
  /\ Threaded(n, "tell")
  /\ Produces(n, [narrations[n] EXCEPT !.pc = "leave", !.complete = TRUE])
  /\ UNCHANGED <<flavour, spent, registered, stored, starter, listener>>

\* The registry is asked for the run: the narration that leaves may be another one.
Leave(n) ==
  /\ Threaded(n, "leave")
  /\ registered' = IF flavour = "evidence" THEN 0 ELSE registered
  /\ Produces(n, [narrations[n] EXCEPT !.pc = "gone"])
  /\ UNCHANGED <<flavour, spent, stored, starter, listener>>

\* Every other error ends the thread, or the request before it has started one.
ThreadDies(n) ==
  /\ narrations[n].pc \in {"stream", "store"}
  /\ Produces(n, [narrations[n] EXCEPT !.pc = "gone"])
  /\ UNCHANGED <<flavour, spent, registered, stored, starter, listener>>

\* The listeners are told; the thread goes on.
StopNarration ==
  /\ registered # 0
  /\ Produces(registered, [narrations[registered] EXCEPT !.stop = TRUE])
  /\ UNCHANGED <<flavour, spent, registered, stored, starter, listener>>

\* The memory of the process is gone, and with it every thread and every request.
ProcessDies ==
  /\ registered # 0
  /\ registered' = 0
  /\ narrations' = [n \in DOMAIN narrations |-> [narrations[n] EXCEPT !.pc = "gone"]]
  /\ starter' = [c \in Starter |-> NoStart]
  /\ listener' = [f \in Listener |-> [listener[f] EXCEPT !.open = FALSE]]
  /\ UNCHANGED <<flavour, spent, stored>>

-----------------------------------------------------------------------------
(* The streams.                                                              *)

Hears(f, record) == listener' = [listener EXCEPT ![f] = record]

\* The last narration in the trace is told at once.
LastNarration ==
  IF stored = <<>> THEN Silence
  ELSE LET last == stored[Len(stored)] IN
         [Silence EXCEPT !.n = last, !.index = narrations[last].tokens, !.told = last]

\* A client that comes back names the number of tokens it has, of whichever narration.
Listen(f) ==
  /\ ~listener[f].open
  /\ \E index \in {0, listener[f].index} :
       Hears(f, IF registered # 0
                  THEN [open |-> TRUE, n |-> registered, index |-> index, told |-> 0]
                  ELSE LastNarration)
  /\ UNCHANGED <<flavour, spent, narrations, registered, stored, starter>>

\* Tokens and flags are read under the lock.  A stop comes before the end, and only the
\* streams of evidence tell an error from an end.
Follow(f) ==
  /\ listener[f].open
  /\ LET j == listener[f]
         state == narrations[j.n]
         heard == [j EXCEPT !.index = IF state.tokens > @ THEN state.tokens ELSE @]
     IN /\ state.tokens > j.index \/ state.complete \/ state.stop
        /\ Hears(f, CASE state.stop -> [heard EXCEPT !.open = FALSE]
                      [] state.complete /\ ~state.stop ->
                           [heard EXCEPT !.open = FALSE,
                                         !.told = IF flavour = "evidence" /\ state.error THEN 0 ELSE j.n]
                      [] OTHER -> heard)
  /\ UNCHANGED <<flavour, spent, narrations, registered, stored, starter>>

HangUp(f) ==
  /\ listener[f].open
  /\ Hears(f, [listener[f] EXCEPT !.open = FALSE])
  /\ UNCHANGED <<flavour, spent, narrations, registered, stored, starter>>

NarrationRequest(c) == AskNarration(c) \/ Reserve(c) \/ CommitReservation(c) \/ Register(c)
Thread(n) ==
  \/ Token(n) \/ ProviderError(n) \/ EndOfTokens(n)
  \/ Store(n) \/ MarkComplete(n) \/ Leave(n) \/ ThreadDies(n)
Stream(f) == Listen(f) \/ Follow(f) \/ HangUp(f)

NarrationNext ==
  \/ \E c \in Starter : NarrationRequest(c)
  \/ \E n \in DOMAIN narrations : Thread(n)
  \/ StopNarration \/ ProcessDies
  \/ \E f \in Listener : Stream(f)

NarrationSpec == NarrationInit /\ [][NarrationNext]_narrationVars

-----------------------------------------------------------------------------
(* Properties                                                                *)

\* A client that is told that a narration is complete was told what the trace has, whoever
\* replaced it, stopped it or took it out of the registry meanwhile; an interview's
\* narration that the provider broke off is told as complete, too (F006 D8: "complete text
\* recorded in the workspace trace").
ToldIsStored ==
  \A f \in Listener :
    LET n == listener[f].told
    IN n # 0 /\ ~narrations[n].error => \E i \in DOMAIN stored : stored[i] = n
=============================================================================
