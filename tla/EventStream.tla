------------------------------- MODULE EventStream -------------------------------
(***************************************************************************)
(* The events of one generation run and the streams that follow them       *)
(* (append_event and replay_events of run_orchestration/service.py, the    *)
(* events endpoints of api/generation.py, decks.py and exercises.py,       *)
(* api/sse_registry.py).                                                   *)
(*                                                                         *)
(* Workers and requests append an event under the lock of the run's row.   *)
(* A stream polls: it reads the events after its cursor, then, with        *)
(* another statement, the status of the run, and ends when the run is      *)
(* settled and there was nothing to read.  A client that was cut off       *)
(* comes back with the last number it has seen.                            *)
(***************************************************************************)
EXTENDS Integers, Sequences, FiniteSets, FiniteSetsExt

CONSTANTS
  Author,     \* workers and requests that append events
  Follower,   \* clients that follow the run
  MaxStreams, \* streams of the workspace at a time
  MaxEvents,  \* bound: events of the run
  PageSize,   \* events of a poll
  Counted     \* whether the streams of the run's kind take a slot: only those of lessons do

ASSUME StreamAssumption ==
  MaxStreams \in Nat \ {0} /\ MaxEvents \in Nat /\ PageSize \in Nat \ {0} /\ Counted \in BOOLEAN

VARIABLES
  log,     \* numbers of the RunEvent rows
  settled, \* the run's status is a terminal one
  author,  \* author[w]: the number w is about to commit, 0 when it holds no lock
  slots,   \* streams the registry counts
  stream,  \* stream[c]: the stream of c
  seen     \* seen[c]: the numbers that have reached c

streamVars == <<log, settled, author, slots, stream, seen>>

NoStream == [pc |-> "closed", cursor |-> 0, page |-> {}]

StreamInit ==
  /\ log = {}
  /\ settled = FALSE
  /\ author = [w \in Author |-> 0]
  /\ slots = 0
  /\ stream = [c \in Follower |-> NoStream]
  /\ seen = [c \in Follower |-> <<>>]

Highest(numbers) == Max(numbers \cup {0})

-----------------------------------------------------------------------------
(* append_event.                                                             *)

\* Mutant: the number comes from a sequence, without the lock of the run's row.
NumberUnlocked(w) ==
  /\ author[w] = 0
  /\ Cardinality(log) < MaxEvents
  /\ author' = [author EXCEPT ![w] = Highest(log \cup {author[v] : v \in Author}) + 1]
  /\ UNCHANGED <<log, settled, slots, stream, seen>>

Unlocked == \A v \in Author : author[v] = 0

LockAndNumber(w) ==
  /\ Unlocked
  /\ Highest(log) < MaxEvents
  /\ author' = [author EXCEPT ![w] = Highest(log) + 1]
  /\ UNCHANGED <<log, settled, slots, stream, seen>>

\* A resumption makes the run active with the commit of its event.
CommitEvent(w) ==
  /\ author[w] > 0
  /\ log' = log \cup {author[w]}
  /\ settled' \in {settled, FALSE}
  /\ author' = [author EXCEPT ![w] = 0]
  /\ UNCHANGED <<slots, stream, seen>>

EventLost(w) ==
  /\ author[w] > 0
  /\ author' = [author EXCEPT ![w] = 0]
  /\ UNCHANGED <<log, settled, slots, stream, seen>>

\* The terminal status has a commit of its own; the event that tells it comes after.
SettleRun ==
  /\ Unlocked
  /\ ~settled
  /\ settled' = TRUE
  /\ UNCHANGED <<log, author, slots, stream, seen>>

-----------------------------------------------------------------------------
(* A stream.                                                                 *)

Streams(c, record) == stream' = [stream EXCEPT ![c] = record]

Ends(c) ==
  /\ Streams(c, NoStream)
  /\ slots' = IF Counted THEN slots - 1 ELSE slots

\* A client that comes back names the last number it has seen, or starts anew.
OpenStream(c) ==
  /\ stream[c].pc = "closed"
  /\ Counted => slots < MaxStreams
  /\ slots' = IF Counted THEN slots + 1 ELSE slots
  /\ \/ Streams(c, [NoStream EXCEPT !.pc = "poll", !.cursor = Len(seen[c])]) /\ UNCHANGED seen
     \/ Streams(c, [NoStream EXCEPT !.pc = "poll"]) /\ seen' = [seen EXCEPT ![c] = <<>>]
  /\ UNCHANGED <<log, settled, author>>

\* The first PageSize events after the cursor.
Page(c) ==
  LET after == {n \in log : n > stream[c].cursor}
  IN {n \in after : Cardinality({m \in after : m < n}) < PageSize}

ReplayEvents(c) ==
  /\ stream[c].pc = "poll"
  /\ Streams(c, [stream[c] EXCEPT !.pc = "status", !.page = Page(c)])
  /\ UNCHANGED <<log, settled, author, slots, seen>>

ReadStatus(c) ==
  /\ stream[c].pc = "status"
  /\ IF settled /\ stream[c].page = {}
       THEN Ends(c)
       ELSE Streams(c, [stream[c] EXCEPT !.pc = "send"]) /\ UNCHANGED slots
  /\ UNCHANGED <<log, settled, author, seen>>

SendEvent(c) ==
  /\ stream[c].pc = "send"
  /\ IF stream[c].page = {}
       THEN Streams(c, [stream[c] EXCEPT !.pc = "poll"]) /\ UNCHANGED seen
       ELSE LET next == Min(stream[c].page) IN
              /\ seen' = [seen EXCEPT ![c] = Append(@, next)]
              /\ Streams(c, [stream[c] EXCEPT !.cursor = next, !.page = @ \ {next}])
  /\ UNCHANGED <<log, settled, author, slots>>

\* The client goes, or the time of the stream is over.
CutOff(c) ==
  /\ stream[c].pc # "closed"
  /\ Ends(c)
  /\ UNCHANGED <<log, settled, author, seen>>

\* The body of a response; those of lessons, decks and exercises are the same.
StreamBody(c) == ReplayEvents(c) \/ ReadStatus(c) \/ SendEvent(c)

StreamNext ==
  \/ \E w \in Author : LockAndNumber(w) \/ CommitEvent(w) \/ EventLost(w)
  \/ SettleRun
  \/ \E c \in Follower : OpenStream(c) \/ StreamBody(c) \/ CutOff(c)

StreamSpec == StreamInit /\ [][StreamNext]_streamVars

-----------------------------------------------------------------------------
(* Properties                                                                *)

\* What has reached a client is the beginning of the run's events, none missing, none twice
\* and in their order, however events are committed between its polls and however often it
\* is cut off (append_event under the lock of the run, replay after Last-Event-ID).
SeenIsPrefix ==
  \A c \in Follower : \A i \in DOMAIN seen[c] : seen[c][i] = i /\ 1..i \subseteq log
=============================================================================
