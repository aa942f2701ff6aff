---------------------------- MODULE StreamingProofs ----------------------------
(***************************************************************************)
(* Proofs about EventStream and Narration for every value of their         *)
(* constants.                                                              *)
(***************************************************************************)
EXTENDS EventStream, Narration, FiniteSetTheorems, TLAPS

-----------------------------------------------------------------------------
(* EventStream: what a client has seen is a prefix of the log.              *)

StreamState == [pc : {"closed", "poll", "status", "send"}, cursor : Nat, page : SUBSET Nat]

StreamTypeInv ==
  /\ author \in [Author -> Nat]
  /\ stream \in [Follower -> StreamState]
  /\ seen \in [Follower -> Seq(Nat)]

\* The log has no gap: one author at a time holds the number after the last one.
LogInv ==
  \E n \in Nat :
    /\ log = 1..n
    /\ \A w \in Author : author[w] \in {0, n + 1}
    /\ \A v, w \in Author : author[v] # 0 /\ author[w] # 0 => v = w

\* A stream has sent what is before its cursor, and its page follows the cursor.
FollowerInv(c) ==
  /\ \A i \in DOMAIN seen[c] : seen[c][i] = i /\ i \in log
  /\ stream[c].pc # "closed" => stream[c].cursor = Len(seen[c])
  /\ stream[c].pc \in {"status", "send"} =>
       \E m \in Nat : stream[c].page = (stream[c].cursor + 1)..m /\ stream[c].page \subseteq log

StreamInv == StreamTypeInv /\ LogInv /\ \A c \in Follower : FollowerInv(c)

USE StreamAssumption, NarrationAssumption

\* The highest number of a log without a gap.
LEMMA HighestOfInterval ==
  ASSUME NEW n \in Nat
  PROVE  Highest(1..n) = n
<1> DEFINE S == (1..n) \cup {0}
<1>1. n \in S /\ \A y \in S : n >= y
  OBVIOUS
<1>2. \A x \in S : (\A y \in S : x >= y) => x = n
  BY <1>1
<1>3. Max(S) = n
  BY <1>1, <1>2 DEF Max
<1> QED BY <1>3 DEF Highest

\* A page has no gap either.
LEMMA PageIsInterval ==
  ASSUME NEW c \in Follower, NEW n \in Nat, log = 1..n, stream[c].cursor \in Nat
  PROVE  \E m \in Nat : Page(c) = (stream[c].cursor + 1)..m /\ Page(c) \subseteq log
<1> DEFINE k == stream[c].cursor
           after == {i \in log : i > k}
           Before(i) == {j \in after : j < i}
           m == IF n <= k + PageSize THEN n ELSE k + PageSize
<1>1. after = (k + 1)..n
  OBVIOUS
<1>2. ASSUME NEW i \in after PROVE Cardinality(Before(i)) = i - 1 - k
  <2>1. Before(i) = (k + 1)..(i - 1)
    BY <1>1
  <2>2. k \in Nat /\ i \in Nat /\ i > k /\ k + 1 \in Int /\ i - 1 \in Int
    BY <1>1
  <2>3. Cardinality((k + 1)..(i - 1)) = IF k + 1 > i - 1 THEN 0 ELSE i - 1 - (k + 1) + 1
    BY <2>2, FS_Interval
  <2>4. Cardinality((k + 1)..(i - 1)) = i - 1 - k
    <3> HIDE DEF k, after
    <3> QED BY <2>2, <2>3
  <2> QED BY <2>1, <2>4
<1>3. m \in Nat
  OBVIOUS
<1>4. Page(c) = {i \in after : Cardinality(Before(i)) < PageSize}
  BY DEF Page
<1>5. Page(c) = {i \in after : i - 1 - k < PageSize}
  <2> HIDE DEF after, Before, k
  <2> QED BY <1>2, <1>4
<1>6. Page(c) = (k + 1)..m
  BY <1>1, <1>5
<1>7. Page(c) \subseteq log
  BY <1>4
<1> QED BY <1>3, <1>6, <1>7

\* What a step of the stream of c leaves alone.
LEMMA StreamsSets ==
  ASSUME StreamTypeInv, NEW c \in Follower, NEW s \in StreamState, Streams(c, s)
  PROVE  /\ stream' \in [Follower -> StreamState]
         /\ stream'[c] = s
         /\ \A d \in Follower \ {c} : stream'[d] = stream[d]
BY DEF Streams, StreamTypeInv

\* Appending the next number keeps a client's numbers a prefix.
LEMMA AppendNext ==
  ASSUME NEW s \in Seq(Nat), \A i \in DOMAIN s : s[i] = i /\ i \in log, Len(s) + 1 \in log
  PROVE  LET t == Append(s, Len(s) + 1)
         IN  t \in Seq(Nat) /\ Len(t) = Len(s) + 1 /\ \A i \in DOMAIN t : t[i] = i /\ i \in log
OBVIOUS

\* Initially nothing was appended and nothing was seen.
LEMMA StreamInitInv == StreamInit => StreamInv
<1> SUFFICES ASSUME StreamInit PROVE StreamInv
  OBVIOUS
<1>1. StreamTypeInv
  BY DEF StreamInit, StreamTypeInv, StreamState, NoStream
<1>2. LogInv
  <2>1. log = 1..0 /\ \A w \in Author : author[w] = 0
    BY DEF StreamInit
  <2> QED BY <2>1 DEF LogInv
<1>3. ASSUME NEW c \in Follower PROVE FollowerInv(c)
  BY DEF StreamInit, FollowerInv, NoStream
<1> QED BY <1>1, <1>2, <1>3 DEF StreamInv

\* The authors: the log grows by the number that one of them holds.
LEMMA AuthorInv ==
  ASSUME StreamInv, NEW w \in Author, LockAndNumber(w) \/ CommitEvent(w) \/ EventLost(w)
  PROVE  StreamInv'
<1> PICK n \in Nat : /\ log = 1..n
                     /\ \A v \in Author : author[v] \in {0, n + 1}
                     /\ \A u, v \in Author : author[u] # 0 /\ author[v] # 0 => u = v
  BY DEF StreamInv, LogInv
<1>1. StreamTypeInv /\ \A c \in Follower : FollowerInv(c)
  BY DEF StreamInv
<1>2. stream' = stream /\ seen' = seen
  BY DEF LockAndNumber, CommitEvent, EventLost
<1>3. log \subseteq log' /\ StreamTypeInv' /\ LogInv'
  <2>1. CASE LockAndNumber(w)
    <3>1. author' = [author EXCEPT ![w] = n + 1] /\ log' = log
      BY <2>1, HighestOfInterval DEF LockAndNumber
    <3>2. \A v \in Author : author[v] = 0
      BY <2>1 DEF LockAndNumber, Unlocked
    <3> QED BY <1>1, <1>2, <3>1, <3>2 DEF StreamTypeInv, LogInv
  <2>2. CASE CommitEvent(w)
    <3>1. author[w] = n + 1 /\ \A v \in Author \ {w} : author[v] = 0
      BY <1>1, <2>2 DEF CommitEvent, StreamTypeInv
    <3>2. log' = 1..(n + 1) /\ author' = [author EXCEPT ![w] = 0]
      BY <2>2, <3>1 DEF CommitEvent
    <3>3. \A v \in Author : author'[v] = 0
      BY <1>1, <3>1, <3>2 DEF StreamTypeInv
    <3> QED BY <1>1, <1>2, <3>2, <3>3 DEF StreamTypeInv, LogInv
  <2>3. CASE EventLost(w)
    <3>1. author' = [author EXCEPT ![w] = 0] /\ log' = log
      BY <2>3 DEF EventLost
    <3> QED BY <1>1, <1>2, <3>1 DEF StreamTypeInv, LogInv
  <2> QED BY <2>1, <2>2, <2>3
<1>4. ASSUME NEW c \in Follower PROVE FollowerInv(c)'
  BY <1>1, <1>2, <1>3 DEF FollowerInv
<1> QED BY <1>3, <1>4 DEF StreamInv

\* The clients: each step moves one stream.
LEMMA FollowerStep ==
  ASSUME StreamInv, NEW c \in Follower, OpenStream(c) \/ StreamBody(c) \/ CutOff(c)
  PROVE  StreamInv'
<1>1. /\ StreamTypeInv /\ LogInv /\ FollowerInv(c)
      /\ log' = log /\ author' = author
      /\ stream[c] \in StreamState /\ seen[c] \in Seq(Nat)
  BY DEF StreamInv, StreamTypeInv, OpenStream, StreamBody, ReplayEvents, ReadStatus, SendEvent, CutOff
<1>2. NoStream \in StreamState
  BY DEF NoStream, StreamState
<1> DEFINE Kept == /\ stream' \in [Follower -> StreamState] /\ seen' \in [Follower -> Seq(Nat)]
                   /\ \A d \in Follower \ {c} : stream'[d] = stream[d] /\ seen'[d] = seen[d]
<1>3. ASSUME Kept, FollowerInv(c)' PROVE StreamInv'
  <2>1. StreamTypeInv' /\ LogInv'
    BY <1>1, <1>3 DEF StreamTypeInv, LogInv
  <2>2. ASSUME NEW d \in Follower \ {c} PROVE FollowerInv(d)'
    <3>1. FollowerInv(d) /\ stream'[d] = stream[d] /\ seen'[d] = seen[d]
      BY <1>3 DEF StreamInv
    <3> QED BY <1>1, <3>1 DEF FollowerInv
  <2> QED BY <1>3, <2>1, <2>2 DEF StreamInv
<1>4. CASE OpenStream(c)
  <2>1. CASE Streams(c, [NoStream EXCEPT !.pc = "poll", !.cursor = Len(seen[c])]) /\ UNCHANGED seen
    <3> DEFINE s == [NoStream EXCEPT !.pc = "poll", !.cursor = Len(seen[c])]
    <3>1. s \in StreamState /\ s.pc = "poll" /\ s.cursor = Len(seen[c])
      <4>1. Len(seen[c]) \in Nat
        BY <1>1
      <4> QED BY <1>2, <4>1 DEF StreamState
    <3>2. Kept /\ stream'[c] = s /\ seen'[c] = seen[c]
      BY <1>1, <2>1, <3>1, StreamsSets DEF StreamTypeInv
    <3> QED BY <1>1, <1>3, <3>1, <3>2 DEF FollowerInv
  <2>2. CASE /\ Streams(c, [NoStream EXCEPT !.pc = "poll"])
             /\ seen' = [seen EXCEPT ![c] = <<>>]
    <3> DEFINE s == [NoStream EXCEPT !.pc = "poll"]
    <3>1. s \in StreamState /\ s.pc = "poll" /\ s.cursor = 0
      BY DEF NoStream, StreamState
    <3>2. Kept /\ stream'[c] = s /\ seen'[c] = <<>>
      BY <1>1, <2>2, <3>1, StreamsSets DEF StreamTypeInv
    <3> QED BY <1>1, <1>3, <3>1, <3>2 DEF FollowerInv
  <2> QED BY <1>4, <2>1, <2>2 DEF OpenStream
<1>5. CASE ReplayEvents(c)
  <2> DEFINE s == [stream[c] EXCEPT !.pc = "status", !.page = Page(c)]
  <2>1. PICK m \in Nat : Page(c) = (stream[c].cursor + 1)..m /\ Page(c) \subseteq log
    BY <1>1, PageIsInterval DEF LogInv, StreamState
  <2>2. s \in StreamState /\ s.pc = "status" /\ s.cursor = stream[c].cursor /\ s.page = Page(c)
    <3>1. Page(c) \in SUBSET Nat
      BY <1>1, <2>1 DEF LogInv
    <3> QED BY <1>1, <3>1 DEF StreamState
  <2>3. Kept /\ stream'[c] = s /\ seen'[c] = seen[c]
    BY <1>1, <1>5, <2>2, StreamsSets DEF ReplayEvents, StreamTypeInv
  <2> QED BY <1>1, <1>3, <1>5, <2>1, <2>2, <2>3 DEF FollowerInv, ReplayEvents
<1>6. CASE ReadStatus(c)
  <2>1. CASE Streams(c, NoStream)
    <3>1. Kept /\ stream'[c] = NoStream /\ seen'[c] = seen[c]
      BY <1>1, <1>2, <1>6, <2>1, StreamsSets DEF ReadStatus, StreamTypeInv
    <3> QED BY <1>1, <1>3, <3>1 DEF FollowerInv, NoStream
  <2>2. CASE Streams(c, [stream[c] EXCEPT !.pc = "send"])
    <3> DEFINE s == [stream[c] EXCEPT !.pc = "send"]
    <3>1. s \in StreamState /\ s.pc = "send" /\ s.cursor = stream[c].cursor /\ s.page = stream[c].page
      BY <1>1 DEF StreamState
    <3>2. Kept /\ stream'[c] = s /\ seen'[c] = seen[c]
      BY <1>1, <1>6, <2>2, <3>1, StreamsSets DEF ReadStatus, StreamTypeInv
    <3> QED BY <1>1, <1>3, <1>6, <3>1, <3>2 DEF FollowerInv, ReadStatus
  <2> QED BY <1>6, <2>1, <2>2 DEF ReadStatus, Ends
<1>7. CASE SendEvent(c)
  <2> DEFINE k == stream[c].cursor
  <2>1. PICK m \in Nat : stream[c].page = (k + 1)..m /\ stream[c].page \subseteq log
    BY <1>1, <1>7 DEF SendEvent, FollowerInv
  <2>2. k = Len(seen[c]) /\ k \in Nat
    BY <1>1, <1>7 DEF SendEvent, FollowerInv, StreamState
  <2>3. CASE stream[c].page = {}
    <3> DEFINE s == [stream[c] EXCEPT !.pc = "poll"]
    <3>1. s \in StreamState /\ s.pc = "poll" /\ s.cursor = k
      BY <1>1 DEF StreamState
    <3>2. Kept /\ stream'[c] = s /\ seen'[c] = seen[c]
      BY <1>1, <1>7, <2>3, <3>1, StreamsSets DEF SendEvent, StreamTypeInv
    <3> QED BY <1>1, <1>3, <2>2, <3>1, <3>2 DEF FollowerInv
  <2>4. CASE stream[c].page # {}
    <3>1. Min(stream[c].page) = k + 1 /\ k + 1 \in stream[c].page
      <4>1. k + 1 \in stream[c].page /\ \A y \in stream[c].page : k + 1 =< y
        BY <2>1, <2>2, <2>4
      <4>2. \A x \in stream[c].page : (\A y \in stream[c].page : x =< y) => x = k + 1
        BY <2>1, <2>2, <4>1
      <4> QED BY <4>1, <4>2 DEF Min
    <3> DEFINE s == [stream[c] EXCEPT !.cursor = k + 1, !.page = @ \ {k + 1}]
    <3>2. /\ s \in StreamState /\ s.pc = "send" /\ s.cursor = k + 1
          /\ s.page = stream[c].page \ {k + 1} /\ s.page = (k + 2)..m
      <4>1. (k + 1)..m \ {k + 1} = (k + 2)..m
        BY <2>2
      <4>2. stream[c].pc = "send" /\ k + 1 \in Nat /\ stream[c].page \ {k + 1} \in SUBSET Nat
        BY <1>1, <1>7, <2>2 DEF StreamState, SendEvent
      <4>3. /\ s \in StreamState /\ s.pc = "send" /\ s.cursor = k + 1
            /\ s.page = stream[c].page \ {k + 1}
        BY <1>1, <4>2 DEF StreamState
      <4> QED BY <2>1, <4>1, <4>3
    <3>3. /\ seen' = [seen EXCEPT ![c] = Append(@, k + 1)]
          /\ Streams(c, s)
      BY <1>7, <2>4, <3>1 DEF SendEvent
    <3> HIDE DEF s
    <3>4. /\ Append(seen[c], k + 1) \in Seq(Nat) /\ Len(Append(seen[c], k + 1)) = k + 1
          /\ \A i \in DOMAIN Append(seen[c], k + 1) : Append(seen[c], k + 1)[i] = i /\ i \in log
      BY <1>1, <2>1, <2>2, <3>1, AppendNext DEF FollowerInv
    <3>5. Kept /\ stream'[c] = s /\ seen'[c] = Append(seen[c], k + 1)
      BY <1>1, <3>2, <3>3, <3>4, StreamsSets DEF StreamTypeInv
    <3>6. s.page = (s.cursor + 1)..m /\ s.page \subseteq log
      BY <2>1, <2>2, <3>2
    <3> QED BY <1>1, <1>3, <3>2, <3>4, <3>5, <3>6 DEF FollowerInv
  <2> QED BY <2>3, <2>4
<1>8. CASE CutOff(c)
  <2>1. Kept /\ stream'[c] = NoStream /\ seen'[c] = seen[c]
    BY <1>1, <1>2, <1>8, StreamsSets DEF CutOff, Ends, StreamTypeInv
  <2> QED BY <1>1, <1>3, <2>1 DEF FollowerInv, NoStream
<1> QED BY <1>4, <1>5, <1>6, <1>7, <1>8 DEF StreamBody

\* Every step keeps the invariant.
LEMMA StreamNextInv == StreamInv /\ [StreamNext]_streamVars => StreamInv'
<1> SUFFICES ASSUME StreamInv, [StreamNext]_streamVars PROVE StreamInv'
  OBVIOUS
<1>1. CASE \E w \in Author : LockAndNumber(w) \/ CommitEvent(w) \/ EventLost(w)
  BY <1>1, AuthorInv
<1>2. CASE SettleRun \/ UNCHANGED streamVars
  BY <1>2 DEF SettleRun, streamVars, StreamInv, StreamTypeInv, LogInv, FollowerInv
<1>3. CASE \E c \in Follower : OpenStream(c) \/ StreamBody(c) \/ CutOff(c)
  BY <1>3, FollowerStep
<1> QED BY <1>1, <1>2, <1>3 DEF StreamNext

\* However events are committed between the polls and however often a client is cut off, it
\* has seen the beginning of the run's events in their order, for any number of authors,
\* clients and events.
THEOREM StreamsMissNothing == StreamSpec => []SeenIsPrefix
<1>1. StreamInit => StreamInv
  BY StreamInitInv
<1>2. StreamInv /\ [StreamNext]_streamVars => StreamInv'
  BY StreamNextInv
<1>3. StreamInv => SeenIsPrefix
  <2> SUFFICES ASSUME StreamInv, NEW c \in Follower, NEW i \in DOMAIN seen[c]
               PROVE  seen[c][i] = i /\ 1..i \subseteq log
    BY DEF SeenIsPrefix
  <2>1. seen[c][i] = i /\ i \in log
    BY DEF StreamInv, FollowerInv
  <2>2. PICK n \in Nat : log = 1..n
    BY DEF StreamInv, LogInv
  <2> QED BY <2>1, <2>2
<1> QED BY <1>1, <1>2, <1>3, PTL DEF StreamSpec

-----------------------------------------------------------------------------
(* Narration: what a client was told the whole of is in the trace.          *)

NarrationState == [pc : {"stream", "store", "tell", "leave", "gone"}, tokens : Nat,
                   complete : BOOLEAN, stop : BOOLEAN, error : BOOLEAN]

\* Narrations by number, 0 for none.
Numbers == 0..Len(narrations)
ListenerState == [open : BOOLEAN, n : Numbers, index : Nat, told : Numbers]

NarrationTypeInv ==
  /\ narrations \in Seq(NarrationState)
  /\ registered \in Numbers
  /\ stored \in Seq(DOMAIN narrations)
  /\ listener \in [Listener -> ListenerState]

InTrace(n) == \E i \in DOMAIN stored : stored[i] = n

\* A thread tells what it has stored: a narration that is complete is in the trace, unless
\* the provider broke it off.
ToldInv ==
  /\ \A n \in DOMAIN narrations :
       /\ narrations[n].pc = "tell" => InTrace(n)
       /\ narrations[n].complete /\ ~narrations[n].error => InTrace(n)
  /\ \A f \in Listener : listener[f].open => listener[f].n # 0

NarrationInv == NarrationTypeInv /\ ToldInv /\ ToldIsStored

\* Narrations by number.
LEMMA NumbersNarrations ==
  ASSUME NarrationTypeInv
  PROVE  /\ Len(narrations) \in Nat /\ DOMAIN narrations = 1..Len(narrations)
         /\ \A n \in DOMAIN narrations : n \in Numbers /\ n # 0 /\ narrations[n] \in NarrationState
         /\ \A n \in Numbers : n # 0 => n \in DOMAIN narrations
         /\ Len(stored) \in Nat /\ DOMAIN stored = 1..Len(stored)
         /\ \A i \in DOMAIN stored : stored[i] \in DOMAIN narrations
<1>1. narrations \in Seq(NarrationState) /\ stored \in Seq(DOMAIN narrations)
  BY DEF NarrationTypeInv
<1>2. Len(narrations) \in Nat /\ DOMAIN narrations = 1..Len(narrations)
  BY <1>1
<1> QED BY <1>1, <1>2 DEF Numbers

\* What a step of the thread of n leaves alone.
LEMMA ProducesSets ==
  ASSUME NarrationTypeInv, NEW n \in DOMAIN narrations, NEW s \in NarrationState, Produces(n, s)
  PROVE  /\ narrations' \in Seq(NarrationState) /\ Len(narrations') = Len(narrations)
         /\ DOMAIN narrations' = DOMAIN narrations
         /\ narrations'[n] = s
         /\ \A m \in DOMAIN narrations \ {n} : narrations'[m] = narrations[m]
BY DEF Produces, NarrationTypeInv

\* What a step of the client f leaves alone.
LEMMA HearsSets ==
  ASSUME NarrationTypeInv, NEW f \in Listener, NEW s \in ListenerState, Hears(f, s)
  PROVE  /\ listener' \in [Listener -> ListenerState]
         /\ listener'[f] = s
         /\ \A g \in Listener \ {f} : listener'[g] = listener[g]
BY DEF Hears, NarrationTypeInv

\* The trace only grows, errors stay, and narrations are never forgotten: what was told stays
\* told.
LEMMA ToldStays ==
  ASSUME NarrationInv, UNCHANGED listener,
         DOMAIN narrations \subseteq DOMAIN narrations',
         \A n \in DOMAIN narrations : InTrace(n) => InTrace(n)',
         \A n \in DOMAIN narrations : narrations[n].error => narrations'[n].error
  PROVE  ToldIsStored'
<1> SUFFICES ASSUME NEW f \in Listener, listener[f].told # 0,
                    ~narrations'[listener[f].told].error
             PROVE  InTrace(listener[f].told)'
  BY DEF ToldIsStored, InTrace
<1>1. listener[f].told \in DOMAIN narrations
  BY DEF NarrationInv, NarrationTypeInv, ListenerState, Numbers
<1>2. ~narrations[listener[f].told].error
  BY <1>1
<1>3. InTrace(listener[f].told)
  BY <1>1, <1>2 DEF NarrationInv, ToldIsStored, InTrace
<1> QED BY <1>1, <1>3

\* Initially there are no narrations.
LEMMA NarrationInitInv == NarrationInit => NarrationInv
<1> SUFFICES ASSUME NarrationInit PROVE NarrationInv
  OBVIOUS
<1>1. narrations = <<>> /\ stored = <<>> /\ registered = 0 /\ listener = [f \in Listener |-> Silence]
  BY DEF NarrationInit
<1>2. Silence \in ListenerState
  BY <1>1 DEF Silence, ListenerState, Numbers
<1> QED BY <1>1, <1>2 DEF NarrationInv, NarrationTypeInv, ToldInv, ToldIsStored, Silence, Numbers

\* A step of the thread of n: the flags of n and the trace change together.
LEMMA ThreadInv ==
  ASSUME NarrationInv, NEW n \in DOMAIN narrations, Thread(n)
  PROVE  NarrationInv'
<1> DEFINE old == narrations[n]
<1>1. NarrationTypeInv /\ ToldInv /\ ToldIsStored /\ old \in NarrationState /\ UNCHANGED listener
  BY DEF NarrationInv, NarrationTypeInv, Thread, Token, ProviderError, EndOfTokens, Store,
         MarkComplete, Leave, ThreadDies
<1>2. ASSUME NEW s \in NarrationState, Produces(n, s), registered' \in {registered, 0},
             \/ stored' = stored
             \/ stored' = Append(stored, n),
             old.error => s.error,
             s.pc = "tell" => InTrace(n)',
             s.complete /\ ~s.error => InTrace(n)'
      PROVE  NarrationInv'
  <2>1. /\ narrations' \in Seq(NarrationState) /\ Len(narrations') = Len(narrations)
        /\ DOMAIN narrations' = DOMAIN narrations
        /\ narrations'[n] = s
        /\ \A m \in DOMAIN narrations \ {n} : narrations'[m] = narrations[m]
    BY <1>1, <1>2, ProducesSets
  <2>2. stored' \in Seq(DOMAIN narrations) /\ \A m \in DOMAIN narrations : InTrace(m) => InTrace(m)'
    <3>1. stored \in Seq(DOMAIN narrations)
      BY <1>1 DEF NarrationTypeInv
    <3>2. CASE stored' = stored
      BY <3>1, <3>2 DEF InTrace
    <3>3. CASE stored' = Append(stored, n)
      <4>1. /\ stored' \in Seq(DOMAIN narrations) /\ DOMAIN stored \subseteq DOMAIN stored'
            /\ \A i \in DOMAIN stored : stored'[i] = stored[i]
        BY <3>1, <3>3
      <4> QED BY <4>1 DEF InTrace
    <3> QED BY <1>2, <3>2, <3>3
  <2>3. NarrationTypeInv'
    BY <1>1, <1>2, <2>1, <2>2 DEF NarrationTypeInv, ListenerState, Numbers
  <2>4. ToldInv'
    <3>1. ASSUME NEW m \in DOMAIN narrations
          PROVE  /\ narrations'[m].pc = "tell" => InTrace(m)'
                 /\ narrations'[m].complete /\ ~narrations'[m].error => InTrace(m)'
      BY <1>1, <1>2, <2>1, <2>2 DEF ToldInv
    <3> QED BY <1>1, <2>1, <3>1 DEF ToldInv
  <2>5. ToldIsStored'
    BY <1>1, <1>2, <2>1, <2>2, ToldStays DEF NarrationInv
  <2> QED BY <2>3, <2>4, <2>5 DEF NarrationInv
<1>3. (old.pc = "tell" => InTrace(n)) /\ (old.complete /\ ~old.error => InTrace(n))
  BY <1>1 DEF ToldInv
<1>4. CASE Token(n)
  <2> DEFINE s == [old EXCEPT !.tokens = @ + 1]
  <2>1. /\ s \in NarrationState /\ s.pc = "stream"
        /\ s.complete = old.complete /\ s.error = old.error
    BY <1>1, <1>4 DEF NarrationState, Token, Threaded
  <2>2. Produces(n, s) /\ registered' = registered /\ stored' = stored
    BY <1>4 DEF Token
  <2> QED BY <1>2, <1>3, <2>1, <2>2 DEF InTrace
<1>5. CASE ProviderError(n)
  <2> DEFINE s == [old EXCEPT !.pc = "leave", !.error = TRUE, !.complete = TRUE]
  <2>1. s \in NarrationState /\ s.pc = "leave" /\ s.error
    BY <1>1 DEF NarrationState
  <2>2. Produces(n, s) /\ registered' = registered /\ stored' = stored
    BY <1>5 DEF ProviderError
  <2> QED BY <1>2, <2>1, <2>2
<1>6. CASE EndOfTokens(n)
  <2> DEFINE s == [old EXCEPT !.pc = "store"]
  <2>1. /\ s \in NarrationState /\ s.pc = "store"
        /\ s.complete = old.complete /\ s.error = old.error
    BY <1>1 DEF NarrationState
  <2>2. Produces(n, s) /\ registered' = registered /\ stored' = stored
    BY <1>6 DEF EndOfTokens
  <2> QED BY <1>2, <1>3, <2>1, <2>2 DEF InTrace
<1>7. CASE Store(n)
  <2> DEFINE s == [old EXCEPT !.pc = "tell"]
  <2>1. s \in NarrationState /\ s.error = old.error
    BY <1>1 DEF NarrationState
  <2>2. Produces(n, s) /\ registered' = registered /\ stored' = Append(stored, n)
    BY <1>7 DEF Store
  <2>3. InTrace(n)'
    <3>1. /\ stored \in Seq(DOMAIN narrations)
          /\ Len(stored) + 1 \in DOMAIN stored' /\ stored'[Len(stored) + 1] = n
      BY <1>1, <2>2 DEF NarrationTypeInv
    <3> QED BY <3>1 DEF InTrace
  <2> QED BY <1>2, <2>1, <2>2, <2>3
<1>8. CASE MarkComplete(n)
  <2> DEFINE s == [old EXCEPT !.pc = "leave", !.complete = TRUE]
  <2>1. s \in NarrationState /\ s.pc = "leave" /\ s.error = old.error /\ old.pc = "tell"
    BY <1>1, <1>8 DEF NarrationState, MarkComplete, Threaded
  <2>2. Produces(n, s) /\ registered' = registered /\ stored' = stored
    BY <1>8 DEF MarkComplete
  <2> QED BY <1>2, <1>3, <2>1, <2>2 DEF InTrace
<1>9. CASE Leave(n) \/ ThreadDies(n)
  <2> DEFINE s == [old EXCEPT !.pc = "gone"]
  <2>1. /\ s \in NarrationState /\ s.pc = "gone"
        /\ s.complete = old.complete /\ s.error = old.error
    BY <1>1 DEF NarrationState
  <2>2. Produces(n, s) /\ registered' \in {registered, 0} /\ stored' = stored
    BY <1>9 DEF Leave, ThreadDies
  <2> QED BY <1>2, <1>3, <2>1, <2>2 DEF InTrace
<1> QED BY <1>4, <1>5, <1>6, <1>7, <1>8, <1>9 DEF Thread

\* A step of a client: it follows a narration and is told of its end.
LEMMA ListenerInv ==
  ASSUME NarrationInv, NEW f \in Listener, Stream(f)
  PROVE  NarrationInv'
<1> DEFINE j == listener[f]
<1>1. /\ NarrationTypeInv /\ ToldInv /\ ToldIsStored /\ j \in ListenerState
      /\ narrations' = narrations /\ stored' = stored /\ registered' = registered
  BY DEF NarrationInv, NarrationTypeInv, Stream, Listen, Follow, HangUp
<1>2. ASSUME NEW s \in ListenerState, Hears(f, s), s.open => s.n # 0,
             s.told # 0 /\ ~narrations[s.told].error => InTrace(s.told)
      PROVE  NarrationInv'
  <2>1. /\ listener' \in [Listener -> ListenerState] /\ listener'[f] = s
        /\ \A g \in Listener \ {f} : listener'[g] = listener[g]
    BY <1>1, <1>2, HearsSets
  <2>2. NarrationTypeInv'
    BY <1>1, <2>1 DEF NarrationTypeInv, ListenerState, Numbers
  <2>3. ToldInv'
    BY <1>1, <1>2, <2>1 DEF ToldInv, InTrace
  <2>4. ToldIsStored'
    BY <1>1, <1>2, <2>1 DEF ToldIsStored, InTrace
  <2> QED BY <2>2, <2>3, <2>4 DEF NarrationInv
<1>3. j.told # 0 /\ ~narrations[j.told].error => InTrace(j.told)
  BY <1>1 DEF ToldIsStored, InTrace
<1>4. CASE Listen(f)
  <2>1. PICK index \in {0, j.index} :
          Hears(f, IF registered # 0
                     THEN [open |-> TRUE, n |-> registered, index |-> index, told |-> 0]
                     ELSE LastNarration)
    BY <1>4 DEF Listen
  <2>2. CASE registered # 0
    <3> DEFINE s == [open |-> TRUE, n |-> registered, index |-> index, told |-> 0]
    <3>1. s \in ListenerState /\ s.told = 0 /\ s.n # 0
      BY <1>1, <2>2 DEF ListenerState, NarrationTypeInv, Numbers
    <3> QED BY <1>2, <2>1, <2>2, <3>1
  <2>3. CASE registered = 0 /\ stored = <<>>
    <3>1. Silence \in ListenerState /\ Silence.told = 0 /\ ~Silence.open
      BY <1>1 DEF Silence, ListenerState, Numbers, NarrationTypeInv
    <3>2. Hears(f, Silence)
      BY <2>1, <2>3 DEF LastNarration
    <3> QED BY <1>2, <3>1, <3>2
  <2>4. CASE registered = 0 /\ stored # <<>>
    <3> DEFINE last == stored[Len(stored)]
               s == [Silence EXCEPT !.n = last, !.index = narrations[last].tokens, !.told = last]
    <3>1. Len(stored) \in DOMAIN stored /\ last \in DOMAIN narrations
      <4>1. stored \in Seq(DOMAIN narrations)
        BY <1>1 DEF NarrationTypeInv
      <4>2. Len(stored) \in DOMAIN stored
        BY <2>4, <4>1
      <4> QED BY <1>1, <4>2, NumbersNarrations
    <3>2. InTrace(last)
      BY <3>1 DEF InTrace
    <3>3. last \in Numbers /\ last # 0 /\ narrations[last].tokens \in Nat
      BY <1>1, <3>1, NumbersNarrations DEF NarrationState
    <3>4. s \in ListenerState /\ ~s.open /\ s.told = last
      BY <3>3 DEF Silence, ListenerState, Numbers
    <3>5. Hears(f, s)
      BY <2>1, <2>4 DEF LastNarration
    <3> HIDE DEF s, last
    <3> QED BY <1>2, <3>2, <3>4, <3>5
  <2> QED BY <2>2, <2>3, <2>4
<1>5. CASE Follow(f)
  <2> DEFINE state == narrations[j.n]
             heard == [j EXCEPT !.index = IF state.tokens > @ THEN state.tokens ELSE @]
  <2>1. j.open /\ j.n # 0 /\ j.n \in DOMAIN narrations /\ state \in NarrationState
    <3>1. j.open /\ j.n # 0 /\ j.n \in Numbers
      BY <1>1, <1>5 DEF Follow, ToldInv, ListenerState
    <3> QED BY <1>1, <3>1, NumbersNarrations
  <2>2. /\ heard \in ListenerState /\ heard.open = j.open /\ heard.n = j.n /\ heard.told = j.told
    BY <1>1, <2>1 DEF ListenerState, NarrationState
  <2> HIDE DEF heard
  <2>3. CASE Hears(f, [heard EXCEPT !.open = FALSE])
    <3> DEFINE s == [heard EXCEPT !.open = FALSE]
    <3>1. s \in ListenerState /\ ~s.open /\ s.told = j.told
      BY <2>2 DEF ListenerState
    <3> QED BY <1>2, <1>3, <2>3, <3>1
  <2>4. CASE /\ state.complete
             /\ Hears(f, [heard EXCEPT !.open = FALSE,
                            !.told = IF flavour = "evidence" /\ state.error THEN 0 ELSE j.n])
    <3> DEFINE t == IF flavour = "evidence" /\ state.error THEN 0 ELSE j.n
               s == [heard EXCEPT !.open = FALSE, !.told = t]
    <3>1. t \in Numbers
      BY <2>1, <2>2 DEF ListenerState, Numbers
    <3>2. s \in ListenerState /\ ~s.open /\ s.told = t
      BY <2>2, <3>1 DEF ListenerState
    <3>3. t # 0 /\ ~narrations[t].error => InTrace(t)
      BY <1>1, <2>1, <2>4 DEF ToldInv
    <3>4. Hears(f, s)
      BY <2>4
    <3> HIDE DEF s, t
    <3> QED BY <1>2, <3>2, <3>3, <3>4
  <2>5. CASE Hears(f, heard)
    BY <1>2, <1>3, <2>1, <2>2, <2>5
  <2>6. \/ Hears(f, [heard EXCEPT !.open = FALSE])
        \/ /\ state.complete
           /\ Hears(f, [heard EXCEPT !.open = FALSE,
                          !.told = IF flavour = "evidence" /\ state.error THEN 0 ELSE j.n])
        \/ Hears(f, heard)
    BY <1>5 DEF Follow, heard
  <2> QED BY <2>3, <2>4, <2>5, <2>6
<1>6. CASE HangUp(f)
  <2> DEFINE s == [j EXCEPT !.open = FALSE]
  <2>1. s \in ListenerState /\ ~s.open /\ s.told = j.told
    BY <1>1 DEF ListenerState
  <2>2. Hears(f, s)
    BY <1>6 DEF HangUp
  <2> QED BY <1>2, <1>3, <2>1, <2>2
<1> QED BY <1>4, <1>5, <1>6 DEF Stream

\* A narration that is registered is new, and nobody has been told it.
LEMMA RegisterInv ==
  ASSUME NarrationInv, NEW c \in Starter, Register(c)
  PROVE  NarrationInv'
<1>1. NarrationTypeInv /\ ToldInv /\ ToldIsStored /\ UNCHANGED <<stored, listener>>
  BY DEF NarrationInv, Register
<1>2. NewNarration \in NarrationState /\ NewNarration.pc = "stream" /\ ~NewNarration.complete
  BY DEF NewNarration, NarrationState
<1>3. /\ narrations' = Append(narrations, NewNarration) /\ registered' = Len(narrations) + 1
      /\ narrations \in Seq(NarrationState)
  BY <1>1 DEF Register, NarrationTypeInv
<1> HIDE DEF NewNarration
<1>4. /\ narrations' \in Seq(NarrationState) /\ Len(narrations') = Len(narrations) + 1
      /\ DOMAIN narrations' = DOMAIN narrations \cup {Len(narrations) + 1}
      /\ narrations'[Len(narrations) + 1] = NewNarration
      /\ \A n \in DOMAIN narrations : narrations'[n] = narrations[n]
  BY <1>2, <1>3
<1>5. NarrationTypeInv'
  <2>1. Len(narrations) \in Nat /\ DOMAIN narrations \subseteq DOMAIN narrations' /\ Numbers \subseteq Numbers'
    BY <1>3, <1>4 DEF Numbers
  <2>2. registered' \in Numbers'
    BY <1>3, <1>4, <2>1 DEF Numbers
  <2>3. stored' \in Seq(DOMAIN narrations')
    BY <1>1, <2>1 DEF NarrationTypeInv
  <2>4. listener' \in [Listener -> ListenerState']
    BY <1>1, <2>1 DEF NarrationTypeInv, ListenerState
  <2> QED BY <1>4, <2>2, <2>3, <2>4 DEF NarrationTypeInv
<1>6. ToldInv'
  BY <1>1, <1>2, <1>4 DEF ToldInv, InTrace
<1>7. ToldIsStored'
  BY <1>1, <1>4, ToldStays DEF NarrationInv, InTrace
<1> QED BY <1>5, <1>6, <1>7 DEF NarrationInv

\* A request to stop and the end of the process touch no narration that is stored.
LEMMA StopInv ==
  ASSUME NarrationInv, StopNarration \/ ProcessDies
  PROVE  NarrationInv'
<1>1. NarrationTypeInv /\ ToldInv /\ ToldIsStored /\ stored' = stored /\ registered # 0
  BY DEF NarrationInv, StopNarration, ProcessDies
<1>2. CASE StopNarration
  <2> DEFINE n == registered
             s == [narrations[n] EXCEPT !.stop = TRUE]
  <2>1. n \in DOMAIN narrations /\ narrations[n] \in NarrationState
    BY <1>1 DEF NarrationTypeInv, Numbers
  <2>2. /\ s \in NarrationState /\ s.pc = narrations[n].pc
        /\ s.complete = narrations[n].complete /\ s.error = narrations[n].error
    BY <2>1 DEF NarrationState
  <2>3. Produces(n, s) /\ UNCHANGED <<registered, listener>>
    BY <1>2 DEF StopNarration
  <2> HIDE DEF s
  <2>4. /\ narrations' \in Seq(NarrationState) /\ Len(narrations') = Len(narrations)
        /\ DOMAIN narrations' = DOMAIN narrations /\ narrations'[n] = s
        /\ \A m \in DOMAIN narrations \ {n} : narrations'[m] = narrations[m]
    BY <1>1, <2>1, <2>2, <2>3, ProducesSets
  <2>5. NarrationTypeInv'
    BY <1>1, <2>3, <2>4 DEF NarrationTypeInv, ListenerState, Numbers
  <2>6. ToldInv'
    BY <1>1, <2>1, <2>2, <2>3, <2>4 DEF ToldInv, InTrace
  <2>7. ToldIsStored'
    BY <1>1, <2>1, <2>2, <2>3, <2>4, ToldStays DEF InTrace
  <2> QED BY <2>5, <2>6, <2>7 DEF NarrationInv
<1>3. CASE ProcessDies
  <2>1. /\ registered' = 0
        /\ narrations' = [n \in DOMAIN narrations |-> [narrations[n] EXCEPT !.pc = "gone"]]
        /\ listener' = [f \in Listener |-> [listener[f] EXCEPT !.open = FALSE]]
    BY <1>3 DEF ProcessDies
  <2>2. ASSUME NEW n \in DOMAIN narrations
        PROVE  LET s == [narrations[n] EXCEPT !.pc = "gone"]
               IN  /\ s \in NarrationState /\ s.pc = "gone"
                   /\ s.complete = narrations[n].complete /\ s.error = narrations[n].error
    <3>1. narrations[n] \in NarrationState
      BY <1>1, NumbersNarrations
    <3> QED BY <3>1 DEF NarrationState
  <2>3. ASSUME NEW f \in Listener
        PROVE  LET s == [listener[f] EXCEPT !.open = FALSE]
               IN  s \in ListenerState /\ ~s.open /\ s.told = listener[f].told
    BY <1>1 DEF NarrationTypeInv, ListenerState
  <2>4. /\ narrations' \in Seq(NarrationState) /\ Len(narrations') = Len(narrations)
        /\ DOMAIN narrations' = DOMAIN narrations
        /\ \A n \in DOMAIN narrations : /\ narrations'[n].pc = "gone"
                                        /\ narrations'[n].complete = narrations[n].complete
                                        /\ narrations'[n].error = narrations[n].error
    <3>1. Len(narrations) \in Nat /\ DOMAIN narrations = 1..Len(narrations)
      BY <1>1, NumbersNarrations
    <3>2. narrations' \in [1..Len(narrations) -> NarrationState]
      BY <2>1, <2>2, <3>1
    <3>3. narrations' \in Seq(NarrationState) /\ Len(narrations') = Len(narrations)
      BY <3>1, <3>2
    <3> QED BY <2>1, <2>2, <3>3
  <2>5. /\ listener' \in [Listener -> ListenerState]
        /\ \A f \in Listener : ~listener'[f].open /\ listener'[f].told = listener[f].told
    BY <2>1, <2>3
  <2>6. NarrationTypeInv'
    BY <1>1, <2>1, <2>4, <2>5 DEF NarrationTypeInv, ListenerState, Numbers
  <2>7. ToldInv'
    BY <1>1, <2>4, <2>5 DEF ToldInv, InTrace
  <2>8. ToldIsStored'
    <3> SUFFICES ASSUME NEW f \in Listener, listener[f].told # 0,
                        ~narrations'[listener[f].told].error
                 PROVE  InTrace(listener[f].told)'
      BY <2>5 DEF ToldIsStored, InTrace
    <3>1. listener[f].told \in DOMAIN narrations
      <4>1. listener[f].told \in Numbers
        BY <1>1 DEF NarrationTypeInv, ListenerState
      <4> QED BY <1>1, <4>1, NumbersNarrations
    <3>2. InTrace(listener[f].told)
      BY <1>1, <2>4, <3>1 DEF ToldIsStored, InTrace
    <3> QED BY <1>1, <2>5, <3>2 DEF InTrace
  <2> QED BY <2>6, <2>7, <2>8 DEF NarrationInv
<1> QED BY <1>2, <1>3

\* Every step keeps the invariant.
LEMMA NarrationNextInv == NarrationInv /\ [NarrationNext]_narrationVars => NarrationInv'
<1> SUFFICES ASSUME NarrationInv, [NarrationNext]_narrationVars PROVE NarrationInv'
  OBVIOUS
<1>1. CASE \/ UNCHANGED narrationVars
           \/ \E c \in Starter : AskNarration(c) \/ Reserve(c) \/ CommitReservation(c)
  BY <1>1 DEF narrationVars, AskNarration, Reserve, CommitReservation, NarrationInv,
     NarrationTypeInv, ToldInv, ToldIsStored, InTrace, ListenerState, Numbers
<1>2. CASE \E c \in Starter : Register(c)
  BY <1>2, RegisterInv
<1>3. CASE \E n \in DOMAIN narrations : Thread(n)
  BY <1>3, ThreadInv
<1>4. CASE StopNarration \/ ProcessDies
  BY <1>4, StopInv
<1>5. CASE \E f \in Listener : Stream(f)
  BY <1>5, ListenerInv
<1> QED BY <1>1, <1>2, <1>3, <1>4, <1>5 DEF NarrationNext, NarrationRequest

\* Whoever replaces, stops or removes a narration, and however often the process dies: a
\* client that was told that a narration is complete was told what the trace has, for any
\* number of requests, clients, narrations and tokens.
THEOREM NarrationsToldAreStored == NarrationSpec => []ToldIsStored
<1>1. NarrationInit => NarrationInv
  BY NarrationInitInv
<1>2. NarrationInv /\ [NarrationNext]_narrationVars => NarrationInv'
  BY NarrationNextInv
<1>3. NarrationInv => ToldIsStored
  BY DEF NarrationInv
<1> QED BY <1>1, <1>2, <1>3, PTL DEF NarrationSpec
=============================================================================
