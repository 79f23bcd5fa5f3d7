-------------------------------- MODULE Raft --------------------------------
(***************************************************************************)
(* Raft/src: the single-threaded simulator (lib.rs), its servers           *)
(* (server.rs, state.rs) and the dispatcher of their messages              *)
(* (dispatch.rs).  One action is one event of Simulator::run.              *)
(*                                                                         *)
(* An index of type Option<usize> is a number here, None being 0 and       *)
(* Some(i) being i + 1, so that Some(i) is the position of its entry in a  *)
(* sequence.  votes_responded and match_indices are left out: no code      *)
(* reads them.  kv and last_applied are the sequence of entries applied.   *)
(***************************************************************************)
EXTENDS Integers, Sequences, FiniteSets, FiniteSetsExt, Functions

CONSTANTS NServers,             \* number of servers, 5 in simulate.rs
          Command,              \* what a client can ask for: a key and a value
          HeartbeatInterval, ElectionTimeout,
          Delta,                \* the lengths of a Tick
          OverflowChecks,       \* TRUE in a debug build, FALSE in a release build
          UsizeMax,
          None,
          \* Bounds of the model:
          MaxTime, MaxLog, MaxCrashes, MaxDuplicates

ASSUME NServersAssumption == NServers \in Nat \ {0}
ASSUME TimeAssumption == /\ HeartbeatInterval \in Nat
                         /\ ElectionTimeout \in Nat
                         /\ Delta \subseteq Nat
ASSUME BuildAssumption == OverflowChecks \in BOOLEAN /\ UsizeMax \in Nat
ASSUME NoneAssumption == None \notin Nat
ASSUME BoundsAssumption == MaxTime \in Nat /\ MaxLog \in Nat
                           /\ MaxCrashes \in Nat /\ MaxDuplicates \in Nat

Server == 0 .. NServers - 1

VARIABLES currentTerm, votedFor, log, commitIndex,
          applied,              \* the entries given to kv, in order
          state,                \* Follower, Candidate(granted) or Leader(next)
          lastBroadcast, lastElection,
          now,                  \* ts of Simulator::run
          queue, count,         \* Dispatcher: per sender, and the total
          panicked,             \* the process has ended with a panic
          crashes, duplicates   \* how often a server crashed, a message was repeated

timers == <<lastBroadcast, lastElection, now>>
servers == <<currentTerm, votedFor, log, commitIndex, applied, state>>
vars == <<servers, timers, queue, count, panicked, crashes, duplicates>>

Follower == [role |-> "Follower"]
Candidate(granted) == [role |-> "Candidate", granted |-> granted]
Leader(next) == [role |-> "Leader", next |-> next]

IsLeader(s) == state[s].role = "Leader"
IsCandidate(s) == state[s].role = "Candidate"

Init == /\ currentTerm = [s \in Server |-> 0]
        /\ votedFor = [s \in Server |-> None]
        /\ log = [s \in Server |-> <<>>]
        /\ commitIndex = [s \in Server |-> 0]
        /\ applied = [s \in Server |-> <<>>]
        /\ state = [s \in Server |-> Follower]
        /\ lastBroadcast = [s \in Server |-> 0]
        /\ lastElection = [s \in Server |-> 0]
        /\ now = 0
        /\ queue = [s \in Server |-> <<>>]
        /\ count = 0
        /\ panicked = FALSE
        /\ crashes = [s \in Server |-> 0]
        /\ duplicates = 0

Panic == panicked' = TRUE /\ UNCHANGED <<servers, timers, queue, count, crashes>>

Quorum == NServers \div 2 + 1

LastTerm(l) == IF l = <<>> THEN 0 ELSE l[Len(l)].term

(***************************************************************************)
(* Messages                                                                *)
(***************************************************************************)

\* The other servers, in the order of their ids.
Others(s) == [k \in 1 .. NServers - 1 |-> IF k - 1 < s THEN k - 1 ELSE k]

VoteRequests(s, term) ==
    [k \in 1 .. NServers - 1 |->
        [mtype |-> "RequestVoteRequest", sender |-> s, receiver |-> Others(s)[k],
         term |-> term, lastLogIndex |-> Len(log[s]), lastLogTerm |-> LastTerm(log[s])]]

\* send_append_entries(): an entry and those behind it, after the one before.
AppendEntries(s, next) ==
    [k \in 1 .. NServers - 1 |->
        LET n == next[Others(s)[k]] IN
        [mtype |-> "AppendEntriesRequest", sender |-> s, receiver |-> Others(s)[k],
         term |-> currentTerm[s], prevLogIndex |-> n,
         prevLogTerm |-> IF n = 0 THEN 0 ELSE log[s][n].term,
         entries |-> SubSeq(log[s], n + 1, Len(log[s])),
         leaderCommit |-> commitIndex[s]]]

\* logs[prev_log_index] and logs[next_index..] are out of bounds.
AppendEntriesPanics(s) == \E i \in Server \ {s} : state[s].next[i] > Len(log[s])

AppendResponse(s, m, term, success, matchIndex) ==
    [mtype |-> "AppendEntriesResponse", sender |-> s, receiver |-> m.sender,
     term |-> term, success |-> success, matchIndex |-> matchIndex]

VoteResponse(s, m, term, granted) ==
    [mtype |-> "RequestVoteResponse", sender |-> s, receiver |-> m.sender,
     term |-> term, voteGranted |-> granted]

-----------------------------------------------------------------------------
(***************************************************************************)
(* Event::Tick: tick() of every server, in one event and with one time     *)
(***************************************************************************)

Heartbeats(s, ts) == IsLeader(s) /\ ts - lastBroadcast[s] > HeartbeatInterval
TimesOut(s, ts) == ~IsLeader(s) /\ ts - lastElection[s] > ElectionTimeout

Tick(delta) ==
    LET ts == now + delta
        beats == {s \in Server : Heartbeats(s, ts)}
        elects == {s \in Server : TimesOut(s, ts)}
        sent == [s \in Server |-> IF s \in beats THEN AppendEntries(s, state[s].next)
                                  ELSE IF s \in elects THEN VoteRequests(s, currentTerm[s] + 1)
                                  ELSE <<>>]
    IN
    /\ ts <= MaxTime
    /\ IF \E s \in beats : AppendEntriesPanics(s) THEN Panic ELSE
       /\ now' = ts
       /\ lastBroadcast' = [s \in Server |-> IF s \in beats THEN ts ELSE lastBroadcast[s]]
       /\ lastElection' = [s \in Server |-> IF s \in elects THEN ts ELSE lastElection[s]]
       /\ currentTerm' = [s \in Server |-> currentTerm[s] + (IF s \in elects THEN 1 ELSE 0)]
       /\ votedFor' = [s \in Server |-> IF s \in elects THEN s ELSE votedFor[s]]
       /\ state' = [s \in Server |-> IF s \in elects THEN Candidate({s}) ELSE state[s]]
       /\ queue' = [s \in Server |-> queue[s] \o sent[s]]
       /\ count' = count + (NServers - 1) * Cardinality(beats \cup elects)
       /\ UNCHANGED <<log, commitIndex, applied, panicked, crashes>>
    /\ UNCHANGED duplicates

(***************************************************************************)
(* handle_message(m) by its receiver s.  q and c are the queues and the    *)
(* count as the event leaves them for the handler.                         *)
(***************************************************************************)

\* apply_state(), which runs before the message is looked at.
ApplyPanics(s) == commitIndex[s] > Len(applied[s]) /\ commitIndex[s] > Len(log[s])

ApplyState(s) ==
    applied' = [applied EXCEPT ![s] = @ \o SubSeq(log[s], Len(@) + 1, commitIndex[s])]

\* Mutant: the receiver takes over the term of any message.
Term_Any(s, m) == m.term

\* Mutant: the receiver keeps its term.
Term_Kept(s, m) == currentTerm[s]

\* A message of a later term makes the receiver a follower of that term.
Term(s, m) == IF m.term > currentTerm[s] THEN m.term ELSE currentTerm[s]
State(s, m) == IF m.term > currentTerm[s] THEN Follower ELSE state[s]

Become(s, st) == state' = [state EXCEPT ![s] = st]

\* Mutant: count is not increased.
Push_Uncounted(s, msgs, q, c) == /\ queue' = [q EXCEPT ![s] = @ \o msgs]
                                 /\ count' = c

Push(s, msgs, q, c) == /\ queue' = [q EXCEPT ![s] = @ \o msgs]
                       /\ count' = c + Len(msgs)

\* on_append_entries_request(): a stale term, an entry before that is missing
\* or of another term, and success.
OnAppendEntriesRequest(s, m, q, c) ==
    LET prev == m.prevLogIndex
        stale == m.term < Term(s, m)
        missing == prev > Len(log[s])
        mismatch == /\ 0 < prev
                    /\ prev <= Len(log[s])
                    /\ log[s][prev].term # m.prevLogTerm
        extended == log[s] \o m.entries
        Reply(success, matchIndex) ==
            Push(s, <<AppendResponse(s, m, Term(s, m), success, matchIndex)>>, q, c)
    IN
    /\ m.mtype = "AppendEntriesRequest"
    /\ IF State(s, m).role = "Candidate" /\ ~stale THEN Become(s, Follower)
                                                   ELSE Become(s, State(s, m))
    /\ \/ /\ stale \/ missing
          /\ Reply(FALSE, 0)
          /\ UNCHANGED <<log, commitIndex>>
       \/ /\ ~stale /\ mismatch
          /\ log' = [log EXCEPT ![s] = SubSeq(@, 1, prev - 1)]
          /\ Reply(FALSE, 0)
          /\ UNCHANGED commitIndex
       \/ /\ ~(stale \/ missing \/ mismatch)
          /\ log' = [log EXCEPT ![s] = extended]
          /\ commitIndex' = [commitIndex EXCEPT ![s] =
                IF m.leaderCommit > @ THEN Min({m.leaderCommit, Len(extended)}) ELSE @]
          /\ Reply(TRUE, Len(extended))

\* next_indices.sort(), and get(k).
Kth(next, k) == CHOOSE v \in Range(next) :
    /\ Cardinality({i \in Server : next[i] < v}) <= k
    /\ k < Cardinality({i \in Server : next[i] <= v})

\* advance_commit_index(): logs.len() - quoram() wraps to an index that get()
\* does not find.
NewCommitIndex(s, next) ==
    LET k == Len(log[s]) - Quorum IN
    IF k \in 0 .. NServers - 1 THEN Max({commitIndex[s], Kth(next, k) + 1})
                               ELSE commitIndex[s]

\* The subtractions of next_indices[server_id] - 1 and of advance_commit_index().
ResponsePanics(s, m) ==
    /\ OverflowChecks
    /\ m.mtype = "AppendEntriesResponse"
    /\ State(s, m).role = "Leader"
    /\ \/ ~m.success /\ state[s].next[m.sender] = 0
       \/ Len(log[s]) < Quorum

\* Mutant: next_indices stops at no number.
Decremented_Signed(n) == n - 1

\* next_indices[server_id] -= 1, where it does not panic.
Decremented(n) == IF n = 0 THEN UsizeMax ELSE n - 1

OnAppendEntriesResponse(s, m, q, c) ==
    LET next == [state[s].next EXCEPT ![m.sender] =
                    IF m.success THEN m.matchIndex ELSE Decremented(@)]
    IN
    /\ m.mtype = "AppendEntriesResponse"
    /\ State(s, m).role = "Leader"
    /\ Become(s, Leader(next))
    /\ commitIndex' = [commitIndex EXCEPT ![s] = NewCommitIndex(s, next)]
    /\ Push(s, <<>>, q, c)
    /\ UNCHANGED log

\* Mutant: votedFor is not looked at.
Grants_Free(s, m) ==
    /\ Term(s, m) <= m.term
    /\ \/ m.lastLogTerm > LastTerm(log[s])
       \/ m.lastLogTerm = LastTerm(log[s]) /\ m.lastLogIndex >= Len(log[s])

Grants(s, m) ==
    /\ Term(s, m) <= m.term
    /\ \/ m.lastLogTerm > LastTerm(log[s])
       \/ m.lastLogTerm = LastTerm(log[s]) /\ m.lastLogIndex >= Len(log[s])
    /\ votedFor[s] \in {None, m.sender}

OnRequestVoteRequest(s, m, q, c) ==
    /\ m.mtype = "RequestVoteRequest"
    /\ Become(s, State(s, m))
    /\ Push(s, <<VoteResponse(s, m, Term(s, m), Grants(s, m))>>, q, c)
    /\ UNCHANGED <<log, commitIndex>>

\* on_request_vote_response(): the new leader sends its first AppendEntries.
OnRequestVoteResponse(s, m, q, c) ==
    LET granted == state[s].granted \cup (IF m.voteGranted THEN {m.sender} ELSE {})
        next == [i \in Server |-> Len(log[s])]
    IN
    /\ m.mtype = "RequestVoteResponse"
    /\ State(s, m).role = "Candidate"
    /\ \/ /\ m.voteGranted /\ Cardinality(granted) >= Quorum
          /\ Become(s, Leader(next))
          /\ Push(s, AppendEntries(s, next), q, c)
       \/ /\ ~(m.voteGranted /\ Cardinality(granted) >= Quorum)
          /\ Become(s, Candidate(granted))
          /\ Push(s, <<>>, q, c)
    /\ UNCHANGED <<log, commitIndex>>

\* A response that no longer finds the leader or candidate it answers.
OnLateResponse(s, m, q, c) ==
    /\ \/ m.mtype = "AppendEntriesResponse" /\ State(s, m).role # "Leader"
       \/ m.mtype = "RequestVoteResponse" /\ State(s, m).role # "Candidate"
    /\ Become(s, State(s, m))
    /\ Push(s, <<>>, q, c)
    /\ UNCHANGED <<log, commitIndex>>

HandleMessage(m, q, c) ==
    LET s == m.receiver IN
    IF ApplyPanics(s) \/ ResponsePanics(s, m) THEN Panic ELSE
    /\ ApplyState(s)
    /\ currentTerm' = [currentTerm EXCEPT ![s] = Term(s, m)]
    /\ \/ OnAppendEntriesRequest(s, m, q, c)
       \/ OnAppendEntriesResponse(s, m, q, c)
       \/ OnRequestVoteRequest(s, m, q, c)
       \/ OnRequestVoteResponse(s, m, q, c)
       \/ OnLateResponse(s, m, q, c)
    /\ UNCHANGED <<votedFor, timers, panicked, crashes>>

(***************************************************************************)
(* The other events.  Dispatcher::pop and peek take the front of the queue *)
(* of a random sender, which is never empty; pop counts it off.            *)
(***************************************************************************)

FetchMessage(i) ==
    /\ queue[i] # <<>>
    /\ HandleMessage(Head(queue[i]), [queue EXCEPT ![i] = Tail(@)], count - 1)
    /\ UNCHANGED duplicates

DuplicateMessage(i) ==
    /\ duplicates < MaxDuplicates
    /\ queue[i] # <<>>
    /\ HandleMessage(Head(queue[i]), queue, count)
    /\ duplicates' = duplicates + 1

DropMessage(i) ==
    /\ queue[i] # <<>>
    /\ queue' = [queue EXCEPT ![i] = Tail(@)]
    /\ count' = count - 1
    /\ UNCHANGED <<servers, timers, panicked, crashes, duplicates>>

\* The first server that is a leader, in the order of the ids, gets the command.
ClientCommand(cmd) == \E s \in Server :
    /\ IsLeader(s)
    /\ \A t \in 0 .. s - 1 : ~IsLeader(t)
    /\ Len(log[s]) < MaxLog
    /\ log' = [log EXCEPT ![s] = Append(@, [term |-> currentTerm[s], cmd |-> cmd])]
    /\ UNCHANGED <<currentTerm, votedFor, commitIndex, applied, state, timers,
                   queue, count, panicked, crashes, duplicates>>

TotalCrashes == MapThenSumSet(LAMBDA s : crashes[s], Server)

\* restart(): a new server with the old id and dispatcher.
ServerCrash(s) ==
    /\ TotalCrashes < MaxCrashes
    /\ currentTerm' = [currentTerm EXCEPT ![s] = 0]
    /\ votedFor' = [votedFor EXCEPT ![s] = None]
    /\ log' = [log EXCEPT ![s] = <<>>]
    /\ commitIndex' = [commitIndex EXCEPT ![s] = 0]
    /\ applied' = [applied EXCEPT ![s] = <<>>]
    /\ Become(s, Follower)
    /\ lastBroadcast' = [lastBroadcast EXCEPT ![s] = 0]
    /\ lastElection' = [lastElection EXCEPT ![s] = 0]
    /\ crashes' = [crashes EXCEPT ![s] = @ + 1]
    /\ UNCHANGED <<now, queue, count, panicked, duplicates>>

Next == /\ ~panicked
        /\ \/ \E delta \in Delta : Tick(delta)
           \/ \E i \in Server : FetchMessage(i) \/ DuplicateMessage(i) \/ DropMessage(i)
           \/ \E cmd \in Command : ClientCommand(cmd)
           \/ \E s \in Server : ServerCrash(s)

Spec == Init /\ [][Next]_vars

(***************************************************************************)
(* Properties                                                              *)
(***************************************************************************)

Entry == [term : Nat, cmd : Command]

Message ==
    [mtype : {"AppendEntriesRequest"}, sender : Server, receiver : Server, term : Nat,
        prevLogIndex : Nat, prevLogTerm : Nat, entries : Seq(Entry), leaderCommit : Nat]
    \cup [mtype : {"AppendEntriesResponse"}, sender : Server, receiver : Server, term : Nat,
        success : BOOLEAN, matchIndex : Nat]
    \cup [mtype : {"RequestVoteRequest"}, sender : Server, receiver : Server, term : Nat,
        lastLogIndex : Nat, lastLogTerm : Nat]
    \cup [mtype : {"RequestVoteResponse"}, sender : Server, receiver : Server, term : Nat,
        voteGranted : BOOLEAN]

Role == {Follower} \cup [role : {"Candidate"}, granted : SUBSET Server]
                   \cup [role : {"Leader"}, next : [Server -> Nat]]

TypeOK ==
    /\ currentTerm \in [Server -> Nat]
    /\ votedFor \in [Server -> Server \cup {None}]
    /\ log \in [Server -> Seq(Entry)]
    /\ commitIndex \in [Server -> Nat]
    /\ applied \in [Server -> Seq(Entry)]
    /\ state \in [Server -> Role]
    /\ lastBroadcast \in [Server -> Nat] /\ lastElection \in [Server -> Nat] /\ now \in Nat
    /\ queue \in [Server -> Seq(Message)]
    /\ count \in Int
    /\ panicked \in BOOLEAN
    /\ crashes \in [Server -> Nat] /\ duplicates \in Nat

\* The dispatcher's count is the number of messages in its queues: the
\* unreachable!() of random_queue() is not reached, and no message is stranded.
CountExact == count = MapThenSumSet(LAMBDA s : Len(queue[s]), Server)

\* All servers time out in the same tick, vote for themselves and never take
\* that vote back.  Only a server that has lost its memory has a vote to give:
\* a leader takes a crash of all but one server of a quorum.
LeaderNeedsCrashes == \A s \in Server : IsLeader(s) =>
    Cardinality({t \in Server : crashes[t] > 0}) >= Quorum - 1

\* An entry never claims a later term than the server that holds it, or than
\* the AppendEntries that carries it, though crashes set terms back to 0 while
\* old messages are in flight.
EntryTermsBounded ==
    /\ \A s \in Server : \A k \in DOMAIN log[s] : log[s][k].term \in 1 .. currentTerm[s]
    /\ \A s \in Server : \A j \in DOMAIN queue[s] :
        LET m == queue[s][j] IN
        m.mtype = "AppendEntriesRequest" =>
            /\ m.prevLogTerm <= m.term
            /\ \A k \in DOMAIN m.entries : m.entries[k].term \in 1 .. m.term

\* What a server that never crashed has sent is in the order of its terms, none
\* of them later than its own: its queue is first in, first out, and its
\* responses report the term it took over from the request.
TermsInOrder == \A s \in Server : crashes[s] = 0 =>
    \A j \in DOMAIN queue[s] :
        /\ queue[s][j].term <= currentTerm[s]
        /\ \A k \in 1 .. j : queue[s][k].term <= queue[s][j].term

Granted(s) == \E j \in DOMAIN queue[s] :
    queue[s][j].mtype = "RequestVoteResponse" /\ queue[s][j].voteGranted

\* No leader, no vote to give and none on its way.
Stuck == \A s \in Server : ~IsLeader(s) /\ votedFor[s] = s /\ ~Granted(s)

\* Such a cluster elects no leader again until a server crashes: a timeout starts
\* a new election, and a message of an earlier one may arrive in it, but no vote
\* comes back.
StuckUntilCrash == [][Stuck /\ crashes' = crashes => Stuck']_vars

(***************************************************************************)
(* What comments in the source say, and the code does not do               *)
(***************************************************************************)

\* "Persistent state on all servers (updated on stable storage before responding
\* to RPCs)", of which voted_for is "candidateId that received vote in current
\* term": a server that granted its vote in the term it is in has recorded for
\* whom.
VoteRecorded == \A s \in Server : \A j \in DOMAIN queue[s] :
    LET m == queue[s][j] IN
    m.mtype = "RequestVoteResponse" /\ m.voteGranted /\ m.term = currentTerm[s]
        => votedFor[s] = m.receiver

\* "Applies already commited logs": what is committed is in the log, so that
\* apply_state() finds it there.
CommittedInLog == \A s \in Server : commitIndex[s] <= Len(log[s])

\* "Leader sends previous index and term to detect inconsistency.  See Raft
\* paper 5.3 Log Matching Property": logs with the same term at an index are
\* the same up to that index.
LogMatching == \A s, t \in Server :
    \A k \in DOMAIN log[s] \cap DOMAIN log[t] :
        log[s][k].term = log[t][k].term => SubSeq(log[s], 1, k) = SubSeq(log[t], 1, k)

=============================================================================
