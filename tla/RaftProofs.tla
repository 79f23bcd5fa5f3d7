----------------------------- MODULE RaftProofs -----------------------------
(***************************************************************************)
(* Proofs about Raft for any number of servers, any timeouts and ticks and *)
(* both builds: the types, that a leader takes the crash of all but one    *)
(* server of a quorum, that a cluster with its votes spent stays without a *)
(* leader, and the terms of log entries and messages.                      *)
(***************************************************************************)
EXTENDS Raft, FiniteSetTheorems, SequenceTheorems, TLAPS

\* There are NServers servers.
LEMMA ServerFinite == IsFiniteSet(Server) /\ Cardinality(Server) = NServers
  BY FS_Interval, NServersAssumption DEF Server

\* Others lists servers other than s.
LEMMA OthersType == ASSUME NEW s \in Server, NEW k \in 1 .. NServers - 1
                    PROVE  Others(s)[k] \in Server \ {s}
  BY NServersAssumption DEF Others, Server

\* Min, which CHOOSEs, picks the lesser of two numbers.
LEMMA MinOfTwo == ASSUME NEW a \in Nat, NEW b \in Nat
                  PROVE  Min({a, b}) \in Nat /\ Min({a, b}) <= a /\ Min({a, b}) <= b
<1> DEFINE m == IF a <= b THEN a ELSE b
<1>1. m \in {a, b} /\ \A y \in {a, b} : m <= y
  OBVIOUS
<1> QED
  BY <1>1 DEF Min

\* Max picks the greater of two numbers.
LEMMA MaxOfTwo == ASSUME NEW a \in Nat, NEW b \in Nat
                  PROVE  Max({a, b}) \in Nat /\ Max({a, b}) >= a /\ Max({a, b}) >= b
<1> DEFINE m == IF a >= b THEN a ELSE b
<1>1. m \in {a, b} /\ \A y \in {a, b} : m >= y
  OBVIOUS
<1> QED
  BY <1>1 DEF Max

\* A set of natural numbers that is not empty has a least element.
LEMMA LeastNat == ASSUME NEW T \in SUBSET Nat, T # {}
                  PROVE  \E x \in T : \A y \in T : x <= y
<1> DEFINE R == OpToRel(<, Nat)
<1>1. IsWellFoundedOn(R, Nat)
  BY NatLessThanWellFounded
<1> HIDE DEF R
<1>2. \E x \in T : \A y \in T : ~ (<<y, x>> \in R)
  BY <1>1, WFMin
<1>3. \A x, y \in T : y < x => <<y, x>> \in R
  BY DEF OpToRel, R
<1>4. PICK x \in T : \A y \in T : ~ (<<y, x>> \in R)
  BY <1>2
<1>5. \A y \in T : ~(y < x)
  BY <1>3, <1>4
<1>6. \A y \in T : x <= y
  BY <1>5
<1> QED
  BY <1>6

\* next_indices has an upper bound: the first server without one would have the
\* bound of those before it, or its own index.
LEMMA Bounded == ASSUME NEW next \in [Server -> Nat]
                 PROVE  \E b \in Nat : \A i \in Server : next[i] <= b
<1> DEFINE Below(n) == \E b \in Nat : \A i \in Server : i < n => next[i] <= b
           Bad == {n \in 0 .. NServers : ~Below(n)}
<1>1. SUFFICES Bad = {}
  <2>1. Below(NServers)
    <3>1. NServers \in 0 .. NServers
      BY NServersAssumption
    <3> HIDE DEF Below
    <3> QED
      BY <1>1, <3>1
  <2>2. \A i \in Server : i < NServers
    BY NServersAssumption DEF Server
  <2> QED
    BY ONLY <2>1, <2>2
<1>2. SUFFICES ASSUME Bad # {} PROVE FALSE
  OBVIOUS
<1>3. Bad \in SUBSET Nat
  BY NServersAssumption
<1> HIDE DEF Bad
<1>4. PICK n \in Bad : \A y \in Bad : n <= y
  BY <1>2, <1>3, LeastNat
<1> USE DEF Bad
<1>5. n # 0
  BY NServersAssumption DEF Server
<1>6. Below(n - 1)
  BY <1>4, <1>5, NServersAssumption
<1>7. PICK b \in Nat : \A i \in Server : i < n - 1 => next[i] <= b
  BY <1>6
<1>8. n - 1 \in Server
  BY <1>4, <1>5, NServersAssumption DEF Server
<1> DEFINE c == IF next[n - 1] > b THEN next[n - 1] ELSE b
<1>9. c \in Nat /\ c >= b /\ c >= next[n - 1]
  BY <1>8
<1>10. ASSUME NEW i \in Server, i < n PROVE next[i] <= c
  <2>1. i < n - 1 \/ i = n - 1
    BY <1>4, <1>10 DEF Server
  <2>2. next[i] \in Nat
    OBVIOUS
  <2> QED
    BY <1>7, <1>9, <2>1, <2>2
<1>11. Below(n)
  BY <1>9, <1>10
<1> QED
  BY <1>4, <1>11

\* sort() followed by get(k) returns an index of the list for every position
\* k: the least value that more than k servers do not exceed.
LEMMA KthType == ASSUME NEW next \in [Server -> Nat], NEW k \in 0 .. NServers - 1
                 PROVE  Kth(next, k) \in Range(next) /\ Kth(next, k) \in Nat
<1> DEFINE AtMost(v) == {i \in Server : next[i] <= v}
           Less(v) == {i \in Server : next[i] < v}
           T == {v \in Nat : k < Cardinality(AtMost(v))}
<1>1. \A v : /\ IsFiniteSet(AtMost(v)) /\ Cardinality(AtMost(v)) \in Nat
             /\ IsFiniteSet(Less(v)) /\ Cardinality(Less(v)) \in Nat
  BY ServerFinite, FS_Subset, FS_CardinalityType
<1>2. T # {}
  <2>1. PICK b \in Nat : \A i \in Server : next[i] <= b
    BY Bounded
  <2>2. AtMost(b) = Server
    BY <2>1
  <2>3. Cardinality(AtMost(b)) = NServers
    BY <2>2, ServerFinite
  <2> QED
    BY <2>1, <2>3, NServersAssumption
<1>3. PICK v \in T : \A y \in T : v <= y
  BY <1>2, LeastNat
<1>4. Cardinality(Less(v)) <= k
  <2>1. CASE v = 0
    <3>1. Less(v) = {}
      BY <2>1
    <3> QED
      BY <3>1, FS_EmptySet
  <2>2. CASE v # 0
    <3>1. v - 1 \in Nat /\ v - 1 \notin T
      BY <1>3, <2>2
    <3>2. ~(k < Cardinality(AtMost(v - 1)))
      BY <3>1
    <3>3. Less(v) = AtMost(v - 1)
      BY <1>3
    <3>4. Cardinality(AtMost(v - 1)) \in Nat
      BY <1>1
    <3> HIDE DEF AtMost, Less
    <3> QED
      BY <3>2, <3>3, <3>4
  <2> QED
    BY <2>1, <2>2
<1>5. v \in Range(next)
  <2>1. Less(v) # AtMost(v)
    BY <1>1, <1>3, <1>4
  <2>2. PICK i \in Server : next[i] = v
    BY <2>1, <1>3
  <2> QED
    BY <2>2 DEF Range
<1>6. \E w \in Range(next) : /\ Cardinality({i \in Server : next[i] < w}) <= k
                             /\ k < Cardinality({i \in Server : next[i] <= w})
  BY <1>3, <1>4, <1>5
<1>7. Kth(next, k) \in Range(next)
  BY <1>6 DEF Kth
<1> QED
  BY <1>7 DEF Range

-----------------------------------------------------------------------------

\* What a message of each kind carries.
LEMMA MessageFields ==
    ASSUME NEW m \in Message
    PROVE  /\ m.sender \in Server /\ m.receiver \in Server /\ m.term \in Nat
           /\ m.mtype = "AppendEntriesRequest" =>
                /\ m.prevLogIndex \in Nat /\ m.prevLogTerm \in Nat
                /\ m.entries \in Seq(Entry) /\ m.leaderCommit \in Nat
           /\ m.mtype = "AppendEntriesResponse" => m.success \in BOOLEAN /\ m.matchIndex \in Nat
           /\ m.mtype = "RequestVoteResponse" => m.voteGranted \in BOOLEAN
  BY DEF Message

\* What a server in each role keeps.
LEMMA RoleFields ==
    ASSUME NEW st \in Role
    PROVE  /\ st.role = "Leader" => st.next \in [Server -> Nat]
           /\ st.role = "Candidate" => st.granted \in SUBSET Server
           /\ st.role \in {"Follower", "Candidate", "Leader"}
  BY DEF Role, Follower

\* The roles the constructors build.
LEMMA RoleConstructors ==
    /\ Follower \in Role
    /\ \A granted \in SUBSET Server : Candidate(granted) \in Role
    /\ \A next \in [Server -> Nat] : Leader(next) \in Role
  BY DEF Role, Candidate, Leader

\* The term of the last entry is a number, and 0 in an empty log.
LEMMA LastTermType == ASSUME NEW l \in Seq(Entry) PROVE LastTerm(l) \in Nat
<1>1. CASE l = <<>>
  BY <1>1 DEF LastTerm
<1>2. CASE l # <<>>
  <2>1. Len(l) \in 1 .. Len(l)
    BY <1>2
  <2>2. l[Len(l)] \in Entry
    BY <2>1
  <2> QED
    BY <1>2, <2>2 DEF LastTerm, Entry
<1> QED
  BY <1>1, <1>2

\* The messages start_new_election() sends.
LEMMA VoteRequestsType ==
    ASSUME TypeOK, NEW s \in Server, NEW term \in Nat
    PROVE  VoteRequests(s, term) \in Seq(Message)
<1> DEFINE M(k) == [mtype |-> "RequestVoteRequest", sender |-> s, receiver |-> Others(s)[k],
                    term |-> term, lastLogIndex |-> Len(log[s]),
                    lastLogTerm |-> LastTerm(log[s])]
<1>1. LastTerm(log[s]) \in Nat /\ Len(log[s]) \in Nat
  BY LastTermType DEF TypeOK
<1>2. ASSUME NEW k \in 1 .. NServers - 1 PROVE M(k) \in Message
  <2>1. Others(s)[k] \in Server
    BY OthersType
  <2> QED
    BY <1>1, <2>1 DEF Message
<1>3. VoteRequests(s, term) = [k \in 1 .. NServers - 1 |-> M(k)]
  BY DEF VoteRequests
<1> HIDE DEF M
<1> QED
  BY <1>2, <1>3, NServersAssumption

\* The messages send_append_entries() sends when no index is out of bounds.
LEMMA AppendEntriesType ==
    ASSUME TypeOK, NEW s \in Server, NEW next \in [Server -> Nat],
           \A i \in Server \ {s} : next[i] <= Len(log[s])
    PROVE  AppendEntries(s, next) \in Seq(Message)
<1> DEFINE N(k) == next[Others(s)[k]]
           M(k) == [mtype |-> "AppendEntriesRequest", sender |-> s, receiver |-> Others(s)[k],
                    term |-> currentTerm[s], prevLogIndex |-> N(k),
                    prevLogTerm |-> IF N(k) = 0 THEN 0 ELSE log[s][N(k)].term,
                    entries |-> SubSeq(log[s], N(k) + 1, Len(log[s])),
                    leaderCommit |-> commitIndex[s]]
<1>1. ASSUME NEW k \in 1 .. NServers - 1 PROVE M(k) \in Message
  <2>1. Others(s)[k] \in Server \ {s}
    BY OthersType
  <2>2. N(k) \in Nat /\ N(k) <= Len(log[s])
    BY <2>1
  <2>3. log[s] \in Seq(Entry) /\ Len(log[s]) \in Nat
    BY DEF TypeOK
  <2>4. \A j \in 1 .. Len(log[s]) : log[s][j] \in Entry
    BY <2>3
  <2>5. SubSeq(log[s], N(k) + 1, Len(log[s])) \in Seq(Entry)
    <3>1. \A j \in N(k) + 1 .. Len(log[s]) : log[s][j] \in Entry
      BY <2>2, <2>3, <2>4
    <3> HIDE DEF N
    <3> QED
      BY <2>2, <2>3, <3>1, SubSeqProperties
  <2>6. (IF N(k) = 0 THEN 0 ELSE log[s][N(k)].term) \in Nat
    BY <2>2, <2>3, <2>4 DEF Entry
  <2>7. currentTerm[s] \in Nat /\ commitIndex[s] \in Nat
    BY DEF TypeOK
  <2> HIDE DEF N
  <2> QED
    BY <2>1, <2>2, <2>5, <2>6, <2>7 DEF Message
<1>2. AppendEntries(s, next) = [k \in 1 .. NServers - 1 |-> M(k)]
  BY DEF AppendEntries
<1> HIDE DEF M
<1> QED
  BY <1>1, <1>2, NServersAssumption

\* Dispatcher::push keeps the queues queues of messages.
LEMMA PushType ==
    ASSUME NEW s \in Server, NEW msgs \in Seq(Message),
           NEW q \in [Server -> Seq(Message)], NEW c \in Int, Push(s, msgs, q, c)
    PROVE  queue' \in [Server -> Seq(Message)] /\ count' \in Int
<1>1. q[s] \o msgs \in Seq(Message)
  BY ConcatProperties
<1>2. queue' = [q EXCEPT ![s] = q[s] \o msgs] /\ count' = c + Len(msgs)
  BY DEF Push
<1> QED
  BY <1>1, <1>2

-----------------------------------------------------------------------------

\* What a handler changes has its type afterwards.
HandledType == /\ state' \in [Server -> Role]
               /\ log' \in [Server -> Seq(Entry)]
               /\ commitIndex' \in [Server -> Nat]
               /\ queue' \in [Server -> Seq(Message)]
               /\ count' \in Int

\* The term and the role a message leaves its receiver with.
LEMMA TermStateType ==
    ASSUME TypeOK, NEW s \in Server, NEW m \in Message
    PROVE  Term(s, m) \in Nat /\ State(s, m) \in Role
<1>1. m.term \in Nat
  BY MessageFields
<1> QED
  BY <1>1, RoleConstructors DEF TypeOK, Term, State

\* Replacing one server's role by a role keeps the type.
LEMMA BecomeType ==
    ASSUME TypeOK, NEW s \in Server, NEW st \in Role, Become(s, st)
    PROVE  state' \in [Server -> Role]
  BY DEF TypeOK, Become

\* A rejected AppendEntries may shorten the log, an accepted one extends it.
LEMMA OnAppendEntriesRequestType ==
    ASSUME TypeOK, NEW s \in Server, NEW m \in Message,
           NEW q \in [Server -> Seq(Message)], NEW c \in Int,
           OnAppendEntriesRequest(s, m, q, c)
    PROVE  HandledType
<1> DEFINE prev == m.prevLogIndex
           extended == log[s] \o m.entries
           Reply(success, matchIndex) ==
               Push(s, <<AppendResponse(s, m, Term(s, m), success, matchIndex)>>, q, c)
<1>1. m.mtype = "AppendEntriesRequest"
  BY DEF OnAppendEntriesRequest
<1>2. /\ prev \in Nat /\ m.entries \in Seq(Entry) /\ m.leaderCommit \in Nat
      /\ m.sender \in Server
  BY <1>1, MessageFields
<1>3. state' \in [Server -> Role]
  <2>1. Become(s, Follower) \/ Become(s, State(s, m))
    BY DEF OnAppendEntriesRequest
  <2> QED
    BY <2>1, BecomeType, TermStateType, RoleConstructors
<1>4. ASSUME NEW success \in BOOLEAN, NEW matchIndex \in Nat, Reply(success, matchIndex)
      PROVE  queue' \in [Server -> Seq(Message)] /\ count' \in Int
  <2>1. AppendResponse(s, m, Term(s, m), success, matchIndex) \in Message
    BY <1>2, TermStateType DEF AppendResponse, Message
  <2>2. <<AppendResponse(s, m, Term(s, m), success, matchIndex)>> \in Seq(Message)
    BY <2>1
  <2> QED
    BY <1>4, <2>2, PushType
<1>5. extended \in Seq(Entry) /\ Len(extended) \in Nat
  <2>1. log[s] \in Seq(Entry)
    BY DEF TypeOK
  <2>2. extended \in Seq(Entry)
    BY <1>2, <2>1, ConcatProperties
  <2> HIDE DEF extended
  <2> QED
    BY <2>2
<1>6. CASE Reply(FALSE, 0) /\ UNCHANGED <<log, commitIndex>>
  BY <1>3, <1>4, <1>6 DEF TypeOK, HandledType
<1>7. CASE /\ prev <= Len(log[s])
           /\ log' = [log EXCEPT ![s] = SubSeq(@, 1, prev - 1)]
           /\ Reply(FALSE, 0)
           /\ UNCHANGED commitIndex
  <2>0. log[s] \in Seq(Entry)
    BY DEF TypeOK
  <2>1. log[s] \in Seq(Entry) /\ prev - 1 \in Int
    BY <1>2, <2>0
  <2>2. \A j \in 1 .. prev - 1 : log[s][j] \in Entry
    BY <1>2, <1>7, <2>1
  <2>3. SubSeq(log[s], 1, prev - 1) \in Seq(Entry)
    BY <2>1, <2>2, SubSeqProperties
  <2>4. log' \in [Server -> Seq(Entry)]
    BY <1>7, <2>3 DEF TypeOK
  <2> QED
    BY <1>3, <1>4, <1>7, <2>4 DEF TypeOK, HandledType
<1>8. CASE /\ log' = [log EXCEPT ![s] = extended]
           /\ commitIndex' = [commitIndex EXCEPT ![s] =
                 IF m.leaderCommit > @ THEN Min({m.leaderCommit, Len(extended)}) ELSE @]
           /\ Reply(TRUE, Len(extended))
  <2>1. Min({m.leaderCommit, Len(extended)}) \in Nat
    BY <1>2, <1>5, MinOfTwo
  <2>2. log' \in [Server -> Seq(Entry)]
    BY <1>5, <1>8 DEF TypeOK
  <2>3. commitIndex' \in [Server -> Nat]
    BY <1>8, <2>1 DEF TypeOK
  <2> QED
    BY <1>3, <1>4, <1>5, <1>8, <2>2, <2>3 DEF HandledType
<1>9. QED
  BY <1>6, <1>7, <1>8 DEF OnAppendEntriesRequest

\* An AppendEntries response moves next_indices and the commit index.
LEMMA OnAppendEntriesResponseType ==
    ASSUME TypeOK, NEW s \in Server, NEW m \in Message,
           NEW q \in [Server -> Seq(Message)], NEW c \in Int,
           OnAppendEntriesResponse(s, m, q, c)
    PROVE  HandledType
<1> DEFINE next == [state[s].next EXCEPT ![m.sender] =
                       IF m.success THEN m.matchIndex ELSE Decremented(@)]
<1>1. m.mtype = "AppendEntriesResponse" /\ State(s, m).role = "Leader"
  BY DEF OnAppendEntriesResponse
<1>2. m.sender \in Server /\ m.matchIndex \in Nat
  BY <1>1, MessageFields
<1>3. state[s].next \in [Server -> Nat]
  <2>1. state[s].role = "Leader" /\ state[s] \in Role
    BY <1>1 DEF State, Follower, TypeOK
  <2> QED
    BY <2>1, RoleFields
<1>4. Decremented(state[s].next[m.sender]) \in Nat
  BY <1>2, <1>3, BuildAssumption DEF Decremented
<1>5. next \in [Server -> Nat]
  BY <1>2, <1>3, <1>4
<1> HIDE DEF next
<1>6. NewCommitIndex(s, next) \in Nat
  <2> DEFINE k == Len(log[s]) - Quorum
  <2>1. commitIndex[s] \in Nat
    BY DEF TypeOK
  <2>2. ASSUME k \in 0 .. NServers - 1
        PROVE  Max({commitIndex[s], Kth(next, k) + 1}) \in Nat
    <3>1. Kth(next, k) \in Nat
      BY <1>5, <2>2, KthType
    <3> HIDE DEF k
    <3>2. Kth(next, k) + 1 \in Nat
      BY ONLY <3>1
    <3> QED
      BY ONLY <2>1, <3>2, MaxOfTwo
  <2> QED
    BY <2>1, <2>2 DEF NewCommitIndex
<1>7. /\ Become(s, Leader(next)) /\ Push(s, <<>>, q, c) /\ UNCHANGED log
      /\ commitIndex' = [commitIndex EXCEPT ![s] = NewCommitIndex(s, next)]
  BY DEF OnAppendEntriesResponse, next
<1>8. state' \in [Server -> Role]
  BY <1>5, <1>7, BecomeType, RoleConstructors
<1>9. <<>> \in Seq(Message)
  OBVIOUS
<1>10. queue' \in [Server -> Seq(Message)] /\ count' \in Int
  BY <1>7, <1>9, PushType
<1> QED
  BY <1>6, <1>7, <1>8, <1>10 DEF TypeOK, HandledType

\* A vote request is answered and changes nothing but the term and the role.
LEMMA OnRequestVoteRequestType ==
    ASSUME TypeOK, NEW s \in Server, NEW m \in Message,
           NEW q \in [Server -> Seq(Message)], NEW c \in Int,
           OnRequestVoteRequest(s, m, q, c)
    PROVE  HandledType
<1>1. Grants(s, m) \in BOOLEAN
  BY DEF Grants
<1>2. VoteResponse(s, m, Term(s, m), Grants(s, m)) \in Message
  BY <1>1, TermStateType, MessageFields DEF VoteResponse, Message
<1>3. <<VoteResponse(s, m, Term(s, m), Grants(s, m))>> \in Seq(Message)
  BY <1>2
<1>4. queue' \in [Server -> Seq(Message)] /\ count' \in Int
  BY <1>3, PushType DEF OnRequestVoteRequest
<1>5. state' \in [Server -> Role]
  BY BecomeType, TermStateType DEF OnRequestVoteRequest
<1> QED
  BY <1>4, <1>5 DEF OnRequestVoteRequest, TypeOK, HandledType

\* A vote is counted; with a quorum of them the candidate becomes a leader.
LEMMA OnRequestVoteResponseType ==
    ASSUME TypeOK, NEW s \in Server, NEW m \in Message,
           NEW q \in [Server -> Seq(Message)], NEW c \in Int,
           OnRequestVoteResponse(s, m, q, c)
    PROVE  HandledType
<1> DEFINE granted == state[s].granted \cup (IF m.voteGranted THEN {m.sender} ELSE {})
           next == [i \in Server |-> Len(log[s])]
<1>1. State(s, m).role = "Candidate"
  BY DEF OnRequestVoteResponse
<1>2. state[s].granted \in SUBSET Server
  <2>1. state[s].role = "Candidate" /\ state[s] \in Role
    BY <1>1 DEF State, Follower, TypeOK
  <2> QED
    BY <2>1, RoleFields
<1>3. granted \in SUBSET Server
  BY <1>2, MessageFields
<1>4. next \in [Server -> Nat]
  BY DEF TypeOK
<1>5. AppendEntries(s, next) \in Seq(Message)
  <2>1. \A i \in Server \ {s} : next[i] <= Len(log[s])
    BY DEF TypeOK
  <2> QED
    BY <1>4, <2>1, AppendEntriesType
<1>6. <<>> \in Seq(Message)
  OBVIOUS
<1> HIDE DEF granted, next
<1>7. CASE Become(s, Leader(next)) /\ Push(s, AppendEntries(s, next), q, c)
  <2>1. state' \in [Server -> Role]
    BY <1>4, <1>7, BecomeType, RoleConstructors
  <2>2. queue' \in [Server -> Seq(Message)] /\ count' \in Int
    BY <1>5, <1>7, PushType
  <2> QED
    BY <2>1, <2>2 DEF OnRequestVoteResponse, TypeOK, HandledType
<1>8. CASE Become(s, Candidate(granted)) /\ Push(s, <<>>, q, c)
  <2>1. state' \in [Server -> Role]
    BY <1>3, <1>8, BecomeType, RoleConstructors
  <2>2. queue' \in [Server -> Seq(Message)] /\ count' \in Int
    BY <1>6, <1>8, PushType
  <2> QED
    BY <2>1, <2>2 DEF OnRequestVoteResponse, TypeOK, HandledType
<1> QED
  BY <1>7, <1>8 DEF OnRequestVoteResponse, granted, next

\* A late response changes at most the term and the role.
LEMMA OnLateResponseType ==
    ASSUME TypeOK, NEW s \in Server, NEW m \in Message,
           NEW q \in [Server -> Seq(Message)], NEW c \in Int,
           OnLateResponse(s, m, q, c)
    PROVE  HandledType
<1>1. <<>> \in Seq(Message)
  OBVIOUS
<1>2. queue' \in [Server -> Seq(Message)] /\ count' \in Int
  BY <1>1, PushType DEF OnLateResponse
<1>3. state' \in [Server -> Role]
  BY BecomeType, TermStateType DEF OnLateResponse
<1> QED
  BY <1>2, <1>3 DEF OnLateResponse, TypeOK, HandledType

\* apply_state() gives the state machine entries of the log.
LEMMA ApplyStateType ==
    ASSUME TypeOK, NEW s \in Server, ~ApplyPanics(s), ApplyState(s)
    PROVE  applied' \in [Server -> Seq(Entry)]
<1> DEFINE from == Len(applied[s]) + 1
           new == SubSeq(log[s], from, commitIndex[s])
<1>1. /\ log[s] \in Seq(Entry) /\ applied[s] \in Seq(Entry)
      /\ commitIndex[s] \in Nat /\ from \in Nat /\ from >= 1
  BY DEF TypeOK
<1>2. \A j \in from .. commitIndex[s] : j \in 1 .. Len(log[s])
  BY <1>1 DEF ApplyPanics
<1>3. \A j \in from .. commitIndex[s] : log[s][j] \in Entry
  BY <1>1, <1>2
<1>4. new \in Seq(Entry)
  <2> HIDE DEF from
  <2> QED
    BY <1>1, <1>3, SubSeqProperties
<1>5. applied[s] \o new \in Seq(Entry)
  <2> HIDE DEF new
  <2> QED
    BY <1>1, <1>4, ConcatProperties
<1>6. applied' = [applied EXCEPT ![s] = applied[s] \o new]
  BY DEF ApplyState
<1> QED
  BY <1>5, <1>6 DEF TypeOK

\* Handling any message leaves everything but the count of repeated messages
\* in its type, or ends the process.
LEMMA HandleMessageType ==
    ASSUME TypeOK, NEW m \in Message,
           NEW q \in [Server -> Seq(Message)], NEW c \in Int,
           HandleMessage(m, q, c), duplicates' \in Nat
    PROVE  TypeOK'
<1> DEFINE s == m.receiver
<1>1. s \in Server
  BY MessageFields
<1>2. CASE Panic
  BY <1>2 DEF Panic, TypeOK, servers, timers
<1>3. CASE /\ ~ApplyPanics(s)
           /\ ApplyState(s)
           /\ currentTerm' = [currentTerm EXCEPT ![s] = Term(s, m)]
           /\ \/ OnAppendEntriesRequest(s, m, q, c)
              \/ OnAppendEntriesResponse(s, m, q, c)
              \/ OnRequestVoteRequest(s, m, q, c)
              \/ OnRequestVoteResponse(s, m, q, c)
              \/ OnLateResponse(s, m, q, c)
           /\ UNCHANGED <<votedFor, timers, panicked, crashes>>
  <2>1. HandledType
    BY <1>1, <1>3, OnAppendEntriesRequestType, OnAppendEntriesResponseType,
       OnRequestVoteRequestType, OnRequestVoteResponseType, OnLateResponseType
  <2>2. applied' \in [Server -> Seq(Entry)]
    BY <1>1, <1>3, ApplyStateType
  <2>3. currentTerm' \in [Server -> Nat]
    <3>1. Term(s, m) \in Nat
      BY <1>1, TermStateType
    <3> QED
      BY <1>1, <1>3, <3>1 DEF TypeOK
  <2>4. /\ votedFor' = votedFor /\ panicked' = panicked /\ crashes' = crashes
        /\ lastBroadcast' = lastBroadcast /\ lastElection' = lastElection /\ now' = now
    BY <1>3 DEF timers
  <2> QED
    BY <2>1, <2>2, <2>3, <2>4 DEF TypeOK, HandledType
<1> QED
  BY <1>2, <1>3 DEF HandleMessage

\* Taking the front message from a queue leaves queues of messages.
LEMMA PopType ==
    ASSUME TypeOK, NEW i \in Server, queue[i] # <<>>
    PROVE  /\ Head(queue[i]) \in Message
           /\ [queue EXCEPT ![i] = Tail(@)] \in [Server -> Seq(Message)]
<1>1. queue[i] \in Seq(Message)
  BY DEF TypeOK
<1>2. Head(queue[i]) \in Message /\ Tail(queue[i]) \in Seq(Message)
  BY <1>1
<1> QED
  BY <1>2 DEF TypeOK

\* A tick sends heartbeats and vote requests, or panics.
LEMMA TickType ==
    ASSUME TypeOK, NEW delta \in Delta, Tick(delta)
    PROVE  TypeOK'
<1> DEFINE ts == now + delta
           beats == {s \in Server : Heartbeats(s, ts)}
           elects == {s \in Server : TimesOut(s, ts)}
           sent == [s \in Server |-> IF s \in beats THEN AppendEntries(s, state[s].next)
                                     ELSE IF s \in elects THEN VoteRequests(s, currentTerm[s] + 1)
                                     ELSE <<>>]
<1>1. ts \in Nat
  BY TimeAssumption DEF TypeOK
<1>2. CASE Panic /\ UNCHANGED duplicates
  BY <1>2 DEF Panic, TypeOK, servers, timers
<1>3. CASE ~Panic
  <2>1. ~ \E s \in beats : AppendEntriesPanics(s)
    BY <1>3 DEF Tick
  <2>2. /\ now' = ts
        /\ lastBroadcast' = [s \in Server |-> IF s \in beats THEN ts ELSE lastBroadcast[s]]
        /\ lastElection' = [s \in Server |-> IF s \in elects THEN ts ELSE lastElection[s]]
        /\ currentTerm' = [s \in Server |-> currentTerm[s] + (IF s \in elects THEN 1 ELSE 0)]
        /\ votedFor' = [s \in Server |-> IF s \in elects THEN s ELSE votedFor[s]]
        /\ state' = [s \in Server |-> IF s \in elects THEN Candidate({s}) ELSE state[s]]
        /\ queue' = [s \in Server |-> queue[s] \o sent[s]]
        /\ count' = count + (NServers - 1) * Cardinality(beats \cup elects)
        /\ UNCHANGED <<log, commitIndex, applied, panicked, crashes, duplicates>>
    BY <1>3 DEF Tick
  <2>3. ASSUME NEW s \in Server PROVE sent[s] \in Seq(Message)
    <3>1. CASE s \in beats
      <4>1. state[s] \in Role /\ state[s].role = "Leader"
        BY <3>1 DEF TypeOK, Heartbeats, IsLeader
      <4>2. state[s].next \in [Server -> Nat]
        BY <4>1, RoleFields
      <4>3. \A i \in Server \ {s} : state[s].next[i] <= Len(log[s])
        <5>1. \A i \in Server \ {s} : ~(state[s].next[i] > Len(log[s]))
          BY <2>1, <3>1 DEF AppendEntriesPanics
        <5>2. Len(log[s]) \in Nat
          BY DEF TypeOK
        <5> QED
          BY <4>2, <5>1, <5>2
      <4>4. AppendEntries(s, state[s].next) \in Seq(Message)
        BY <4>2, <4>3, AppendEntriesType
      <4> HIDE DEF beats
      <4> QED
        BY <3>1, <4>4
    <3>2. CASE s \notin beats /\ s \in elects
      <4>1. currentTerm[s] + 1 \in Nat
        BY DEF TypeOK
      <4>2. VoteRequests(s, currentTerm[s] + 1) \in Seq(Message)
        BY <4>1, VoteRequestsType
      <4> HIDE DEF beats, elects
      <4> QED
        BY <3>2, <4>2
    <3>3. CASE s \notin beats /\ s \notin elects
      <4> HIDE DEF beats, elects
      <4> QED
        BY <3>3
    <3> QED
      BY <3>1, <3>2, <3>3
  <2>4. IsFiniteSet(beats \cup elects) /\ Cardinality(beats \cup elects) \in Nat
    BY ServerFinite, FS_Subset, FS_CardinalityType
  <2> HIDE DEF beats, elects, sent, ts
  <2>5. queue' \in [Server -> Seq(Message)]
    <3>1. ASSUME NEW s \in Server PROVE queue[s] \o sent[s] \in Seq(Message)
      <4>1. queue[s] \in Seq(Message)
        BY DEF TypeOK
      <4> QED
        BY <2>3, <4>1, ConcatProperties
    <3> QED
      BY <2>2, <3>1
  <2>6. state' \in [Server -> Role]
    <3>1. \A s \in Server : Candidate({s}) \in Role
      BY RoleConstructors
    <3> QED
      BY <2>2, <3>1 DEF TypeOK
  <2>7. count' \in Int
    BY <2>2, <2>4, NServersAssumption DEF TypeOK
  <2>8. /\ lastBroadcast' \in [Server -> Nat] /\ lastElection' \in [Server -> Nat]
        /\ now' \in Nat
    BY <1>1, <2>2 DEF TypeOK
  <2>9. currentTerm' \in [Server -> Nat] /\ votedFor' \in [Server -> Server \cup {None}]
    BY <2>2 DEF TypeOK
  <2> QED
    BY <2>2, <2>5, <2>6, <2>7, <2>8, <2>9 DEF TypeOK
<1> QED
  BY <1>2, <1>3 DEF Tick

\* Every event keeps the types.
LEMMA TypeStep == TypeOK /\ [Next]_vars => TypeOK'
<1> SUFFICES ASSUME TypeOK, [Next]_vars PROVE TypeOK'
  OBVIOUS
<1>1. ASSUME NEW delta \in Delta, Tick(delta) PROVE TypeOK'
  BY <1>1, TickType
<1>2. ASSUME NEW i \in Server, FetchMessage(i) PROVE TypeOK'
  <2>1. /\ Head(queue[i]) \in Message
        /\ [queue EXCEPT ![i] = Tail(@)] \in [Server -> Seq(Message)]
    BY <1>2, PopType DEF FetchMessage
  <2>2. count - 1 \in Int /\ duplicates' \in Nat
    BY <1>2 DEF TypeOK, FetchMessage
  <2> QED
    BY <1>2, <2>1, <2>2, HandleMessageType DEF FetchMessage
<1>3. ASSUME NEW i \in Server, DuplicateMessage(i) PROVE TypeOK'
  <2>1. Head(queue[i]) \in Message
    BY <1>3, PopType DEF DuplicateMessage
  <2>2. queue \in [Server -> Seq(Message)] /\ count \in Int /\ duplicates' \in Nat
    BY <1>3 DEF TypeOK, DuplicateMessage
  <2> QED
    BY <1>3, <2>1, <2>2, HandleMessageType DEF DuplicateMessage
<1>4. ASSUME NEW i \in Server, DropMessage(i) PROVE TypeOK'
  <2>1. queue' \in [Server -> Seq(Message)]
    BY <1>4, PopType DEF DropMessage
  <2> QED
    BY <1>4, <2>1 DEF DropMessage, TypeOK, servers, timers
<1>5. ASSUME NEW cmd \in Command, ClientCommand(cmd) PROVE TypeOK'
  <2>1. PICK s \in Server :
            log' = [log EXCEPT ![s] = Append(@, [term |-> currentTerm[s], cmd |-> cmd])]
    BY <1>5 DEF ClientCommand
  <2>2. [term |-> currentTerm[s], cmd |-> cmd] \in Entry
    BY DEF TypeOK, Entry
  <2>3. log' \in [Server -> Seq(Entry)]
    BY <2>1, <2>2 DEF TypeOK
  <2> QED
    BY <1>5, <2>3 DEF ClientCommand, TypeOK, timers
<1>6. ASSUME NEW s \in Server, ServerCrash(s) PROVE TypeOK'
  <2>1. state' \in [Server -> Role]
    BY <1>6, BecomeType, RoleConstructors DEF ServerCrash
  <2>2. log' \in [Server -> Seq(Entry)] /\ applied' \in [Server -> Seq(Entry)]
    <3>1. <<>> \in Seq(Entry)
      OBVIOUS
    <3> QED
      BY <1>6, <3>1 DEF ServerCrash, TypeOK
  <2>3. votedFor' \in [Server -> Server \cup {None}]
    BY <1>6 DEF ServerCrash, TypeOK
  <2>4. /\ currentTerm' \in [Server -> Nat] /\ commitIndex' \in [Server -> Nat]
        /\ lastBroadcast' \in [Server -> Nat] /\ lastElection' \in [Server -> Nat]
        /\ crashes' \in [Server -> Nat]
    BY <1>6 DEF ServerCrash, TypeOK
  <2>5. UNCHANGED <<now, queue, count, panicked, duplicates>>
    BY <1>6 DEF ServerCrash
  <2> QED
    BY <2>1, <2>2, <2>3, <2>4, <2>5 DEF TypeOK
<1>7. CASE UNCHANGED vars
  BY <1>7 DEF vars, servers, timers, TypeOK
<1> QED
  BY <1>1, <1>2, <1>3, <1>4, <1>5, <1>6, <1>7 DEF Next

\* Every event of the simulator keeps each variable in its type: terms, indices
\* and roles stay what the Rust types say, messages carry what their handlers
\* read, and get() on the sorted next_indices never leaves the commit index
\* undefined.
THEOREM TypeCorrect == Spec => []TypeOK
<1>1. Init => TypeOK
  <2> SUFFICES ASSUME Init PROVE TypeOK
    OBVIOUS
  <2>1. state \in [Server -> Role]
    BY RoleConstructors DEF Init
  <2>2. log \in [Server -> Seq(Entry)] /\ applied \in [Server -> Seq(Entry)]
    BY DEF Init
  <2>3. queue \in [Server -> Seq(Message)]
    BY DEF Init
  <2>4. votedFor \in [Server -> Server \cup {None}]
    BY DEF Init
  <2>5. /\ currentTerm \in [Server -> Nat] /\ commitIndex \in [Server -> Nat]
        /\ lastBroadcast \in [Server -> Nat] /\ lastElection \in [Server -> Nat]
        /\ crashes \in [Server -> Nat]
    BY DEF Init
  <2>6. now \in Nat /\ count \in Int /\ duplicates \in Nat
    BY DEF Init
  <2>7. panicked \in BOOLEAN
    BY Zenon DEF Init
  <2> QED
    BY <2>1, <2>2, <2>3, <2>4, <2>5, <2>6, <2>7 DEF TypeOK
<1> QED
  BY <1>1, TypeStep, PTL DEF Spec

-----------------------------------------------------------------------------

\* A response that grants a vote.
IsGrant(m) == m.mtype = "RequestVoteResponse" /\ m.voteGranted

\* A message the dispatcher may hold for sender s: it goes to another server,
\* and it only grants a vote if s has crashed.
Sound(s, m) == /\ m.sender = s /\ m.receiver # s
               /\ IsGrant(m) => crashes[s] > 0

SoundSeq(s, msgs) == \A j \in DOMAIN msgs : Sound(s, msgs[j])

QueueSound == \A s \in Server : SoundSeq(s, queue[s])

\* Besides its own, a candidate has votes of crashed servers only.
VotesFromCrashed == \A s \in Server : IsCandidate(s) =>
    \A t \in state[s].granted : t = s \/ crashes[t] > 0

\* Until the first election nothing has been sent.
Quiet == now <= ElectionTimeout => \A s \in Server :
    queue[s] = <<>> /\ state[s] = Follower /\ lastElection[s] = 0

\* From the first election on, who has not crashed has voted for itself.
VoteSpent == now > ElectionTimeout => \A s \in Server : crashes[s] = 0 => votedFor[s] = s

Election == QueueSound /\ VotesFromCrashed /\ Quiet /\ VoteSpent /\ LeaderNeedsCrashes

ElectionInv == TypeOK /\ Election

\* The responses to m grant a vote only if that of the receiver is free or the
\* sender's, and go to others.
Sends(m, msgs) == \A j \in DOMAIN msgs :
    /\ msgs[j].sender = m.receiver /\ msgs[j].receiver # m.receiver
    /\ IsGrant(msgs[j]) => votedFor[m.receiver] \in {None, m.sender}

\* Message m makes a leader only of a candidate whom a granted vote completes a
\* quorum, and a candidate only gains the vote m grants.
Moves(m, st) == LET s == m.receiver IN
    /\ st.role = "Leader" =>
        \/ IsLeader(s)
        \/ /\ IsCandidate(s) /\ IsGrant(m)
           /\ Cardinality(state[s].granted \cup {m.sender}) >= Quorum
    /\ st.role = "Candidate" =>
        /\ IsCandidate(s)
        /\ st.granted \subseteq state[s].granted \cup (IF IsGrant(m) THEN {m.sender} ELSE {})

\* What a handler may do to an election.
Handled(m, q, c) ==
    /\ \E msgs \in Seq(Message) : Push(m.receiver, msgs, q, c) /\ Sends(m, msgs)
    /\ \E st \in Role : Become(m.receiver, st) /\ Moves(m, st)
    /\ UNCHANGED <<votedFor, timers, panicked, crashes>>

\* The role a message leaves its receiver with is its own or Follower.
LEMMA StateKept ==
    ASSUME NEW s, NEW m
    PROVE  State(s, m) = state[s] \/ State(s, m) = Follower
  BY DEF State

\* send_append_entries() sends from s, to the others, and grants nothing.
LEMMA AppendEntriesSound ==
    ASSUME NEW s \in Server, NEW next, NEW j \in DOMAIN AppendEntries(s, next)
    PROVE  LET m == AppendEntries(s, next)[j] IN
           m.sender = s /\ m.receiver # s /\ ~IsGrant(m)
<1>1. j \in 1 .. NServers - 1
  BY DEF AppendEntries
<1>2. Others(s)[j] # s
  BY <1>1, OthersType
<1> QED
  BY <1>1, <1>2 DEF AppendEntries, IsGrant

\* So does start_new_election().
LEMMA VoteRequestsSound ==
    ASSUME NEW s \in Server, NEW term, NEW j \in DOMAIN VoteRequests(s, term)
    PROVE  LET m == VoteRequests(s, term)[j] IN
           m.sender = s /\ m.receiver # s /\ ~IsGrant(m)
<1>1. j \in 1 .. NServers - 1
  BY DEF VoteRequests
<1>2. Others(s)[j] # s
  BY <1>1, OthersType
<1> QED
  BY <1>1, <1>2 DEF VoteRequests, IsGrant

\* Every handler does no more to an election than Handled says.
LEMMA HandleMessageHandled ==
    ASSUME TypeOK, NEW m \in Message, m.sender # m.receiver,
           NEW q \in [Server -> Seq(Message)], NEW c \in Int,
           HandleMessage(m, q, c), ~Panic
    PROVE  Handled(m, q, c)
<1> DEFINE s == m.receiver
<1>1. s \in Server /\ m.sender \in Server
  BY MessageFields
<1>2. /\ UNCHANGED <<votedFor, timers, panicked, crashes>>
      /\ \/ OnAppendEntriesRequest(s, m, q, c)
         \/ OnAppendEntriesResponse(s, m, q, c)
         \/ OnRequestVoteRequest(s, m, q, c)
         \/ OnRequestVoteResponse(s, m, q, c)
         \/ OnLateResponse(s, m, q, c)
  BY DEF HandleMessage
<1>3. ASSUME NEW msgs \in Seq(Message), Push(s, msgs, q, c), Sends(m, msgs),
             NEW st \in Role, Become(s, st), Moves(m, st)
      PROVE  Handled(m, q, c)
  BY <1>2, <1>3 DEF Handled
<1>4. /\ State(s, m) \in Role /\ Moves(m, State(s, m))
      /\ Follower \in Role /\ Moves(m, Follower)
  <2>1. State(s, m) \in Role /\ Follower \in Role
    BY <1>1, TermStateType, RoleConstructors
  <2>2. Moves(m, state[s])
    BY DEF Moves, IsLeader, IsCandidate
  <2>3. Moves(m, Follower)
    BY DEF Moves, Follower
  <2> QED
    BY <2>1, <2>2, <2>3, StateKept
<1>5. <<>> \in Seq(Message) /\ Sends(m, <<>>)
  BY DEF Sends
<1>6. ASSUME NEW r \in Message, r.sender = s, r.receiver # s,
             IsGrant(r) => votedFor[s] \in {None, m.sender}
      PROVE  <<r>> \in Seq(Message) /\ Sends(m, <<r>>)
  BY <1>6 DEF Sends
<1> HIDE DEF s
<1>7. CASE OnAppendEntriesRequest(s, m, q, c)
  <2>1. \E st \in Role : Become(s, st) /\ Moves(m, st)
    BY <1>4, <1>7 DEF OnAppendEntriesRequest
  <2>2. PICK success \in BOOLEAN, matchIndex \in Nat :
            Push(s, <<AppendResponse(s, m, Term(s, m), success, matchIndex)>>, q, c)
    <3>1. m.entries \in Seq(Entry)
      BY <1>7, MessageFields DEF OnAppendEntriesRequest
    <3>2. log[s] \in Seq(Entry)
      BY <1>1 DEF TypeOK
    <3> DEFINE extended == log[s] \o m.entries
    <3>3. Len(extended) \in Nat
      <4>1. extended \in Seq(Entry)
        BY <3>1, <3>2, ConcatProperties
      <4> HIDE DEF extended
      <4> QED
        BY <4>1
    <3> QED
      BY <1>7, <3>3 DEF OnAppendEntriesRequest
  <2> DEFINE r == AppendResponse(s, m, Term(s, m), success, matchIndex)
  <2>3. r \in Message /\ r.sender = s /\ r.receiver # s /\ ~IsGrant(r)
    BY <1>1, TermStateType DEF AppendResponse, Message, IsGrant, s
  <2> HIDE DEF r
  <2>4. <<r>> \in Seq(Message) /\ Sends(m, <<r>>)
    BY <1>6, <2>3
  <2>5. Push(s, <<r>>, q, c)
    BY <2>2 DEF r
  <2> QED
    BY <1>3, <2>1, <2>4, <2>5
<1>8. CASE OnAppendEntriesResponse(s, m, q, c)
  <2>1. PICK next : Become(s, Leader(next)) /\ Push(s, <<>>, q, c)
    BY <1>8 DEF OnAppendEntriesResponse
  <2>2. IsLeader(s)
    BY <1>8 DEF OnAppendEntriesResponse, State, Follower, IsLeader
  <2>3. HandledType
    BY <1>1, <1>8, OnAppendEntriesResponseType
  <2>4. Leader(next) \in Role
    BY <1>1, <2>1, <2>3 DEF HandledType, Become, TypeOK
  <2>5. Moves(m, Leader(next))
    BY <2>2 DEF Leader, Moves, s
  <2> QED
    BY <1>3, <1>5, <2>1, <2>4, <2>5
<1>9. CASE OnRequestVoteRequest(s, m, q, c)
  <2> DEFINE r == VoteResponse(s, m, Term(s, m), Grants(s, m))
  <2>1. Grants(s, m) \in BOOLEAN /\ (Grants(s, m) => votedFor[s] \in {None, m.sender})
    BY DEF Grants
  <2>2. r \in Message /\ r.sender = s /\ r.receiver # s
    BY <1>1, <2>1, TermStateType DEF VoteResponse, Message, s
  <2>3. IsGrant(r) => votedFor[s] \in {None, m.sender}
    BY <2>1 DEF VoteResponse, IsGrant
  <2>4. Push(s, <<r>>, q, c) /\ Become(s, State(s, m))
    BY <1>9 DEF OnRequestVoteRequest
  <2> HIDE DEF r
  <2>5. <<r>> \in Seq(Message) /\ Sends(m, <<r>>)
    BY <1>6, <2>2, <2>3
  <2> QED
    BY <1>3, <1>4, <2>4, <2>5
<1>10. CASE OnRequestVoteResponse(s, m, q, c)
  <2> DEFINE granted == state[s].granted \cup (IF m.voteGranted THEN {m.sender} ELSE {})
             next == [i \in Server |-> Len(log[s])]
  <2>1. m.mtype = "RequestVoteResponse" /\ State(s, m).role = "Candidate"
    BY <1>10 DEF OnRequestVoteResponse
  <2>2. IsCandidate(s) /\ state[s].granted \in SUBSET Server
    <3>1. state[s].role = "Candidate"
      BY <2>1 DEF State, Follower
    <3>2. state[s] \in Role
      BY <1>1 DEF TypeOK
    <3> QED
      BY <3>1, <3>2, RoleFields DEF IsCandidate
  <2>3. granted = state[s].granted \cup (IF IsGrant(m) THEN {m.sender} ELSE {})
    BY <2>1 DEF IsGrant
  <2>4. Candidate(granted) \in Role /\ Leader(next) \in Role
    <3>1. granted \in SUBSET Server
      BY <1>1, <2>2
    <3>2. next \in [Server -> Nat]
      BY <1>1 DEF TypeOK
    <3> HIDE DEF granted, next
    <3> QED
      BY <3>1, <3>2, RoleConstructors
  <2>5. AppendEntries(s, next) \in Seq(Message) /\ Sends(m, AppendEntries(s, next))
    <3>1. next \in [Server -> Nat] /\ \A i \in Server \ {s} : next[i] <= Len(log[s])
      BY <1>1 DEF TypeOK
    <3> HIDE DEF next
    <3>2. AppendEntries(s, next) \in Seq(Message)
      BY <1>1, <3>1, AppendEntriesType
    <3>3. Sends(m, AppendEntries(s, next))
      BY <1>1, AppendEntriesSound DEF Sends, s
    <3> QED
      BY <3>2, <3>3
  <2>6. CASE /\ m.voteGranted /\ Cardinality(granted) >= Quorum
             /\ Become(s, Leader(next))
             /\ Push(s, AppendEntries(s, next), q, c)
    <3>1. IsGrant(m) /\ Cardinality(state[s].granted \cup {m.sender}) >= Quorum
      BY <2>1, <2>6 DEF IsGrant
    <3> HIDE DEF granted, next
    <3>2. Moves(m, Leader(next))
      BY <2>2, <3>1 DEF Leader, Moves, s
    <3> QED
      BY <1>3, <2>4, <2>5, <2>6, <3>2
  <2>7. CASE Become(s, Candidate(granted)) /\ Push(s, <<>>, q, c)
    <3> HIDE DEF granted
    <3>1. Moves(m, Candidate(granted))
      BY <2>2, <2>3 DEF Candidate, Moves, s
    <3> QED
      BY <1>3, <1>5, <2>4, <2>7, <3>1
  <2> QED
    BY <1>10, <2>6, <2>7 DEF OnRequestVoteResponse
<1>11. CASE OnLateResponse(s, m, q, c)
  <2>1. Push(s, <<>>, q, c) /\ Become(s, State(s, m))
    BY <1>11 DEF OnLateResponse
  <2> QED
    BY <1>3, <1>4, <1>5, <2>1
<1> QED
  BY <1>2, <1>7, <1>8, <1>9, <1>10, <1>11

-----------------------------------------------------------------------------

\* Sound messages behind a queue of sound ones make a sound queue.
LEMMA SoundAppend ==
    ASSUME NEW s, NEW a \in Seq(Message), NEW b \in Seq(Message),
           SoundSeq(s, a), SoundSeq(s, b)
    PROVE  SoundSeq(s, a \o b)
<1> SUFFICES ASSUME NEW j \in DOMAIN (a \o b) PROVE Sound(s, (a \o b)[j])
  BY DEF SoundSeq
<1>1. j \in 1 .. Len(a) \/ j - Len(a) \in 1 .. Len(b)
  BY ConcatProperties
<1>2. CASE j \in 1 .. Len(a)
  <2>1. (a \o b)[j] = a[j]
    BY <1>2, ConcatProperties
  <2> QED
    BY <1>2, <2>1 DEF SoundSeq
<1>3. CASE j - Len(a) \in 1 .. Len(b)
  <2>1. (a \o b)[j] = b[j - Len(a)]
    BY <1>3, ConcatProperties
  <2> QED
    BY <1>3, <2>1 DEF SoundSeq
<1> QED
  BY <1>1, <1>2, <1>3

\* The front of a sound queue, and what is behind it.
LEMMA SoundPop ==
    ASSUME TypeOK, QueueSound, NEW i \in Server, queue[i] # <<>>
    PROVE  /\ Sound(i, Head(queue[i]))
           /\ \A s \in Server : SoundSeq(s, [queue EXCEPT ![i] = Tail(@)][s])
<1>1. queue[i] \in Seq(Message) /\ SoundSeq(i, queue[i])
  BY DEF TypeOK, QueueSound
<1>2. Sound(i, Head(queue[i]))
  BY <1>1 DEF SoundSeq
<1>3. SoundSeq(i, Tail(queue[i]))
  BY <1>1 DEF SoundSeq
<1> QED
  BY <1>2, <1>3 DEF TypeOK, QueueSound

\* If nothing an election depends on changes, Election stays as it is.
LEMMA ElectionUnchanged ==
    ASSUME Election, UNCHANGED <<queue, state, votedFor, lastElection, now, crashes>>
    PROVE  Election'
<1>1. QueueSound'
  BY DEF Election, QueueSound, SoundSeq, Sound
<1>2. VotesFromCrashed'
  BY DEF Election, VotesFromCrashed, IsCandidate
<1>3. Quiet' /\ VoteSpent'
  BY DEF Election, Quiet, VoteSpent
<1>4. LeaderNeedsCrashes'
  BY DEF Election, LeaderNeedsCrashes, IsLeader
<1> QED
  BY <1>1, <1>2, <1>3, <1>4 DEF Election

\* A quorum among a server and the crashed ones takes enough crashes.
LEMMA CrashedQuorum ==
    ASSUME NEW s \in Server, NEW votes \in SUBSET Server,
           \A t \in votes : t = s \/ crashes[t] > 0,
           Cardinality(votes) >= Quorum
    PROVE  Cardinality({t \in Server : crashes[t] > 0}) >= Quorum - 1
<1> DEFINE crashed == {t \in Server : crashes[t] > 0}
<1>1. IsFiniteSet(crashed) /\ Cardinality(crashed) \in Nat
  BY ServerFinite, FS_Subset, FS_CardinalityType
<1>2. votes \subseteq crashed \cup {s}
  OBVIOUS
<1>3. Quorum \in Nat
  BY NServersAssumption DEF Quorum
<1> HIDE DEF crashed
<1>4. /\ IsFiniteSet(crashed \cup {s})
      /\ Cardinality(crashed \cup {s}) \in Nat
      /\ Cardinality(crashed \cup {s}) <= Cardinality(crashed) + 1
  <2>1. CASE s \in crashed
    <3>1. crashed \cup {s} = crashed
      BY <2>1
    <3> QED
      BY <1>1, <3>1
  <2>2. CASE s \notin crashed
    <3>1. /\ IsFiniteSet(crashed \cup {s})
          /\ Cardinality(crashed \cup {s}) = Cardinality(crashed) + 1
      BY <1>1, <2>2, FS_AddElement
    <3> QED
      BY <1>1, <3>1
  <2> QED
    BY <2>1, <2>2
<1>5. /\ Cardinality(votes) \in Nat
      /\ Cardinality(votes) <= Cardinality(crashed \cup {s})
  BY <1>2, <1>4, FS_Subset, FS_CardinalityType
<1>6. Cardinality(crashed) >= Quorum - 1
  BY <1>1, <1>3, <1>4, <1>5
<1> QED
  BY <1>6 DEF crashed

\* A handled message keeps Election: who has not crashed has no vote to grant.
LEMMA HandledElection ==
    ASSUME ElectionInv, NEW m \in Message, Sound(m.sender, m), now > ElectionTimeout,
           NEW q \in [Server -> Seq(Message)], \A s \in Server : SoundSeq(s, q[s]),
           NEW c \in Int, Handled(m, q, c)
    PROVE  Election'
<1> DEFINE s == m.receiver
<1>1. s \in Server /\ m.sender \in Server /\ m.sender # s
  BY MessageFields DEF Sound
<1>2. PICK msgs \in Seq(Message) : Push(s, msgs, q, c) /\ Sends(m, msgs)
  BY DEF Handled
<1>3. PICK st \in Role : Become(s, st) /\ Moves(m, st)
  BY DEF Handled
<1>4. /\ votedFor' = votedFor /\ lastElection' = lastElection
      /\ now' = now /\ crashes' = crashes
  BY DEF Handled, timers
<1>5. /\ queue' = [q EXCEPT ![s] = q[s] \o msgs]
      /\ state' = [state EXCEPT ![s] = st]
  BY <1>2, <1>3 DEF Push, Become
<1>6. state \in [Server -> Role] /\ crashes \in [Server -> Nat]
  BY DEF ElectionInv, TypeOK
<1>7. IsGrant(m) => crashes[m.sender] > 0
  BY DEF Sound
<1>8. crashes[s] = 0 => votedFor[s] = s
  BY <1>1 DEF ElectionInv, Election, VoteSpent
<1>9. QueueSound'
  <2>1. SoundSeq(s, msgs)
    <3> SUFFICES ASSUME NEW j \in DOMAIN msgs PROVE Sound(s, msgs[j])
      BY DEF SoundSeq
    <3>1. /\ msgs[j].sender = s /\ msgs[j].receiver # s
          /\ IsGrant(msgs[j]) => votedFor[s] \in {None, m.sender}
      BY <1>2 DEF Sends
    <3>2. s # None
      BY <1>1, NoneAssumption DEF Server
    <3>3. IsGrant(msgs[j]) => crashes[s] > 0
      BY <1>1, <1>6, <1>8, <3>1, <3>2
    <3> QED
      BY <3>1, <3>3 DEF Sound
  <2>2. SoundSeq(s, q[s] \o msgs)
    BY <1>1, <2>1, SoundAppend
  <2>3. \A t \in Server : SoundSeq(t, queue'[t])
    BY <1>1, <1>5, <2>2
  <2> QED
    BY <1>4, <2>3 DEF QueueSound, SoundSeq, Sound
<1>10. ASSUME NEW t \in Server, state'[t].role = "Candidate", NEW v \in state'[t].granted
       PROVE  v = t \/ crashes[v] > 0
  <2>1. ASSUME IsCandidate(t), v \in state[t].granted PROVE v = t \/ crashes[v] > 0
    BY <2>1 DEF ElectionInv, Election, VotesFromCrashed
  <2>2. CASE t # s
    <3>1. state'[t] = state[t]
      BY <1>5, <1>6, <2>2
    <3> QED
      BY <1>10, <2>1, <3>1 DEF IsCandidate
  <2>3. CASE t = s
    <3>1. state'[t] = st
      BY <1>1, <1>5, <1>6, <2>3
    <3>2. IsCandidate(s) /\ (v \in state[s].granted \/ (IsGrant(m) /\ v = m.sender))
      BY <1>3, <1>10, <3>1 DEF Moves
    <3> QED
      BY <1>7, <2>1, <2>3, <3>2
  <2> QED
    BY <2>2, <2>3
<1>11. VotesFromCrashed'
  BY <1>4, <1>10 DEF VotesFromCrashed, IsCandidate
<1>12. Quiet' /\ VoteSpent'
  <2>1. ~(now' <= ElectionTimeout)
    BY <1>4, TimeAssumption DEF ElectionInv, TypeOK
  <2> QED
    BY <1>4, <2>1 DEF Quiet, VoteSpent, ElectionInv, Election
<1>13. ASSUME NEW t \in Server, state'[t].role = "Leader"
       PROVE  Cardinality({u \in Server : crashes[u] > 0}) >= Quorum - 1
  <2>1. ASSUME NEW u \in Server, IsLeader(u)
        PROVE  Cardinality({x \in Server : crashes[x] > 0}) >= Quorum - 1
    BY <2>1 DEF ElectionInv, Election, LeaderNeedsCrashes
  <2>2. CASE t # s \/ IsLeader(s)
    <3>1. IsLeader(t)
      BY <1>5, <1>6, <1>13, <2>2 DEF IsLeader
    <3> QED
      BY <2>1, <3>1
  <2>3. CASE t = s /\ ~IsLeader(s)
    <3>1. st.role = "Leader"
      BY <1>1, <1>5, <1>6, <1>13, <2>3
    <3> DEFINE votes == state[s].granted \cup {m.sender}
    <3>2. IsCandidate(s) /\ IsGrant(m) /\ Cardinality(votes) >= Quorum
      BY <1>3, <2>3, <3>1 DEF Moves
    <3>3. state[s].granted \in SUBSET Server
      BY <1>1, <1>6, <3>2, RoleFields DEF IsCandidate
    <3>4. \A v \in votes : v = s \/ crashes[v] > 0
      BY <1>1, <1>7, <3>2 DEF ElectionInv, Election, VotesFromCrashed
    <3>5. votes \in SUBSET Server
      BY <1>1, <3>3
    <3> HIDE DEF votes
    <3> QED
      BY <1>1, <3>2, <3>4, <3>5, CrashedQuorum
  <2> QED
    BY <2>2, <2>3
<1>14. LeaderNeedsCrashes'
  BY <1>4, <1>13 DEF LeaderNeedsCrashes, IsLeader
<1> QED
  BY <1>9, <1>11, <1>12, <1>14 DEF Election


\* What a tick does to an election, if it does not panic.
LEMMA TickEffect ==
    ASSUME TypeOK, NEW delta \in Delta, Tick(delta), ~Panic
    PROVE  /\ now' = now + delta
           /\ \A s \in Server : \E msgs \in Seq(Message) :
                /\ queue'[s] = queue[s] \o msgs
                /\ \A j \in DOMAIN msgs : /\ msgs[j].sender = s /\ msgs[j].receiver # s
                                          /\ ~IsGrant(msgs[j])
                /\ ~Heartbeats(s, now + delta) /\ ~TimesOut(s, now + delta) => msgs = <<>>
           /\ \A s \in Server :
                IF TimesOut(s, now + delta)
                THEN state'[s] = Candidate({s}) /\ votedFor'[s] = s
                ELSE /\ state'[s] = state[s] /\ votedFor'[s] = votedFor[s]
                     /\ lastElection'[s] = lastElection[s]
           /\ crashes' = crashes
<1> DEFINE ts == now + delta
           beats == {s \in Server : Heartbeats(s, ts)}
           elects == {s \in Server : TimesOut(s, ts)}
           sent == [s \in Server |-> IF s \in beats THEN AppendEntries(s, state[s].next)
                                     ELSE IF s \in elects THEN VoteRequests(s, currentTerm[s] + 1)
                                     ELSE <<>>]
<1>1. ~ \E s \in beats : AppendEntriesPanics(s)
  BY DEF Tick
<1>2. /\ now' = ts
      /\ lastElection' = [s \in Server |-> IF s \in elects THEN ts ELSE lastElection[s]]
      /\ votedFor' = [s \in Server |-> IF s \in elects THEN s ELSE votedFor[s]]
      /\ state' = [s \in Server |-> IF s \in elects THEN Candidate({s}) ELSE state[s]]
      /\ queue' = [s \in Server |-> queue[s] \o sent[s]]
      /\ crashes' = crashes
  BY DEF Tick
<1>3. ASSUME NEW s \in Server
      PROVE  /\ sent[s] \in Seq(Message)
             /\ \A j \in DOMAIN sent[s] : /\ sent[s][j].sender = s /\ sent[s][j].receiver # s
                                          /\ ~IsGrant(sent[s][j])
             /\ s \notin beats /\ s \notin elects => sent[s] = <<>>
  <2>1. CASE s \in beats
    <3>1. state[s] \in Role /\ state[s].role = "Leader"
      BY <2>1 DEF TypeOK, Heartbeats, IsLeader
    <3>2. state[s].next \in [Server -> Nat]
      BY <3>1, RoleFields
    <3>3. \A i \in Server \ {s} : state[s].next[i] <= Len(log[s])
      <4>1. \A i \in Server \ {s} : ~(state[s].next[i] > Len(log[s]))
        BY <1>1, <2>1 DEF AppendEntriesPanics
      <4>2. Len(log[s]) \in Nat
        BY DEF TypeOK
      <4> QED
        BY <3>2, <4>1, <4>2
    <3>4. AppendEntries(s, state[s].next) \in Seq(Message)
      BY <3>2, <3>3, AppendEntriesType
    <3> HIDE DEF beats
    <3> QED
      BY <2>1, <3>4, AppendEntriesSound
  <2>2. CASE s \notin beats /\ s \in elects
    <3>1. currentTerm[s] + 1 \in Nat
      BY DEF TypeOK
    <3>2. VoteRequests(s, currentTerm[s] + 1) \in Seq(Message)
      BY <3>1, VoteRequestsType
    <3> HIDE DEF beats, elects
    <3> QED
      BY <2>2, <3>2, VoteRequestsSound
  <2>3. CASE s \notin beats /\ s \notin elects
    <3> HIDE DEF beats, elects
    <3> QED
      BY <2>3
  <2> QED
    BY <2>1, <2>2, <2>3
<1>4. ASSUME NEW s \in Server
      PROVE  \E msgs \in Seq(Message) :
                /\ queue'[s] = queue[s] \o msgs
                /\ \A j \in DOMAIN msgs : /\ msgs[j].sender = s /\ msgs[j].receiver # s
                                          /\ ~IsGrant(msgs[j])
                /\ ~Heartbeats(s, ts) /\ ~TimesOut(s, ts) => msgs = <<>>
  <2>1. queue'[s] = queue[s] \o sent[s]
    <3> HIDE DEF sent
    <3> QED
      BY <1>2
  <2>2. ~Heartbeats(s, ts) /\ ~TimesOut(s, ts) => s \notin beats /\ s \notin elects
    OBVIOUS
  <2> HIDE DEF sent, beats, elects
  <2> QED
    BY <1>3, <2>1, <2>2
<1>5. ASSUME NEW s \in Server
      PROVE  IF TimesOut(s, ts)
             THEN state'[s] = Candidate({s}) /\ votedFor'[s] = s
             ELSE /\ state'[s] = state[s] /\ votedFor'[s] = votedFor[s]
                  /\ lastElection'[s] = lastElection[s]
  <2>1. s \in elects <=> TimesOut(s, ts)
    OBVIOUS
  <2> HIDE DEF elects, ts
  <2> QED
    BY <1>2, <2>1
<1> HIDE DEF sent, beats, elects
<1> QED
  BY <1>2, <1>4, <1>5

\* A tick keeps Election: the first election is everybody's.
LEMMA TickElection ==
    ASSUME ElectionInv, NEW delta \in Delta, Tick(delta), ~Panic
    PROVE  Election'
<1> DEFINE ts == now + delta
<1>1. TypeOK
  BY DEF ElectionInv
<1>2. now' = ts /\ crashes' = crashes /\ now \in Nat /\ ts \in Nat /\ now <= ts
  BY <1>1, TickEffect, TimeAssumption DEF TypeOK
<1>3. ASSUME NEW s \in Server PROVE SoundSeq(s, queue'[s])
  <2>1. PICK msgs \in Seq(Message) :
            /\ queue'[s] = queue[s] \o msgs
            /\ \A j \in DOMAIN msgs : /\ msgs[j].sender = s /\ msgs[j].receiver # s
                                      /\ ~IsGrant(msgs[j])
    BY <1>1, TickEffect
  <2>2. SoundSeq(s, msgs)
    BY <2>1 DEF SoundSeq, Sound
  <2>3. queue[s] \in Seq(Message) /\ SoundSeq(s, queue[s])
    BY <1>1 DEF TypeOK, ElectionInv, Election, QueueSound
  <2> QED
    BY <2>1, <2>2, <2>3, SoundAppend
<1>4. ASSUME NEW s \in Server
      PROVE  IF TimesOut(s, ts)
             THEN state'[s] = Candidate({s}) /\ votedFor'[s] = s
             ELSE /\ state'[s] = state[s] /\ votedFor'[s] = votedFor[s]
                  /\ lastElection'[s] = lastElection[s]
  BY <1>1, TickEffect
<1>5. QueueSound'
  BY <1>2, <1>3 DEF QueueSound, SoundSeq, Sound
<1>6. VotesFromCrashed'
  <2> SUFFICES ASSUME NEW s \in Server, state'[s].role = "Candidate", NEW v \in state'[s].granted
               PROVE  v = s \/ crashes[v] > 0
    BY <1>2 DEF VotesFromCrashed, IsCandidate
  <2>1. CASE TimesOut(s, ts)
    <3>1. state'[s] = Candidate({s})
      BY <1>4, <2>1
    <3>2. state'[s].granted = {s}
      BY <3>1 DEF Candidate
    <3> QED
      BY <3>2
  <2>2. CASE ~TimesOut(s, ts)
    BY <1>4, <2>2 DEF ElectionInv, Election, VotesFromCrashed, IsCandidate
  <2> QED
    BY <2>1, <2>2
<1>7. ASSUME now <= ElectionTimeout, NEW s \in Server
      PROVE  /\ queue[s] = <<>> /\ state[s] = Follower /\ lastElection[s] = 0
             /\ ~IsLeader(s)
  BY <1>7 DEF ElectionInv, Election, Quiet, IsLeader, Follower
<1>8. Quiet'
  <2> SUFFICES ASSUME ts <= ElectionTimeout, NEW s \in Server
               PROVE  queue'[s] = <<>> /\ state'[s] = Follower /\ lastElection'[s] = 0
    BY <1>2 DEF Quiet
  <2>1. now <= ElectionTimeout
    BY <1>2, TimeAssumption
  <2>2. ~TimesOut(s, ts) /\ ~Heartbeats(s, ts)
    BY <1>2, <1>7, <2>1, TimeAssumption DEF TimesOut, Heartbeats
  <2>3. queue'[s] = queue[s] \o <<>>
    BY <1>1, <2>2, TickEffect
  <2>4. queue'[s] = <<>>
    BY <1>7, <2>1, <2>3
  <2> QED
    BY <1>4, <1>7, <2>1, <2>2, <2>4
<1>9. VoteSpent'
  <2> SUFFICES ASSUME ts > ElectionTimeout, NEW s \in Server, crashes[s] = 0
               PROVE  votedFor'[s] = s
    BY <1>2 DEF VoteSpent
  <2>1. CASE now <= ElectionTimeout
    <3>1. TimesOut(s, ts)
      BY <1>2, <1>7, <2>1 DEF TimesOut
    <3> QED
      BY <1>4, <3>1
  <2>2. CASE now > ElectionTimeout
    <3>1. votedFor[s] = s
      BY <2>2 DEF ElectionInv, Election, VoteSpent
    <3> QED
      BY <1>4, <3>1
  <2> QED
    BY <1>2, <2>1, <2>2, TimeAssumption
<1>10. LeaderNeedsCrashes'
  <2> SUFFICES ASSUME NEW s \in Server, state'[s].role = "Leader"
               PROVE  Cardinality({t \in Server : crashes[t] > 0}) >= Quorum - 1
    BY <1>2 DEF LeaderNeedsCrashes, IsLeader
  <2>1. state'[s] # Candidate({s})
    BY DEF Candidate
  <2>2. IsLeader(s)
    BY <1>4, <2>1 DEF IsLeader
  <2> QED
    BY <2>2 DEF ElectionInv, Election, LeaderNeedsCrashes
<1> QED
  BY <1>5, <1>6, <1>8, <1>9, <1>10 DEF Election


\* A message that is handled has its type, is sound, and is not the first thing
\* to happen.
LEMMA FrontMessage ==
    ASSUME ElectionInv, NEW i \in Server, queue[i] # <<>>
    PROVE  LET m == Head(queue[i]) IN
           /\ m \in Message /\ m.sender = i /\ Sound(m.sender, m) /\ m.sender # m.receiver
           /\ now > ElectionTimeout
<1>1. TypeOK /\ QueueSound
  BY DEF ElectionInv, Election
<1>2. Head(queue[i]) \in Message
  BY <1>1, PopType
<1>3. Sound(i, Head(queue[i]))
  BY <1>1, SoundPop
<1>4. now > ElectionTimeout
  <2>1. ~(now <= ElectionTimeout)
    BY DEF ElectionInv, Election, Quiet
  <2> QED
    BY <1>1, <2>1, TimeAssumption DEF TypeOK
<1> QED
  BY <1>2, <1>3, <1>4 DEF Sound

\* Every event keeps Election.
LEMMA ElectionStep == ElectionInv /\ [Next]_vars => Election'
<1> SUFFICES ASSUME ElectionInv, [Next]_vars PROVE Election'
  OBVIOUS
<1>1. TypeOK /\ Election /\ QueueSound
  BY DEF ElectionInv, Election
<1>2. CASE Panic
  BY <1>1, <1>2, ElectionUnchanged DEF Panic, servers, timers
<1>3. ASSUME ~Panic, NEW delta \in Delta, Tick(delta) PROVE Election'
  BY <1>3, TickElection
<1>4. ASSUME ~Panic, NEW i \in Server, FetchMessage(i) PROVE Election'
  <2> DEFINE m == Head(queue[i])
             q == [queue EXCEPT ![i] = Tail(@)]
  <2>1. queue[i] # <<>> /\ HandleMessage(m, q, count - 1)
    BY <1>4 DEF FetchMessage
  <2>2. /\ m \in Message /\ Sound(m.sender, m) /\ m.sender # m.receiver
        /\ now > ElectionTimeout
    BY <2>1, FrontMessage
  <2>3. q \in [Server -> Seq(Message)] /\ \A s \in Server : SoundSeq(s, q[s])
    BY <1>1, <2>1, PopType, SoundPop
  <2>4. count - 1 \in Int
    BY <1>1 DEF TypeOK
  <2> HIDE DEF m, q
  <2>5. Handled(m, q, count - 1)
    BY <1>1, <1>4, <2>1, <2>2, <2>3, <2>4, HandleMessageHandled
  <2> QED
    BY <2>2, <2>3, <2>4, <2>5, HandledElection
<1>5. ASSUME ~Panic, NEW i \in Server, DuplicateMessage(i) PROVE Election'
  <2> DEFINE m == Head(queue[i])
  <2>1. queue[i] # <<>> /\ HandleMessage(m, queue, count)
    BY <1>5 DEF DuplicateMessage
  <2>2. /\ m \in Message /\ Sound(m.sender, m) /\ m.sender # m.receiver
        /\ now > ElectionTimeout
    BY <2>1, FrontMessage
  <2>3. /\ queue \in [Server -> Seq(Message)] /\ count \in Int
        /\ \A s \in Server : SoundSeq(s, queue[s])
    BY <1>1 DEF TypeOK, QueueSound
  <2> HIDE DEF m
  <2>4. Handled(m, queue, count)
    BY <1>1, <1>5, <2>1, <2>2, <2>3, HandleMessageHandled
  <2> QED
    BY <2>2, <2>3, <2>4, HandledElection
<1>6. ASSUME NEW i \in Server, DropMessage(i) PROVE Election'
  <2>1. /\ queue[i] # <<>> /\ queue' = [queue EXCEPT ![i] = Tail(@)]
        /\ UNCHANGED <<state, votedFor, lastElection, now, crashes>>
    BY <1>6 DEF DropMessage, servers, timers
  <2>2. QueueSound'
    <3>1. \A s \in Server : SoundSeq(s, queue'[s])
      BY <1>1, <2>1, SoundPop
    <3> QED
      BY <2>1, <3>1 DEF QueueSound, SoundSeq, Sound
  <2>3. VotesFromCrashed'
    BY <1>1, <2>1 DEF Election, VotesFromCrashed, IsCandidate
  <2>4. Quiet' /\ VoteSpent'
    BY <1>1, <2>1 DEF Election, Quiet, VoteSpent
  <2>5. LeaderNeedsCrashes'
    BY <1>1, <2>1 DEF Election, LeaderNeedsCrashes, IsLeader
  <2> QED
    BY <2>2, <2>3, <2>4, <2>5 DEF Election
<1>7. ASSUME NEW cmd \in Command, ClientCommand(cmd) PROVE Election'
  BY <1>1, <1>7, ElectionUnchanged DEF ClientCommand, timers
<1>8. ASSUME NEW s \in Server, ServerCrash(s) PROVE Election'
  <2>1. /\ queue' = queue /\ now' = now
        /\ state' = [state EXCEPT ![s] = Follower]
        /\ votedFor' = [votedFor EXCEPT ![s] = None]
        /\ lastElection' = [lastElection EXCEPT ![s] = 0]
        /\ crashes' = [crashes EXCEPT ![s] = @ + 1]
    BY <1>8 DEF ServerCrash, Become
  <2>2. \A t \in Server : crashes'[t] >= crashes[t] /\ crashes'[t] \in Nat /\ crashes[t] \in Nat
    BY <1>1, <2>1 DEF TypeOK
  <2>3. QueueSound'
    BY <1>1, <2>1, <2>2 DEF QueueSound, SoundSeq, Sound
  <2>4. VotesFromCrashed'
    <3> SUFFICES ASSUME NEW t \in Server, state'[t].role = "Candidate", NEW v \in state'[t].granted
                 PROVE  v = t \/ crashes'[v] > 0
      BY DEF VotesFromCrashed, IsCandidate
    <3>1. t # s /\ state'[t] = state[t]
      BY <1>1, <2>1 DEF TypeOK, Follower
    <3>2. v = t \/ crashes[v] > 0
      BY <1>1, <3>1 DEF Election, VotesFromCrashed, IsCandidate
    <3>3. v \in Server
      BY <1>1, <3>1, RoleFields DEF TypeOK
    <3> QED
      BY <2>2, <3>2, <3>3
  <2>5. Quiet'
    BY <1>1, <2>1 DEF TypeOK, Election, Quiet
  <2>6. VoteSpent'
    <3> SUFFICES ASSUME now > ElectionTimeout, NEW t \in Server, crashes'[t] = 0
                 PROVE  votedFor'[t] = t
      BY <2>1 DEF VoteSpent
    <3>1. t # s /\ crashes[t] = 0
      <4>1. crashes \in [Server -> Nat]
        BY <1>1 DEF TypeOK
      <4>2. crashes' = [crashes EXCEPT ![s] = @ + 1]
        BY <2>1
      <4> QED
        BY <4>1, <4>2
    <3>2. votedFor'[t] = votedFor[t]
      BY <1>1, <2>1, <3>1 DEF TypeOK
    <3> QED
      BY <1>1, <3>1, <3>2 DEF Election, VoteSpent
  <2>7. LeaderNeedsCrashes'
    <3> SUFFICES ASSUME NEW t \in Server, state'[t].role = "Leader"
                 PROVE  Cardinality({u \in Server : crashes'[u] > 0}) >= Quorum - 1
      BY DEF LeaderNeedsCrashes, IsLeader
    <3> DEFINE before == {u \in Server : crashes[u] > 0}
               after == {u \in Server : crashes'[u] > 0}
    <3>1. IsLeader(t)
      BY <1>1, <2>1 DEF TypeOK, IsLeader, Follower
    <3>2. Cardinality(before) >= Quorum - 1
      BY <1>1, <3>1 DEF Election, LeaderNeedsCrashes
    <3>3. before \subseteq after
      BY <2>2
    <3>4. IsFiniteSet(before) /\ IsFiniteSet(after)
      BY ServerFinite, FS_Subset
    <3> HIDE DEF before, after
    <3>5. Cardinality(before) <= Cardinality(after)
      BY <3>3, <3>4, FS_Subset
    <3>6. Cardinality(before) \in Nat /\ Cardinality(after) \in Nat /\ Quorum \in Nat
      BY <3>4, FS_CardinalityType, NServersAssumption DEF Quorum
    <3>7. Cardinality(after) >= Quorum - 1
      BY <3>2, <3>5, <3>6
    <3> QED
      BY <3>7 DEF after
  <2> QED
    BY <2>3, <2>4, <2>5, <2>6, <2>7 DEF Election
<1>9. CASE UNCHANGED vars
  BY <1>1, <1>9, ElectionUnchanged DEF vars, servers, timers
<1> QED
  BY <1>2, <1>3, <1>4, <1>5, <1>6, <1>7, <1>8, <1>9 DEF Next

\* The invariant every reachable state satisfies.
LEMMA ElectionCorrect == Spec => []ElectionInv
<1>1. Init => Election
  <2> SUFFICES ASSUME Init PROVE Election
    OBVIOUS
  <2>1. \A s \in Server : state[s] = Follower /\ queue[s] = <<>> /\ lastElection[s] = 0
    BY DEF Init
  <2>2. \A s \in Server : ~IsLeader(s) /\ ~IsCandidate(s)
    BY <2>1 DEF IsLeader, IsCandidate, Follower
  <2>3. QueueSound
    BY <2>1 DEF QueueSound, SoundSeq
  <2>4. ~(now > ElectionTimeout)
    BY TimeAssumption DEF Init
  <2> QED
    BY <2>1, <2>2, <2>3, <2>4
       DEF Election, VotesFromCrashed, Quiet, VoteSpent, LeaderNeedsCrashes
<1>2. Spec => []TypeOK
  BY TypeCorrect
<1>3. TypeOK /\ Election /\ [Next]_vars => Election'
  BY ElectionStep DEF ElectionInv
<1>4. TypeOK /\ Election <=> ElectionInv
  BY DEF ElectionInv
<1> QED
  BY <1>1, <1>2, <1>3, <1>4, PTL DEF Spec

\* Without crashes of all but one server of a quorum nobody becomes a leader:
\* every server votes for itself in the first tick past the timeout, and only
\* restart() ever clears voted_for (server.rs:69-72).
THEOREM LeaderTakesCrashes == Spec => []LeaderNeedsCrashes
<1>1. ElectionInv => LeaderNeedsCrashes
  BY DEF ElectionInv, Election
<1> QED
  BY <1>1, ElectionCorrect, PTL

\* Messages without a grant behind others without one.
LEMMA NoGrantAppend ==
    ASSUME NEW a \in Seq(Message), NEW b \in Seq(Message),
           \A j \in DOMAIN a : ~IsGrant(a[j]), \A j \in DOMAIN b : ~IsGrant(b[j])
    PROVE  \A j \in DOMAIN (a \o b) : ~IsGrant((a \o b)[j])
<1> SUFFICES ASSUME NEW j \in DOMAIN (a \o b) PROVE ~IsGrant((a \o b)[j])
  OBVIOUS
<1>1. j \in 1 .. Len(a) \/ j - Len(a) \in 1 .. Len(b)
  BY ConcatProperties
<1>2. CASE j \in 1 .. Len(a)
  BY <1>2, ConcatProperties
<1>3. CASE j - Len(a) \in 1 .. Len(b)
  <2>1. (a \o b)[j] = b[j - Len(a)]
    BY <1>3, ConcatProperties
  <2> QED
    BY <1>3, <2>1
<1> QED
  BY <1>1, <1>2, <1>3

\* What a stuck cluster does with a message.
LEMMA HandledStuck ==
    ASSUME ElectionInv, Stuck, NEW m \in Message, Sound(m.sender, m), ~IsGrant(m),
           NEW q \in [Server -> Seq(Message)], NEW c \in Int, Handled(m, q, c),
           \A s \in Server : \A j \in DOMAIN q[s] : ~IsGrant(q[s][j])
    PROVE  Stuck'
<1> DEFINE s == m.receiver
<1>1. s \in Server /\ m.sender \in Server /\ m.sender # s /\ s # None
  BY MessageFields, NoneAssumption DEF Sound, Server
<1>2. PICK msgs \in Seq(Message) : Push(s, msgs, q, c) /\ Sends(m, msgs)
  BY DEF Handled
<1>3. PICK st \in Role : Become(s, st) /\ Moves(m, st)
  BY DEF Handled
<1>4. /\ votedFor' = votedFor
      /\ queue' = [q EXCEPT ![s] = q[s] \o msgs]
      /\ state' = [state EXCEPT ![s] = st]
  BY <1>2, <1>3 DEF Handled, Push, Become
<1>5. \A t \in Server : ~IsLeader(t) /\ votedFor[t] = t
  BY DEF Stuck
<1>6. st.role # "Leader"
  BY <1>1, <1>3, <1>5 DEF Moves
<1>7. \A j \in DOMAIN msgs : ~IsGrant(msgs[j])
  BY <1>1, <1>2, <1>5 DEF Sends
<1>8. \A t \in Server : state'[t].role # "Leader"
  BY <1>4, <1>5, <1>6 DEF ElectionInv, TypeOK, IsLeader
<1>9. ASSUME NEW t \in Server, NEW j \in DOMAIN queue'[t] PROVE ~IsGrant(queue'[t][j])
  <2>1. CASE t # s
    <3>1. queue'[t] = q[t]
      BY <1>4, <2>1
    <3> QED
      BY <1>9, <3>1
  <2>2. CASE t = s
    <3>1. queue'[t] = q[s] \o msgs /\ q[s] \in Seq(Message)
      BY <1>1, <1>4, <2>2
    <3> QED
      BY <1>1, <1>7, <1>9, <3>1, NoGrantAppend
  <2> QED
    BY <2>1, <2>2
<1> QED
  BY <1>4, <1>5, <1>8, <1>9 DEF Stuck, Granted, IsLeader, IsGrant


\* A step without a crash leaves a stuck cluster stuck.
LEMMA StuckStep ==
    ElectionInv /\ [Next]_vars => (Stuck /\ crashes' = crashes => Stuck')
<1> SUFFICES ASSUME ElectionInv, [Next]_vars, Stuck, crashes' = crashes PROVE Stuck'
  OBVIOUS
<1>1. TypeOK /\ QueueSound
  BY DEF ElectionInv, Election
<1>2. \A s \in Server : /\ ~IsLeader(s) /\ votedFor[s] = s
                        /\ \A j \in DOMAIN queue[s] : ~IsGrant(queue[s][j])
  BY DEF Stuck, Granted, IsGrant
<1>3. ASSUME UNCHANGED <<queue, state, votedFor>> PROVE Stuck'
  BY <1>3 DEF Stuck, Granted, IsLeader
<1>4. CASE Panic
  BY <1>3, <1>4 DEF Panic, servers
<1>5. CASE UNCHANGED vars
  BY <1>3, <1>5 DEF vars, servers
<1>6. ASSUME ~Panic, NEW delta \in Delta, Tick(delta) PROVE Stuck'
  <2> SUFFICES ASSUME NEW s \in Server
               PROVE  /\ state'[s].role # "Leader" /\ votedFor'[s] = s
                      /\ \A j \in DOMAIN queue'[s] : ~IsGrant(queue'[s][j])
    BY DEF Stuck, Granted, IsGrant, IsLeader
  <2>1. PICK msgs \in Seq(Message) : /\ queue'[s] = queue[s] \o msgs
                                     /\ \A j \in DOMAIN msgs : ~IsGrant(msgs[j])
    BY <1>1, <1>6, TickEffect
  <2>2. queue[s] \in Seq(Message)
    BY <1>1 DEF TypeOK
  <2>3. \A j \in DOMAIN queue'[s] : ~IsGrant(queue'[s][j])
    BY <1>2, <2>1, <2>2, NoGrantAppend
  <2>4. \/ state'[s] = Candidate({s}) /\ votedFor'[s] = s
        \/ state'[s] = state[s] /\ votedFor'[s] = votedFor[s]
    BY <1>1, <1>6, TickEffect
  <2>5. Candidate({s}).role # "Leader"
    BY DEF Candidate
  <2> QED
    BY <1>2, <2>3, <2>4, <2>5 DEF IsLeader
<1>7. ASSUME NEW i \in Server, queue[i] # <<>>
      PROVE  /\ ~IsGrant(Head(queue[i]))
             /\ \A s \in Server : \A j \in DOMAIN [queue EXCEPT ![i] = Tail(@)][s] :
                    ~IsGrant([queue EXCEPT ![i] = Tail(@)][s][j])
  <2>1. queue[i] \in Seq(Message)
    BY <1>1 DEF TypeOK
  <2>2. ~IsGrant(Head(queue[i]))
    BY <1>2, <1>7, <2>1
  <2>3. \A j \in DOMAIN Tail(queue[i]) : ~IsGrant(Tail(queue[i])[j])
    BY <1>2, <1>7, <2>1
  <2> QED
    BY <1>1, <1>2, <2>2, <2>3 DEF TypeOK
<1>8. ASSUME ~Panic, NEW i \in Server, FetchMessage(i) PROVE Stuck'
  <2> DEFINE m == Head(queue[i])
             q == [queue EXCEPT ![i] = Tail(@)]
  <2>1. queue[i] # <<>> /\ HandleMessage(m, q, count - 1)
    BY <1>8 DEF FetchMessage
  <2>2. m \in Message /\ Sound(m.sender, m) /\ m.sender # m.receiver /\ ~IsGrant(m)
    BY <1>7, <2>1, FrontMessage
  <2>3. /\ q \in [Server -> Seq(Message)] /\ count - 1 \in Int
        /\ \A s \in Server : \A j \in DOMAIN q[s] : ~IsGrant(q[s][j])
    <3>1. count - 1 \in Int
      BY <1>1 DEF TypeOK
    <3>2. q \in [Server -> Seq(Message)]
      BY <1>1, <2>1, PopType
    <3> QED
      BY <1>7, <2>1, <3>1, <3>2
  <2> HIDE DEF m, q
  <2>4. Handled(m, q, count - 1)
    BY <1>1, <1>8, <2>1, <2>2, <2>3, HandleMessageHandled
  <2> QED
    BY <2>2, <2>3, <2>4, HandledStuck
<1>9. ASSUME ~Panic, NEW i \in Server, DuplicateMessage(i) PROVE Stuck'
  <2> DEFINE m == Head(queue[i])
  <2>1. queue[i] # <<>> /\ HandleMessage(m, queue, count)
    BY <1>9 DEF DuplicateMessage
  <2>2. m \in Message /\ Sound(m.sender, m) /\ m.sender # m.receiver /\ ~IsGrant(m)
    BY <1>7, <2>1, FrontMessage
  <2>3. queue \in [Server -> Seq(Message)] /\ count \in Int
    BY <1>1 DEF TypeOK
  <2> HIDE DEF m
  <2>4. Handled(m, queue, count)
    BY <1>1, <1>9, <2>1, <2>2, <2>3, HandleMessageHandled
  <2> QED
    BY <1>2, <2>2, <2>3, <2>4, HandledStuck
<1>10. ASSUME NEW i \in Server, DropMessage(i) PROVE Stuck'
  <2>1. /\ queue[i] # <<>> /\ queue' = [queue EXCEPT ![i] = Tail(@)]
        /\ UNCHANGED <<state, votedFor>>
    BY <1>10 DEF DropMessage, servers
  <2> QED
    BY <1>2, <1>7, <2>1 DEF Stuck, Granted, IsGrant, IsLeader
<1>11. ASSUME NEW cmd \in Command, ClientCommand(cmd) PROVE FALSE
  BY <1>2, <1>11 DEF ClientCommand
<1>12. ASSUME NEW s \in Server, ServerCrash(s) PROVE FALSE
  <2>1. crashes' = [crashes EXCEPT ![s] = @ + 1] /\ crashes \in [Server -> Nat]
    BY <1>1, <1>12 DEF ServerCrash, TypeOK
  <2>2. crashes'[s] = crashes[s] + 1 /\ crashes[s] \in Nat
    BY <2>1
  <2> QED
    BY <2>2
<1> QED
  BY <1>4, <1>5, <1>6, <1>8, <1>9, <1>10, <1>11, <1>12 DEF Next

\* A cluster without a leader in which every vote is spent and none is on its
\* way elects nobody, however often its servers start new elections, until one
\* of them loses voted_for in a restart.
THEOREM StaysStuck == Spec => StuckUntilCrash
<1>1. ElectionInv /\ [Next]_vars => [Stuck /\ crashes' = crashes => Stuck']_vars
  BY StuckStep
<1> QED
  BY <1>1, ElectionCorrect, PTL DEF Spec, StuckUntilCrash

(***************************************************************************)
(* Terms: those of log entries and messages, though a crash sets the term  *)
(* of a server back to 0, and the number of messages the dispatcher counts *)
(***************************************************************************)

(***************************************************************************)
(* The inductive invariant                                                 *)
(***************************************************************************)

\* A log that a server in term t may hold.
LogBound(l, t) == \A k \in DOMAIN l : l[k].term \in 1 .. t

\* An AppendEntries claims no later term for an entry than its own.
MessageBound(m) == m.mtype = "AppendEntriesRequest" =>
    m.prevLogTerm <= m.term /\ LogBound(m.entries, m.term)

MessagesBound(msgs) == \A j \in DOMAIN msgs : MessageBound(msgs[j])

\* Messages in the order of their terms, none of them later than t.
Ordered(msgs, t) == \A j \in DOMAIN msgs :
    /\ msgs[j].term <= t
    /\ \A k \in 1 .. j : msgs[k].term <= msgs[j].term

\* A candidate or leader has left term 0.
OfficeTerm == \A s \in Server : state[s].role # "Follower" => currentTerm[s] >= 1

Terms == EntryTermsBounded /\ TermsInOrder /\ OfficeTerm

TermsInv == ElectionInv /\ Terms

\* The two properties in terms of these operators.
LEMMA TermsParts ==
    ASSUME TypeOK
    PROVE  /\ EntryTermsBounded <=> \A s \in Server : /\ LogBound(log[s], currentTerm[s])
                                                     /\ MessagesBound(queue[s])
           /\ TermsInOrder <=>
                 \A s \in Server : crashes[s] = 0 => Ordered(queue[s], currentTerm[s])
  BY DEF EntryTermsBounded, TermsInOrder, LogBound, MessagesBound, MessageBound, Ordered

(***************************************************************************)
(* Logs and queues                                                         *)
(***************************************************************************)

LEMMA LogBoundGrow ==
    ASSUME NEW l, NEW t \in Nat, NEW u \in Nat, t <= u, LogBound(l, t)
    PROVE  LogBound(l, u)
  BY DEF LogBound

LEMMA LogBoundConcat ==
    ASSUME NEW a \in Seq(Entry), NEW b \in Seq(Entry), NEW t, LogBound(a, t), LogBound(b, t)
    PROVE  LogBound(a \o b, t)
<1> SUFFICES ASSUME NEW j \in DOMAIN (a \o b) PROVE (a \o b)[j].term \in 1 .. t
  BY DEF LogBound
<1>1. j \in 1 .. Len(a) \/ j - Len(a) \in 1 .. Len(b)
  BY ConcatProperties
<1>2. CASE j \in 1 .. Len(a)
  <2>1. (a \o b)[j] = a[j]
    BY <1>2, ConcatProperties
  <2> QED
    BY <1>2, <2>1 DEF LogBound
<1>3. CASE j - Len(a) \in 1 .. Len(b)
  <2>1. (a \o b)[j] = b[j - Len(a)]
    BY <1>3, ConcatProperties
  <2> QED
    BY <1>3, <2>1 DEF LogBound
<1> QED
  BY <1>1, <1>2, <1>3

LEMMA LogBoundSub ==
    ASSUME NEW l \in Seq(Entry), NEW t, LogBound(l, t),
           NEW i \in Nat, i >= 1, NEW j \in Int, j <= Len(l)
    PROVE  LogBound(SubSeq(l, i, j), t)
<1> DEFINE r == SubSeq(l, i, j)
<1>1. \A k \in i .. j : l[k] \in Entry
  <2>1. \A k \in i .. j : k \in 1 .. Len(l)
    OBVIOUS
  <2> QED
    BY <2>1
<1>2. /\ Len(r) = IF i <= j THEN j - i + 1 ELSE 0
      /\ r \in Seq(Entry)
      /\ \A k \in 1 .. j - i + 1 : r[k] = l[i + k - 1]
  BY <1>1, SubSeqProperties
<1> HIDE DEF r
<1> SUFFICES ASSUME NEW k \in DOMAIN r PROVE r[k].term \in 1 .. t
  BY DEF LogBound, r
<1>3. k \in 1 .. j - i + 1 /\ i + k - 1 \in 1 .. Len(l)
  BY <1>2
<1>4. \A n \in 1 .. Len(l) : l[n].term \in 1 .. t
  BY DEF LogBound
<1>5. r[k] = l[i + k - 1]
  BY <1>2, <1>3
<1> QED
  BY <1>3, <1>4, <1>5

LEMMA MessagesBoundConcat ==
    ASSUME NEW a \in Seq(Message), NEW b \in Seq(Message),
           MessagesBound(a), MessagesBound(b)
    PROVE  MessagesBound(a \o b)
<1> SUFFICES ASSUME NEW j \in DOMAIN (a \o b) PROVE MessageBound((a \o b)[j])
  BY DEF MessagesBound
<1>1. j \in 1 .. Len(a) \/ j - Len(a) \in 1 .. Len(b)
  BY ConcatProperties
<1>2. CASE j \in 1 .. Len(a)
  <2>1. (a \o b)[j] = a[j]
    BY <1>2, ConcatProperties
  <2> QED
    BY <1>2, <2>1 DEF MessagesBound
<1>3. CASE j - Len(a) \in 1 .. Len(b)
  <2>1. (a \o b)[j] = b[j - Len(a)]
    BY <1>3, ConcatProperties
  <2> QED
    BY <1>3, <2>1 DEF MessagesBound
<1> QED
  BY <1>1, <1>2, <1>3

\* Messages of term u behind others of at most that term.
LEMMA OrderedConcat ==
    ASSUME NEW a \in Seq(Message), NEW b \in Seq(Message), NEW t \in Nat, NEW u \in Nat,
           t <= u, Ordered(a, t), \A j \in DOMAIN b : b[j].term = u
    PROVE  Ordered(a \o b, u)
<1> DEFINE r == a \o b
<1>1. /\ r \in Seq(Message) /\ Len(r) = Len(a) + Len(b)
      /\ \A j \in 1 .. Len(a) : r[j] = a[j]
      /\ \A j \in Len(a) + 1 .. Len(r) : r[j] = b[j - Len(a)]
  BY ConcatProperties
<1> HIDE DEF r
<1>2. \A j \in 1 .. Len(a) : a[j].term \in Nat /\ a[j].term <= t
  <2>1. \A j \in 1 .. Len(a) : a[j] \in Message
    OBVIOUS
  <2> QED
    BY <2>1, MessageFields DEF Ordered
<1>3. \A j \in 1 .. Len(a) : r[j].term = a[j].term /\ r[j].term <= u
  BY <1>1, <1>2
<1>4. \A j \in Len(a) + 1 .. Len(r) : r[j].term = u
  <2>1. \A j \in Len(a) + 1 .. Len(r) : j - Len(a) \in 1 .. Len(b)
    BY <1>1
  <2> QED
    BY <1>1, <2>1
<1> SUFFICES ASSUME NEW j \in 1 .. Len(r)
             PROVE  r[j].term <= u /\ \A k \in 1 .. j : r[k].term <= r[j].term
  BY <1>1 DEF Ordered, r
<1>5. CASE j \in 1 .. Len(a)
  <2>1. \A k \in 1 .. j : k \in 1 .. Len(a) /\ a[k].term <= a[j].term
    BY <1>5 DEF Ordered
  <2> QED
    BY <1>3, <1>5, <2>1
<1>6. CASE j \notin 1 .. Len(a)
  <2>1. j \in Len(a) + 1 .. Len(r) /\ r[j].term = u
    BY <1>1, <1>4, <1>6
  <2>2. \A k \in 1 .. j : k \in 1 .. Len(a) \/ k \in Len(a) + 1 .. Len(r)
    BY <1>1
  <2> QED
    BY <1>3, <1>4, <2>1, <2>2
<1> QED
  BY <1>5, <1>6

\* What is behind the front of a queue is bounded and in order if the queue is.
LEMMA TermsPop ==
    ASSUME NEW a \in Seq(Message), a # <<>>
    PROVE  /\ MessagesBound(a) => MessageBound(Head(a)) /\ MessagesBound(Tail(a))
           /\ \A t \in Nat : Ordered(a, t) => Ordered(Tail(a), t)
<1> DEFINE r == Tail(a)
<1>1. /\ r \in Seq(Message) /\ Len(r) = Len(a) - 1 /\ Head(a) = a[1]
      /\ \A j \in 1 .. Len(r) : r[j] = a[j + 1] /\ j + 1 \in 1 .. Len(a)
      /\ 1 \in 1 .. Len(a)
  BY HeadTailProperties
<1> HIDE DEF r
<1>2. ASSUME MessagesBound(a)
      PROVE  MessageBound(Head(a)) /\ MessagesBound(r)
  <2>1. \A j \in 1 .. Len(a) : MessageBound(a[j])
    BY <1>2 DEF MessagesBound
  <2>2. \A j \in 1 .. Len(r) : MessageBound(r[j])
    BY <1>1, <2>1
  <2> QED
    BY <1>1, <2>1, <2>2 DEF MessagesBound
<1>3. ASSUME NEW t \in Nat, Ordered(a, t)
      PROVE  Ordered(r, t)
  <2>1. \A j \in 1 .. Len(a) :
            a[j].term <= t /\ \A k \in 1 .. j : a[k].term <= a[j].term
    BY <1>3 DEF Ordered
  <2> SUFFICES ASSUME NEW j \in 1 .. Len(r)
               PROVE  r[j].term <= t /\ \A k \in 1 .. j : r[k].term <= r[j].term
    BY <1>1 DEF Ordered
  <2>2. \A k \in 1 .. j : k \in 1 .. Len(r) /\ k + 1 \in 1 .. j + 1
    BY <1>1
  <2>3. r[j] = a[j + 1] /\ \A k \in 1 .. j : r[k] = a[k + 1]
    BY <1>1, <2>2
  <2>4. a[j + 1].term <= t /\ \A k \in 1 .. j + 1 : a[k].term <= a[j + 1].term
    BY <1>1, <2>1
  <2> QED
    BY <2>2, <2>3, <2>4
<1> QED
  BY <1>2, <1>3 DEF r

(***************************************************************************)
(* What servers send, and what their handlers do to terms                  *)
(***************************************************************************)

LEMMA AppendEntriesTerms ==
    ASSUME TypeOK, NEW s \in Server, LogBound(log[s], currentTerm[s]),
           NEW next \in [Server -> Nat], \A i \in Server \ {s} : next[i] <= Len(log[s])
    PROVE  LET msgs == AppendEntries(s, next) IN
           \A j \in DOMAIN msgs : msgs[j].term = currentTerm[s] /\ MessageBound(msgs[j])
<1> DEFINE N(k) == next[Others(s)[k]]
           M(k) == [mtype |-> "AppendEntriesRequest", sender |-> s, receiver |-> Others(s)[k],
                    term |-> currentTerm[s], prevLogIndex |-> N(k),
                    prevLogTerm |-> IF N(k) = 0 THEN 0 ELSE log[s][N(k)].term,
                    entries |-> SubSeq(log[s], N(k) + 1, Len(log[s])),
                    leaderCommit |-> commitIndex[s]]
<1>1. AppendEntries(s, next) = [k \in 1 .. NServers - 1 |-> M(k)]
  BY DEF AppendEntries
<1>2. /\ log[s] \in Seq(Entry) /\ Len(log[s]) \in Nat /\ Len(log[s]) \in Int
      /\ currentTerm[s] \in Nat
  BY DEF TypeOK
<1>3. ASSUME NEW k \in 1 .. NServers - 1
      PROVE  M(k).term = currentTerm[s] /\ MessageBound(M(k))
  <2>1. N(k) \in Nat /\ N(k) <= Len(log[s])
    BY OthersType
  <2>2. LogBound(SubSeq(log[s], N(k) + 1, Len(log[s])), currentTerm[s])
    <3>1. N(k) + 1 \in Nat /\ N(k) + 1 >= 1
      BY <2>1
    <3> HIDE DEF N
    <3> QED
      BY <1>2, <3>1, LogBoundSub
  <2>3. (IF N(k) = 0 THEN 0 ELSE log[s][N(k)].term) <= currentTerm[s]
    <3>1. \A n \in 1 .. Len(log[s]) : log[s][n].term \in 1 .. currentTerm[s]
      BY <1>2 DEF LogBound
    <3> HIDE DEF N
    <3> QED
      BY <1>2, <2>1, <3>1
  <2> HIDE DEF N
  <2> QED
    BY <2>2, <2>3 DEF MessageBound
<1> HIDE DEF M
<1> QED
  BY <1>1, <1>3

\* What handling m does to the terms of its receiver, of its log and of what it
\* sends.
TermsHandled(m, q, c) == LET s == m.receiver IN
    /\ currentTerm' = [currentTerm EXCEPT ![s] = Term(s, m)]
    /\ \E msgs \in Seq(Message) :
          /\ Push(s, msgs, q, c)
          /\ \A j \in DOMAIN msgs : msgs[j].term = Term(s, m) /\ MessageBound(msgs[j])
    /\ \E l \in Seq(Entry) : log' = [log EXCEPT ![s] = l] /\ LogBound(l, Term(s, m))

\* Every handler does no more to terms than TermsHandled says.
LEMMA HandleMessageTerms ==
    ASSUME TypeOK, NEW m \in Message, MessageBound(m),
           LogBound(log[m.receiver], currentTerm[m.receiver]),
           NEW q \in [Server -> Seq(Message)], NEW c \in Int,
           HandleMessage(m, q, c), ~Panic
    PROVE  TermsHandled(m, q, c)
<1> DEFINE s == m.receiver
           t == Term(s, m)
<1>1. s \in Server /\ m.sender \in Server /\ m.term \in Nat
  BY MessageFields
<1>2. /\ currentTerm' = [currentTerm EXCEPT ![s] = t]
      /\ \/ OnAppendEntriesRequest(s, m, q, c)
         \/ OnAppendEntriesResponse(s, m, q, c)
         \/ OnRequestVoteRequest(s, m, q, c)
         \/ OnRequestVoteResponse(s, m, q, c)
         \/ OnLateResponse(s, m, q, c)
  BY DEF HandleMessage
<1>3. /\ t \in Nat /\ currentTerm[s] \in Nat /\ currentTerm[s] <= t /\ m.term <= t
      /\ log[s] \in Seq(Entry) /\ log \in [Server -> Seq(Entry)]
  <2>1. currentTerm \in [Server -> Nat] /\ log \in [Server -> Seq(Entry)]
    BY DEF TypeOK
  <2>2. currentTerm[s] \in Nat /\ log[s] \in Seq(Entry)
    BY <1>1, <2>1
  <2> HIDE DEF s
  <2> QED
    BY <1>1, <2>1, <2>2 DEF Term, s
<1>4. LogBound(log[s], t)
  BY <1>3, LogBoundGrow
<1> HIDE DEF s, t
<1>5. ASSUME NEW msgs \in Seq(Message), Push(s, msgs, q, c),
             \A j \in DOMAIN msgs : msgs[j].term = t /\ MessageBound(msgs[j]),
             NEW l \in Seq(Entry), log' = [log EXCEPT ![s] = l], LogBound(l, t)
      PROVE  TermsHandled(m, q, c)
  BY <1>2, <1>5 DEF TermsHandled, s, t
<1>6. UNCHANGED log => log' = [log EXCEPT ![s] = log[s]]
  BY <1>3
<1>7. ASSUME NEW r \in Message, r.term = t, r.mtype # "AppendEntriesRequest"
      PROVE  /\ <<r>> \in Seq(Message)
             /\ \A j \in DOMAIN <<r>> : <<r>>[j].term = t /\ MessageBound(<<r>>[j])
  BY <1>7 DEF MessageBound
<1>8. CASE OnAppendEntriesRequest(s, m, q, c)
  <2> DEFINE prev == m.prevLogIndex
             extended == log[s] \o m.entries
             r(success, matchIndex) == AppendResponse(s, m, t, success, matchIndex)
             Reply(success, matchIndex) == Push(s, <<r(success, matchIndex)>>, q, c)
  <2>1. /\ m.mtype = "AppendEntriesRequest" /\ prev \in Nat /\ m.entries \in Seq(Entry)
        /\ LogBound(m.entries, m.term)
    BY <1>8, MessageFields DEF OnAppendEntriesRequest, MessageBound
  <2>2. ASSUME NEW success \in BOOLEAN, NEW matchIndex \in Nat
        PROVE  /\ r(success, matchIndex) \in Message /\ r(success, matchIndex).term = t
               /\ r(success, matchIndex).mtype # "AppendEntriesRequest"
    BY <1>1, <1>3 DEF AppendResponse, Message
  <2>3. extended \in Seq(Entry) /\ Len(extended) \in Nat /\ LogBound(extended, t)
    <3>1. LogBound(m.entries, t)
      BY <1>1, <1>3, <2>1, LogBoundGrow
    <3>2. extended \in Seq(Entry) /\ LogBound(extended, t)
      BY <1>3, <1>4, <2>1, <3>1, ConcatProperties, LogBoundConcat
    <3> HIDE DEF extended
    <3> QED
      BY <3>2
  <2>4. CASE Reply(FALSE, 0) /\ UNCHANGED log
    <3>1. r(FALSE, 0) \in Message /\ r(FALSE, 0).term = t
          /\ r(FALSE, 0).mtype # "AppendEntriesRequest"
      BY <2>2
    <3> HIDE DEF r
    <3> QED
      BY <1>3, <1>4, <1>5, <1>6, <1>7, <2>4, <3>1
  <2>5. CASE /\ prev <= Len(log[s])
             /\ log' = [log EXCEPT ![s] = SubSeq(@, 1, prev - 1)]
             /\ Reply(FALSE, 0)
    <3> DEFINE l == SubSeq(log[s], 1, prev - 1)
    <3>1. r(FALSE, 0) \in Message /\ r(FALSE, 0).term = t
          /\ r(FALSE, 0).mtype # "AppendEntriesRequest"
      BY <2>2
    <3>2. l \in Seq(Entry) /\ LogBound(l, t)
      <4>1. prev - 1 \in Int /\ prev - 1 <= Len(log[s])
        BY <1>3, <2>1, <2>5
      <4>2. \A k \in 1 .. prev - 1 : log[s][k] \in Entry
        <5>1. \A k \in 1 .. prev - 1 : k \in 1 .. Len(log[s])
          BY <1>3, <4>1
        <5> QED
          BY <1>3, <5>1
      <4> QED
        BY <1>3, <1>4, <4>1, <4>2, SubSeqProperties, LogBoundSub
    <3>3. log' = [log EXCEPT ![s] = l]
      BY <2>5
    <3> HIDE DEF r, l
    <3> QED
      BY <1>5, <1>7, <2>5, <3>1, <3>2, <3>3
  <2>6. CASE log' = [log EXCEPT ![s] = extended] /\ Reply(TRUE, Len(extended))
    <3>1. /\ r(TRUE, Len(extended)) \in Message /\ r(TRUE, Len(extended)).term = t
          /\ r(TRUE, Len(extended)).mtype # "AppendEntriesRequest"
      BY <2>2, <2>3
    <3> HIDE DEF r, extended
    <3> QED
      BY <1>5, <1>7, <2>3, <2>6, <3>1
  <2> QED
    BY <1>8, <2>4, <2>5, <2>6 DEF OnAppendEntriesRequest, t
<1>9. CASE Push(s, <<>>, q, c) /\ UNCHANGED log
  <2>1. <<>> \in Seq(Message) /\ DOMAIN <<>> = {}
    OBVIOUS
  <2> QED
    BY <1>3, <1>4, <1>5, <1>6, <1>9, <2>1
<1>10. CASE OnRequestVoteRequest(s, m, q, c)
  <2> DEFINE r == VoteResponse(s, m, t, Grants(s, m))
  <2>1. Grants(s, m) \in BOOLEAN
    BY DEF Grants
  <2>2. r \in Message /\ r.term = t /\ r.mtype # "AppendEntriesRequest"
    BY <1>1, <1>3, <2>1 DEF VoteResponse, Message
  <2>3. Push(s, <<r>>, q, c) /\ UNCHANGED log
    BY <1>10 DEF OnRequestVoteRequest, t
  <2> HIDE DEF r
  <2> QED
    BY <1>3, <1>4, <1>5, <1>6, <1>7, <2>2, <2>3
<1>11. CASE OnRequestVoteResponse(s, m, q, c)
  <2> DEFINE next == [i \in Server |-> Len(log[s])]
  <2>1. t = currentTerm[s]
    BY <1>11 DEF OnRequestVoteResponse, State, Follower, Term, t
  <2>2. next \in [Server -> Nat] /\ \A i \in Server \ {s} : next[i] <= Len(log[s])
    BY <1>3
  <2>3. \/ Push(s, AppendEntries(s, next), q, c)
        \/ Push(s, <<>>, q, c)
    BY <1>11 DEF OnRequestVoteResponse
  <2>4. UNCHANGED log
    BY <1>11 DEF OnRequestVoteResponse
  <2> HIDE DEF next
  <2>5. AppendEntries(s, next) \in Seq(Message)
    BY <1>1, <2>2, AppendEntriesType
  <2>6. \A j \in DOMAIN AppendEntries(s, next) :
            /\ AppendEntries(s, next)[j].term = t
            /\ MessageBound(AppendEntries(s, next)[j])
    BY <1>1, <1>4, <2>1, <2>2, AppendEntriesTerms
  <2> QED
    BY <1>3, <1>4, <1>5, <1>6, <1>9, <2>3, <2>4, <2>5, <2>6
<1> QED
  BY <1>2, <1>8, <1>9, <1>10, <1>11 DEF OnAppendEntriesResponse, OnLateResponse

(***************************************************************************)
(* The invariant is inductive                                              *)
(***************************************************************************)

\* What Terms says of the present state.
LEMMA TermsNow ==
    ASSUME TermsInv
    PROVE  /\ TypeOK /\ ElectionInv /\ OfficeTerm
           /\ \A s \in Server :
                /\ LogBound(log[s], currentTerm[s]) /\ MessagesBound(queue[s])
                /\ crashes[s] = 0 => Ordered(queue[s], currentTerm[s])
                /\ currentTerm[s] \in Nat /\ log[s] \in Seq(Entry) /\ queue[s] \in Seq(Message)
  BY TermsParts DEF TermsInv, Terms, ElectionInv, TypeOK

\* What an event does to the terms of server s, whose queue held or still holds
\* q, and whose term was t.
TermsMove(s, q, t) ==
    /\ MessagesBound(q) /\ (crashes[s] = 0 => Ordered(q, t))
    /\ t <= currentTerm'[s]
    /\ LogBound(log'[s], currentTerm'[s])
    /\ state'[s].role # "Follower" => currentTerm'[s] >= 1
    /\ \/ queue'[s] = q /\ currentTerm'[s] = t
       \/ \E msgs \in Seq(Message) :
             /\ queue'[s] = q \o msgs
             /\ \A j \in DOMAIN msgs : msgs[j].term = currentTerm'[s] /\ MessageBound(msgs[j])

\* Each server adds messages of its new term to what its queue held or still
\* holds, and keeps a log of that term: then Terms holds again.
LEMMA TermsAgain ==
    ASSUME TypeOK', crashes' = crashes,
           NEW q \in [Server -> Seq(Message)], NEW t \in [Server -> Nat],
           \A s \in Server : TermsMove(s, q[s], t[s])
    PROVE  Terms'
<1>1. ASSUME NEW s \in Server
      PROVE  /\ MessagesBound(queue'[s])
             /\ crashes'[s] = 0 => Ordered(queue'[s], currentTerm'[s])
  <2> USE DEF TermsMove
  <2>1. /\ MessagesBound(q[s]) /\ (crashes[s] = 0 => Ordered(q[s], t[s]))
        /\ t[s] <= currentTerm'[s] /\ t[s] \in Nat /\ currentTerm'[s] \in Nat
        /\ q[s] \in Seq(Message)
    BY DEF TypeOK
  <2>2. CASE queue'[s] = q[s] /\ currentTerm'[s] = t[s]
    BY <2>1, <2>2
  <2>3. ASSUME NEW msgs \in Seq(Message), queue'[s] = q[s] \o msgs,
               \A j \in DOMAIN msgs : /\ msgs[j].term = currentTerm'[s]
                                      /\ MessageBound(msgs[j])
        PROVE  /\ MessagesBound(queue'[s])
               /\ crashes'[s] = 0 => Ordered(queue'[s], currentTerm'[s])
    <3>1. MessagesBound(msgs)
      BY <2>3 DEF MessagesBound
    <3>2. MessagesBound(q[s] \o msgs)
      BY <2>1, <3>1, MessagesBoundConcat
    <3>3. ASSUME crashes[s] = 0 PROVE Ordered(q[s] \o msgs, currentTerm'[s])
      <4>1. Ordered(q[s], t[s])
        BY <2>1, <3>3
      <4>2. \A j \in DOMAIN msgs : msgs[j].term = currentTerm'[s]
        BY <2>3
      <4> QED
        BY <2>1, <4>1, <4>2, OrderedConcat
    <3> QED
      BY <2>3, <3>2, <3>3
  <2> QED
    BY <2>2, <2>3
<1>2. EntryTermsBounded' /\ TermsInOrder'
  <2>1. /\ EntryTermsBounded' <=> \A s \in Server : /\ LogBound(log'[s], currentTerm'[s])
                                                   /\ MessagesBound(queue'[s])
        /\ TermsInOrder' <=>
              \A s \in Server : crashes'[s] = 0 => Ordered(queue'[s], currentTerm'[s])
    BY DEF TypeOK, EntryTermsBounded, TermsInOrder, LogBound, MessagesBound, MessageBound,
           Ordered
  <2>2. \A s \in Server : LogBound(log'[s], currentTerm'[s])
    BY DEF TermsMove
  <2> QED
    BY <1>1, <2>1, <2>2
<1>3. OfficeTerm'
  BY DEF OfficeTerm, TermsMove
<1> QED
  BY <1>2, <1>3 DEF Terms

\* A handled message keeps Terms.
LEMMA HandledTerms ==
    ASSUME TermsInv, TypeOK', NEW m \in Message,
           NEW q \in [Server -> Seq(Message)],
           \A s \in Server : /\ MessagesBound(q[s])
                             /\ crashes[s] = 0 => Ordered(q[s], currentTerm[s]),
           NEW c \in Int, Handled(m, q, c), TermsHandled(m, q, c)
    PROVE  Terms'
<1> DEFINE s == m.receiver
           t == Term(s, m)
<1>1. s \in Server /\ m.term \in Nat /\ crashes' = crashes
  BY MessageFields DEF Handled
<1>2. /\ currentTerm \in [Server -> Nat] /\ state \in [Server -> Role]
      /\ log \in [Server -> Seq(Entry)] /\ OfficeTerm
      /\ \A r \in Server : LogBound(log[r], currentTerm[r])
  BY TermsNow DEF TypeOK
<1>3. currentTerm[s] <= t
  BY <1>1, <1>2 DEF Term
<1>4. PICK msgs \in Seq(Message) :
         /\ Push(s, msgs, q, c)
         /\ \A j \in DOMAIN msgs : msgs[j].term = t /\ MessageBound(msgs[j])
  BY DEF TermsHandled
<1>5. PICK l \in Seq(Entry) : log' = [log EXCEPT ![s] = l] /\ LogBound(l, t)
  BY DEF TermsHandled
<1>6. PICK st \in Role : Become(s, st) /\ Moves(m, st)
  BY DEF Handled
<1>7. currentTerm' = [currentTerm EXCEPT ![s] = t]
  BY DEF TermsHandled
<1>8. st.role # "Follower" => currentTerm[s] >= 1
  BY <1>1, <1>2, <1>6, RoleFields DEF Moves, OfficeTerm, IsLeader, IsCandidate
<1>9. t \in Nat
  BY <1>1, <1>2 DEF Term
<1>10. /\ queue' = [q EXCEPT ![s] = q[s] \o msgs]
       /\ state' = [state EXCEPT ![s] = st]
  BY <1>4, <1>6 DEF Push, Become
<1> HIDE DEF s, t
<1>11. ASSUME NEW r \in Server
       PROVE  /\ currentTerm[r] <= currentTerm'[r]
              /\ LogBound(log'[r], currentTerm'[r])
              /\ state'[r].role # "Follower" => currentTerm'[r] >= 1
              /\ \/ queue'[r] = q[r] /\ currentTerm'[r] = currentTerm[r]
                 \/ /\ queue'[r] = q[r] \o msgs
                    /\ \A j \in DOMAIN msgs : /\ msgs[j].term = currentTerm'[r]
                                              /\ MessageBound(msgs[j])
  <2>1. CASE r = s
    BY <1>1, <1>2, <1>3, <1>4, <1>5, <1>7, <1>8, <1>9, <1>10, <2>1
  <2>2. CASE r # s
    BY <1>1, <1>2, <1>5, <1>7, <1>10, <2>2 DEF OfficeTerm
  <2> QED
    BY <2>1, <2>2
<1>12. \A r \in Server : TermsMove(r, q[r], currentTerm[r])
  BY <1>11 DEF TermsMove
<1> QED
  BY <1>1, <1>2, <1>12, TermsAgain

\* A tick keeps Terms: heartbeats carry the sender's term, vote requests the
\* one it has just begun.
LEMMA TickTerms ==
    ASSUME TermsInv, TypeOK', NEW delta \in Delta, Tick(delta), ~Panic
    PROVE  Terms'
<1> DEFINE ts == now + delta
           beats == {s \in Server : Heartbeats(s, ts)}
           elects == {s \in Server : TimesOut(s, ts)}
           sent == [s \in Server |-> IF s \in beats THEN AppendEntries(s, state[s].next)
                                     ELSE IF s \in elects THEN VoteRequests(s, currentTerm[s] + 1)
                                     ELSE <<>>]
<1>1. /\ TypeOK /\ OfficeTerm
      /\ \A s \in Server : /\ LogBound(log[s], currentTerm[s]) /\ MessagesBound(queue[s])
                           /\ crashes[s] = 0 => Ordered(queue[s], currentTerm[s])
                           /\ currentTerm[s] \in Nat
  BY TermsNow
<1>2. ~ \E s \in beats : AppendEntriesPanics(s)
  BY DEF Tick
<1>3. /\ currentTerm' = [s \in Server |-> currentTerm[s] + (IF s \in elects THEN 1 ELSE 0)]
      /\ state' = [s \in Server |-> IF s \in elects THEN Candidate({s}) ELSE state[s]]
      /\ queue' = [s \in Server |-> queue[s] \o sent[s]]
      /\ log' = log /\ crashes' = crashes
  BY DEF Tick
<1>4. ASSUME NEW s \in Server
      PROVE  /\ sent[s] \in Seq(Message)
             /\ \A j \in DOMAIN sent[s] : /\ sent[s][j].term = currentTerm'[s]
                                          /\ MessageBound(sent[s][j])
  <2>1. CASE s \in beats
    <3>1. state[s] \in Role /\ state[s].role = "Leader"
      BY <1>1, <2>1 DEF TypeOK, Heartbeats, IsLeader
    <3>2. state[s].next \in [Server -> Nat]
      BY <3>1, RoleFields
    <3>3. \A i \in Server \ {s} : state[s].next[i] <= Len(log[s])
      <4>1. \A i \in Server \ {s} : ~(state[s].next[i] > Len(log[s]))
        BY <1>2, <2>1 DEF AppendEntriesPanics
      <4>2. Len(log[s]) \in Nat
        BY <1>1 DEF TypeOK
      <4> QED
        BY <3>2, <4>1, <4>2
    <3>4. s \notin elects
      BY <2>1 DEF Heartbeats, TimesOut
    <3>5. currentTerm'[s] = currentTerm[s]
      <4> HIDE DEF elects
      <4> QED
        BY <1>1, <1>3, <3>4
    <3>6. /\ AppendEntries(s, state[s].next) \in Seq(Message)
          /\ \A j \in DOMAIN AppendEntries(s, state[s].next) :
                /\ AppendEntries(s, state[s].next)[j].term = currentTerm[s]
                /\ MessageBound(AppendEntries(s, state[s].next)[j])
      BY <1>1, <3>2, <3>3, AppendEntriesType, AppendEntriesTerms
    <3> HIDE DEF beats
    <3> QED
      BY <2>1, <3>5, <3>6
  <2>2. CASE s \notin beats /\ s \in elects
    <3>1. currentTerm[s] + 1 \in Nat
      BY <1>1
    <3>2. currentTerm'[s] = currentTerm[s] + 1
      <4> HIDE DEF elects
      <4> QED
        BY <1>3, <2>2
    <3>3. VoteRequests(s, currentTerm[s] + 1) \in Seq(Message)
      BY <1>1, <3>1, VoteRequestsType
    <3>4. \A j \in DOMAIN VoteRequests(s, currentTerm[s] + 1) :
              /\ VoteRequests(s, currentTerm[s] + 1)[j].term = currentTerm[s] + 1
              /\ MessageBound(VoteRequests(s, currentTerm[s] + 1)[j])
      BY DEF VoteRequests, MessageBound
    <3> HIDE DEF beats, elects
    <3> QED
      BY <2>2, <3>2, <3>3, <3>4
  <2>3. CASE s \notin beats /\ s \notin elects
    <3> HIDE DEF beats, elects
    <3> QED
      BY <2>3
  <2> QED
    BY <2>1, <2>2, <2>3
<1> HIDE DEF sent, beats, elects
<1>5. ASSUME NEW s \in Server
      PROVE  /\ currentTerm[s] <= currentTerm'[s]
             /\ LogBound(log'[s], currentTerm'[s])
             /\ state'[s].role # "Follower" => currentTerm'[s] >= 1
             /\ queue'[s] = queue[s] \o sent[s]
  <2>1. currentTerm'[s] = currentTerm[s] + (IF s \in elects THEN 1 ELSE 0)
        /\ currentTerm[s] <= currentTerm'[s] /\ currentTerm'[s] \in Nat
    BY <1>1, <1>3
  <2>2. LogBound(log'[s], currentTerm'[s])
    BY <1>1, <1>3, <2>1, LogBoundGrow
  <2>3. state'[s].role # "Follower" => currentTerm'[s] >= 1
    BY <1>1, <1>3, <2>1 DEF OfficeTerm
  <2> QED
    BY <1>3, <2>1, <2>2, <2>3
<1>6. queue \in [Server -> Seq(Message)] /\ currentTerm \in [Server -> Nat]
  BY <1>1 DEF TypeOK
<1>7. ASSUME NEW s \in Server PROVE TermsMove(s, queue[s], currentTerm[s])
  BY <1>1, <1>4, <1>5 DEF TermsMove
<1> QED
  BY <1>3, <1>6, <1>7, TermsAgain

\* Every event keeps Terms.
LEMMA TermsStep == TermsInv /\ TypeOK' /\ [Next]_vars => Terms'
<1> SUFFICES ASSUME TermsInv, TypeOK', [Next]_vars PROVE Terms'
  OBVIOUS
<1>1. /\ TypeOK /\ ElectionInv /\ OfficeTerm
      /\ \A s \in Server :
           /\ LogBound(log[s], currentTerm[s]) /\ MessagesBound(queue[s])
           /\ crashes[s] = 0 => Ordered(queue[s], currentTerm[s])
           /\ currentTerm[s] \in Nat /\ log[s] \in Seq(Entry) /\ queue[s] \in Seq(Message)
  BY TermsNow
<1>2. queue \in [Server -> Seq(Message)] /\ currentTerm \in [Server -> Nat]
  BY <1>1 DEF TypeOK
<1>3. ASSUME UNCHANGED <<currentTerm, log, queue, state, crashes>> PROVE Terms'
  BY <1>3 DEF TermsInv, Terms, EntryTermsBounded, TermsInOrder, OfficeTerm
<1>4. CASE Panic
  BY <1>3, <1>4 DEF Panic, servers
<1>5. CASE UNCHANGED vars
  BY <1>3, <1>5 DEF vars, servers
<1>6. ASSUME ~Panic, NEW delta \in Delta, Tick(delta) PROVE Terms'
  BY <1>6, TickTerms
<1>7. ASSUME NEW i \in Server, queue[i] # <<>>
      PROVE  /\ MessageBound(Head(queue[i])) /\ MessagesBound(Tail(queue[i]))
             /\ crashes[i] = 0 => Ordered(Tail(queue[i]), currentTerm[i])
             /\ [queue EXCEPT ![i] = Tail(@)] \in [Server -> Seq(Message)]
             /\ \A s \in Server :
                  /\ MessagesBound([queue EXCEPT ![i] = Tail(@)][s])
                  /\ crashes[s] = 0 => Ordered([queue EXCEPT ![i] = Tail(@)][s], currentTerm[s])
  <2> DEFINE r == Tail(queue[i])
             q == [queue EXCEPT ![i] = r]
  <2>1. MessageBound(Head(queue[i])) /\ MessagesBound(r)
    BY <1>1, <1>7, TermsPop
  <2>2. crashes[i] = 0 => Ordered(r, currentTerm[i])
    BY <1>1, <1>7, TermsPop
  <2>3. q \in [Server -> Seq(Message)]
    BY <1>1, <1>7, PopType
  <2> HIDE DEF r
  <2>4. q[i] = r /\ \A s \in Server \ {i} : q[s] = queue[s]
    BY <1>2
  <2> HIDE DEF q
  <2>5. \A s \in Server : /\ MessagesBound(q[s])
                          /\ crashes[s] = 0 => Ordered(q[s], currentTerm[s])
    BY <1>1, <2>1, <2>2, <2>4
  <2> QED
    BY <2>1, <2>2, <2>3, <2>5 DEF q, r
<1>8. ASSUME ~Panic, NEW i \in Server, FetchMessage(i) PROVE Terms'
  <2> DEFINE m == Head(queue[i])
             q == [queue EXCEPT ![i] = Tail(@)]
  <2>1. queue[i] # <<>> /\ HandleMessage(m, q, count - 1)
    BY <1>8 DEF FetchMessage
  <2>2. m \in Message /\ m.sender # m.receiver /\ MessageBound(m) /\ m.receiver \in Server
    BY <1>1, <1>7, <2>1, FrontMessage, MessageFields
  <2>3. /\ q \in [Server -> Seq(Message)]
        /\ \A s \in Server : /\ MessagesBound(q[s])
                             /\ crashes[s] = 0 => Ordered(q[s], currentTerm[s])
    BY <1>7, <2>1
  <2>4. count - 1 \in Int
    BY <1>1 DEF TypeOK
  <2> HIDE DEF m, q
  <2>5. Handled(m, q, count - 1) /\ TermsHandled(m, q, count - 1)
    BY <1>1, <1>8, <2>1, <2>2, <2>3, <2>4, HandleMessageHandled, HandleMessageTerms
  <2> QED
    BY <2>2, <2>3, <2>4, <2>5, HandledTerms
<1>9. ASSUME ~Panic, NEW i \in Server, DuplicateMessage(i) PROVE Terms'
  <2> DEFINE m == Head(queue[i])
  <2>1. queue[i] # <<>> /\ HandleMessage(m, queue, count)
    BY <1>9 DEF DuplicateMessage
  <2>2. m \in Message /\ m.sender # m.receiver /\ MessageBound(m) /\ m.receiver \in Server
    BY <1>1, <1>7, <2>1, FrontMessage, MessageFields
  <2>3. count \in Int
    BY <1>1 DEF TypeOK
  <2> HIDE DEF m
  <2>4. Handled(m, queue, count) /\ TermsHandled(m, queue, count)
    BY <1>1, <1>2, <1>9, <2>1, <2>2, <2>3, HandleMessageHandled, HandleMessageTerms
  <2> QED
    BY <1>1, <1>2, <2>2, <2>3, <2>4, HandledTerms
<1>10. ASSUME NEW i \in Server, DropMessage(i) PROVE Terms'
  <2> DEFINE q == [queue EXCEPT ![i] = Tail(@)]
  <2>1. /\ queue[i] # <<>> /\ queue' = q
        /\ UNCHANGED <<currentTerm, log, state, crashes>>
    BY <1>10 DEF DropMessage, servers
  <2>2. /\ q \in [Server -> Seq(Message)]
        /\ \A s \in Server : /\ MessagesBound(q[s])
                             /\ crashes[s] = 0 => Ordered(q[s], currentTerm[s])
    BY <1>7, <2>1
  <2> HIDE DEF q
  <2>3. ASSUME NEW s \in Server PROVE TermsMove(s, q[s], currentTerm[s])
    BY <1>1, <2>1, <2>2 DEF TermsMove, OfficeTerm
  <2> QED
    BY <1>2, <2>1, <2>2, <2>3, TermsAgain
<1>11. ASSUME NEW cmd \in Command, ClientCommand(cmd) PROVE Terms'
  <2>1. PICK s \in Server :
           /\ IsLeader(s)
           /\ log' = [log EXCEPT ![s] = Append(@, [term |-> currentTerm[s], cmd |-> cmd])]
           /\ UNCHANGED <<currentTerm, queue, state, crashes>>
    BY <1>11 DEF ClientCommand
  <2> DEFINE e == [term |-> currentTerm[s], cmd |-> cmd]
             r == Append(log[s], e)
  <2>2. e \in Entry /\ e.term \in 1 .. currentTerm[s]
    BY <1>1, <2>1 DEF Entry, OfficeTerm, IsLeader
  <2> HIDE DEF e
  <2>3. /\ Len(r) = Len(log[s]) + 1 /\ r[Len(log[s]) + 1] = e /\ r \in Seq(Entry)
        /\ \A j \in 1 .. Len(log[s]) : r[j] = log[s][j]
    BY <1>1, <2>2, AppendProperties
  <2> HIDE DEF r
  <2>4. LogBound(r, currentTerm[s])
    <3>1. \A j \in 1 .. Len(log[s]) : log[s][j].term \in 1 .. currentTerm[s]
      BY <1>1 DEF LogBound
    <3>2. \A j \in DOMAIN r : j \in 1 .. Len(log[s]) \/ j = Len(log[s]) + 1
      BY <1>1, <2>3
    <3> QED
      BY <2>2, <2>3, <3>1, <3>2 DEF LogBound
  <2>5. log \in [Server -> Seq(Entry)] /\ log' = [log EXCEPT ![s] = r]
    BY <1>1, <2>1 DEF TypeOK, r, e
  <2>6. \A t \in Server : LogBound(log'[t], currentTerm[t])
    BY <1>1, <2>4, <2>5
  <2>7. ASSUME NEW t \in Server PROVE TermsMove(t, queue[t], currentTerm[t])
    BY <1>1, <2>1, <2>6 DEF TermsMove, OfficeTerm
  <2> QED
    BY <1>2, <2>1, <2>7, TermsAgain
<1>12. ASSUME NEW s \in Server, ServerCrash(s) PROVE Terms'
  <2>1. /\ currentTerm' = [currentTerm EXCEPT ![s] = 0]
        /\ log' = [log EXCEPT ![s] = <<>>]
        /\ state' = [state EXCEPT ![s] = Follower]
        /\ crashes' = [crashes EXCEPT ![s] = @ + 1]
        /\ queue' = queue
    BY <1>12 DEF ServerCrash, Become
  <2>2. \A t \in Server : /\ crashes[t] \in Nat
                          /\ (t = s => crashes'[t] = crashes[t] + 1)
                          /\ (t # s => /\ crashes'[t] = crashes[t] /\ log'[t] = log[t]
                                       /\ currentTerm'[t] = currentTerm[t]
                                       /\ state'[t] = state[t])
    BY <1>1, <2>1 DEF TypeOK
  <2>3. currentTerm'[s] = 0 /\ log'[s] = <<>> /\ state'[s] = Follower
    BY <1>1, <2>1 DEF TypeOK
  <2>4. ASSUME NEW t \in Server
        PROVE  LogBound(log'[t], currentTerm'[t]) /\ MessagesBound(queue'[t])
    BY <1>1, <2>1, <2>2, <2>3 DEF LogBound
  <2>5. ASSUME NEW t \in Server, crashes'[t] = 0
        PROVE  Ordered(queue'[t], currentTerm'[t])
    BY <1>1, <2>1, <2>2, <2>5
  <2>6. OfficeTerm'
    BY <1>1, <2>2, <2>3 DEF OfficeTerm, Follower
  <2>7. EntryTermsBounded' /\ TermsInOrder'
    BY <2>4, <2>5 DEF EntryTermsBounded, TermsInOrder, LogBound, MessagesBound,
                      MessageBound, Ordered
  <2> QED
    BY <2>6, <2>7 DEF Terms
<1> QED
  BY <1>4, <1>5, <1>6, <1>8, <1>9, <1>10, <1>11, <1>12 DEF Next

LEMMA TermsCorrect == Spec => []TermsInv
<1>1. Init => Terms
  BY DEF Init, Terms, EntryTermsBounded, TermsInOrder, OfficeTerm, Follower
<1>2. Spec => []TypeOK /\ []ElectionInv
  BY TypeCorrect, ElectionCorrect, PTL
<1>3. ElectionInv /\ Terms /\ TypeOK' /\ [Next]_vars => Terms'
  BY TermsStep DEF TermsInv
<1>4. ElectionInv /\ Terms <=> TermsInv
  BY DEF TermsInv
<1> QED
  BY <1>1, <1>2, <1>3, <1>4, PTL DEF Spec

\* No entry, in a log or on its way in an AppendEntries, has a later term than
\* its holder or carrier, and none has term 0, though restart() forgets terms.
THEOREM EntriesBounded == Spec => []EntryTermsBounded
<1>1. TermsInv => EntryTermsBounded
  BY DEF TermsInv, Terms
<1> QED
  BY <1>1, TermsCorrect, PTL

\* The dispatcher holds the messages of a server that has not crashed in the
\* order of their terms, none of them later than the server's own.
THEOREM SentInOrder == Spec => []TermsInOrder
<1>1. TermsInv => TermsInOrder
  BY DEF TermsInv, Terms
<1> QED
  BY <1>1, TermsCorrect, PTL

(***************************************************************************)
(* The dispatcher's count.  MapThenSumSet adds the lengths of the queues   *)
(* in an order it chooses; the places of the messages, of which each queue *)
(* has as many as it is long, have no order.                               *)
(***************************************************************************)

LengthSum(q) == MapThenSumSet(LAMBDA s : Len(q[s]), Server)

\* The places in the queues of the servers T, queue s being w[s] long.
Places(w, T) == {p \in T \X Nat : p[2] \in 1 .. w[p[1]]}

\* What holds of no server, and of servers if it holds without any one of
\* them, holds of all servers.
LEMMA ServerInduction ==
    ASSUME NEW G \in SUBSET (SUBSET Server), {} \in G,
           \A T \in SUBSET Server : T # {} /\ (\A x \in T : T \ {x} \in G) => T \in G
    PROVE  \A T \in SUBSET Server : T \in G
<1> DEFINE Bad == {n \in Nat : \E T \in SUBSET Server : T \notin G /\ Cardinality(T) = n}
<1>1. ASSUME NEW T \in SUBSET Server
      PROVE  IsFiniteSet(T) /\ Cardinality(T) \in Nat
  BY ServerFinite, FS_Subset, FS_CardinalityType
<1>2. SUFFICES ASSUME Bad # {} PROVE FALSE
  BY <1>1
<1> HIDE DEF Bad
<1>3. PICK n \in Bad : \A y \in Bad : n <= y
  <2>1. Bad \in SUBSET Nat
    BY DEF Bad
  <2> QED
    BY <1>2, <2>1, LeastNat
<1>4. PICK T \in SUBSET Server : T \notin G /\ Cardinality(T) = n
  BY <1>3 DEF Bad
<1>5. PICK x \in T : T \ {x} \notin G
  BY <1>4
<1>6. Cardinality(T \ {x}) = n - 1 /\ T \ {x} \in SUBSET Server
  BY <1>1, <1>4, FS_RemoveElement
<1>7. Cardinality(T \ {x}) \in Nat /\ n \in Nat
  BY <1>1, <1>6, <1>4
<1>8. n - 1 \in Bad
  BY <1>5, <1>6, <1>7 DEF Bad
<1> QED
  BY <1>3, <1>7, <1>8

\* The places are finitely many, and those of server x come to w[x].
LEMMA PlacesSplit ==
    ASSUME NEW w \in [Server -> Nat], NEW T \in SUBSET Server
    PROVE  /\ IsFiniteSet(Places(w, T)) /\ Cardinality(Places(w, T)) \in Nat
           /\ T = {} => Cardinality(Places(w, T)) = 0
           /\ \A x \in T : Cardinality(Places(w, T)) = w[x] + Cardinality(Places(w, T \ {x}))
<1>1. ASSUME NEW U \in SUBSET Server
      PROVE  IsFiniteSet(Places(w, U)) /\ Cardinality(Places(w, U)) \in Nat
  <2>1. PICK b \in Nat : \A i \in Server : w[i] <= b
    BY Bounded
  <2>2. IsFiniteSet(U \X (1 .. b))
    <3>1. IsFiniteSet(U)
      BY ServerFinite, FS_Subset
    <3>2. IsFiniteSet(1 .. b)
      BY <2>1, FS_Interval
    <3> QED
      BY <3>1, <3>2, FS_Product
  <2>3. Places(w, U) \in SUBSET (U \X (1 .. b))
    <3>1. ASSUME NEW p \in Places(w, U) PROVE p \in U \X (1 .. b)
      <4>1. p \in U \X Nat /\ p[2] \in 1 .. w[p[1]] /\ w[p[1]] <= b /\ w[p[1]] \in Nat
        BY <2>1 DEF Places
      <4> QED
        BY <2>1, <4>1
    <3> QED
      BY <3>1
  <2> QED
    BY <2>2, <2>3, FS_Subset, FS_CardinalityType
<1>2. T = {} => Cardinality(Places(w, T)) = 0
  BY FS_EmptySet DEF Places
<1>3. ASSUME NEW x \in T
      PROVE  Cardinality(Places(w, T)) = w[x] + Cardinality(Places(w, T \ {x}))
  <2> DEFINE own == {x} \X (1 .. w[x])
  <2>1. IsFiniteSet(own) /\ Cardinality(own) = w[x]
    <3>1. w[x] \in Nat
      OBVIOUS
    <3>2. IsFiniteSet(1 .. w[x]) /\ Cardinality(1 .. w[x]) = w[x]
      BY <3>1, FS_Interval
    <3>3. IsFiniteSet({x}) /\ Cardinality({x}) = 1
      BY FS_Singleton
    <3>4. Cardinality(own) = 1 * w[x] /\ IsFiniteSet(own)
      BY <3>2, <3>3, FS_Product
    <3> QED
      BY <3>1, <3>4
  <2>2. Places(w, T) = own \cup Places(w, T \ {x})
    BY DEF Places
  <2>3. own \cap Places(w, T \ {x}) = {}
    BY DEF Places
  <2>4. IsFiniteSet(Places(w, T \ {x})) /\ Cardinality(Places(w, T \ {x})) \in Nat
    BY <1>1
  <2> HIDE DEF own
  <2>5. Cardinality(own \cap Places(w, T \ {x})) = 0
    BY <2>3, FS_EmptySet
  <2>6. Cardinality(Places(w, T)) = w[x] + Cardinality(Places(w, T \ {x})) - 0
    BY <2>1, <2>2, <2>4, <2>5, FS_Union
  <2> QED
    BY <2>4, <2>6
<1> QED
  BY <1>1, <1>2, <1>3

\* The sum of the lengths is the number of places.
LEMMA SumIsPlaces ==
    ASSUME NEW q, NEW w \in [Server -> Nat], \A s \in Server : w[s] = Len(q[s])
    PROVE  LengthSum(q) = Cardinality(Places(w, Server))
<1> DEFINE step(f) == [T \in SUBSET Server |->
                          IF T = {} THEN 0
                          ELSE LET x == CHOOSE x \in T : TRUE IN Len(q[x]) + f[T \ {x}]]
           sum == CHOOSE f : f = step(f)
           g == [T \in SUBSET Server |-> Cardinality(Places(w, T))]
<1>1. LengthSum(q) = sum[Server]
  BY DEF LengthSum, MapThenSumSet, MapThenFoldSet
<1>2. g = step(g)
  <2>1. ASSUME NEW T \in SUBSET Server
        PROVE  g[T] = step(g)[T]
    <3>1. CASE T = {}
      BY <3>1, PlacesSplit
    <3>2. CASE T # {}
      <4> DEFINE x == CHOOSE x \in T : TRUE
      <4>1. x \in T
        BY <3>2
      <4> HIDE DEF x
      <4>2. g[T] = w[x] + g[T \ {x}] /\ w[x] = Len(q[x])
        BY <4>1, PlacesSplit
      <4>3. step(g)[T] = Len(q[x]) + g[T \ {x}]
        BY <3>2 DEF x
      <4> QED
        BY <4>2, <4>3
    <3> QED
      BY <3>1, <3>2
  <2> QED
    BY <2>1
<1>3. sum = step(sum)
  BY <1>2
<1> HIDE DEF sum
<1> DEFINE G == {T \in SUBSET Server : sum[T] = Cardinality(Places(w, T))}
<1>4. {} \in G
  <2>1. sum[{}] = 0
    BY <1>3
  <2> QED
    BY <2>1, PlacesSplit
<1>5. ASSUME NEW T \in SUBSET Server, T # {}, \A x \in T : T \ {x} \in G
      PROVE  T \in G
  <2> DEFINE x == CHOOSE x \in T : TRUE
  <2>1. x \in T
    BY <1>5
  <2>2. sum[T] = Len(q[x]) + sum[T \ {x}]
    <3>1. sum[T] = step(sum)[T]
      BY <1>3
    <3> QED
      BY <3>1, <1>5
  <2> HIDE DEF x
  <2>3. sum[T \ {x}] = Cardinality(Places(w, T \ {x})) /\ w[x] = Len(q[x])
    BY <1>5, <2>1
  <2> QED
    BY <2>1, <2>2, <2>3, PlacesSplit
<1>6. Server \in G
  <2> HIDE DEF G
  <2>1. G \in SUBSET (SUBSET Server)
    BY DEF G
  <2> QED
    BY <1>4, <1>5, <2>1, ServerInduction
<1> QED
  BY <1>1, <1>6

\* The places of queues as long as two others together.
LEMMA PlacesAdd ==
    ASSUME NEW w \in [Server -> Nat], NEW v \in [Server -> Nat], NEW u \in [Server -> Nat],
           \A s \in Server : u[s] = w[s] + v[s]
    PROVE  Cardinality(Places(u, Server)) =
               Cardinality(Places(w, Server)) + Cardinality(Places(v, Server))
<1> DEFINE G == {T \in SUBSET Server : Cardinality(Places(u, T)) =
                                    Cardinality(Places(w, T)) + Cardinality(Places(v, T))}
<1>1. {} \in G
  <2>1. /\ Cardinality(Places(u, {})) = 0 /\ Cardinality(Places(w, {})) = 0
        /\ Cardinality(Places(v, {})) = 0
    BY PlacesSplit
  <2> QED
    BY <2>1
<1>2. ASSUME NEW T \in SUBSET Server, T # {}, \A x \in T : T \ {x} \in G
      PROVE  T \in G
  <2>1. PICK x \in T : TRUE
    BY <1>2
  <2>2. /\ Cardinality(Places(u, T)) = u[x] + Cardinality(Places(u, T \ {x}))
        /\ Cardinality(Places(w, T)) = w[x] + Cardinality(Places(w, T \ {x}))
        /\ Cardinality(Places(v, T)) = v[x] + Cardinality(Places(v, T \ {x}))
    BY PlacesSplit
  <2>3. Cardinality(Places(w, T \ {x})) \in Nat /\ Cardinality(Places(v, T \ {x})) \in Nat
    BY PlacesSplit
  <2>4. Cardinality(Places(u, T \ {x})) =
            Cardinality(Places(w, T \ {x})) + Cardinality(Places(v, T \ {x}))
    BY <1>2
  <2>5. u[x] = w[x] + v[x] /\ w[x] \in Nat /\ v[x] \in Nat
    OBVIOUS
  <2> QED
    BY <2>2, <2>3, <2>4, <2>5
<1>3. Server \in G
  <2> HIDE DEF G
  <2>1. G \in SUBSET (SUBSET Server)
    BY DEF G
  <2> QED
    BY <1>1, <1>2, <2>1, ServerInduction
<1> QED
  BY <1>3

\* The queues of the servers A get n messages each, from q to r.
Longer(q, r, A, n) ==
    \A s \in Server : Len(r[s]) = Len(q[s]) + IF s \in A THEN n ELSE 0

\* The sum of the lengths grows by as many.
LEMMA SumGrows ==
    ASSUME NEW q \in [Server -> Seq(Message)], NEW r \in [Server -> Seq(Message)],
           NEW A \in SUBSET Server, NEW n \in Nat,
           Longer(q, r, A, n)
    PROVE  LengthSum(r) = LengthSum(q) + n * Cardinality(A) /\ LengthSum(q) \in Nat
<1> DEFINE w == [s \in Server |-> Len(q[s])]
           u == [s \in Server |-> Len(r[s])]
           v == [s \in Server |-> IF s \in A THEN n ELSE 0]
<1>1. w \in [Server -> Nat] /\ u \in [Server -> Nat] /\ v \in [Server -> Nat]
  <2>1. \A s \in Server : Len(q[s]) \in Nat /\ Len(r[s]) \in Nat
    OBVIOUS
  <2> QED
    BY <2>1
<1>2. /\ \A s \in Server : w[s] = Len(q[s]) /\ u[s] = Len(r[s]) /\ u[s] = w[s] + v[s]
      /\ \A s \in Server : v[s] = IF s \in A THEN n ELSE 0
  BY DEF Longer
<1> HIDE DEF w, u, v
<1>3. LengthSum(r) = Cardinality(Places(u, Server))
      /\ LengthSum(q) = Cardinality(Places(w, Server))
  BY <1>1, <1>2, SumIsPlaces
<1>4. Cardinality(Places(u, Server)) =
          Cardinality(Places(w, Server)) + Cardinality(Places(v, Server))
  BY <1>1, <1>2, PlacesAdd
<1>5. Cardinality(Places(v, Server)) = n * Cardinality(A)
  <2>1. Places(v, Server) = A \X (1 .. n)
    <3>1. ASSUME NEW p \in Server \X Nat
          PROVE  p[2] \in 1 .. v[p[1]] <=> p[1] \in A /\ p[2] \in 1 .. n
      BY <1>2
    <3> QED
      BY <3>1 DEF Places
  <2>2. IsFiniteSet(A) /\ Cardinality(A) \in Nat
    BY ServerFinite, FS_Subset, FS_CardinalityType
  <2>3. IsFiniteSet(1 .. n) /\ Cardinality(1 .. n) = n
    BY FS_Interval
  <2>4. Cardinality(A \X (1 .. n)) = Cardinality(A) * n
    BY <2>2, <2>3, FS_Product
  <2>5. Cardinality(A) * n = n * Cardinality(A)
    BY <2>2
  <2> QED
    BY <2>1, <2>4, <2>5
<1>6. Cardinality(Places(w, Server)) \in Nat
  BY <1>1, PlacesSplit
<1> QED
  BY <1>3, <1>4, <1>5, <1>6

Counted == count = LengthSum(queue)

\* The property in terms of LengthSum.
LEMMA CountIsSum == CountExact <=> Counted
  BY DEF CountExact, Counted, LengthSum

\* Push on the queue of one server keeps count and queues in step.
LEMMA PushCounts ==
    ASSUME NEW s \in Server, NEW msgs \in Seq(Message),
           NEW q \in [Server -> Seq(Message)], NEW c, c = LengthSum(q), Push(s, msgs, q, c)
    PROVE  CountExact'
<1>1. queue' = [q EXCEPT ![s] = q[s] \o msgs] /\ count' = c + Len(msgs)
  BY DEF Push
<1>2. queue' \in [Server -> Seq(Message)]
  BY <1>1
<1>3. Longer(q, queue', {s}, Len(msgs))
  <2>1. Len(q[s] \o msgs) = Len(q[s]) + Len(msgs)
    BY ConcatProperties
  <2>2. \A t \in Server : Len(q[t]) \in Nat
    OBVIOUS
  <2> QED
    BY <1>1, <2>1, <2>2 DEF Longer
<1>4. {s} \in SUBSET Server /\ Len(msgs) \in Nat
  OBVIOUS
<1>5. LengthSum(queue') = LengthSum(q) + Len(msgs) * Cardinality({s})
  BY <1>2, <1>3, <1>4, SumGrows
<1>6. Cardinality({s}) = 1
  BY FS_Singleton
<1>7. LengthSum(queue') = LengthSum(q) + Len(msgs)
  BY <1>4, <1>5, <1>6
<1>8. Counted'
  BY <1>1, <1>7 DEF Counted
<1> QED
  BY <1>8, CountIsSum, PTL

\* pop() takes one message from the queues and one off the count.
LEMMA PopCounts ==
    ASSUME TypeOK, CountExact, NEW i \in Server, queue[i] # <<>>
    PROVE  LET q == [queue EXCEPT ![i] = Tail(@)] IN
           q \in [Server -> Seq(Message)] /\ count - 1 = LengthSum(q)
<1> DEFINE q == [queue EXCEPT ![i] = Tail(@)]
<1>1. q \in [Server -> Seq(Message)] /\ queue \in [Server -> Seq(Message)]
  BY PopType DEF TypeOK
<1>2. Longer(q, queue, {i}, 1)
  <2>1. queue[i] \in Seq(Message) /\ Len(Tail(queue[i])) = Len(queue[i]) - 1
    BY <1>1
  <2>2. \A s \in Server : Len(queue[s]) \in Nat
    BY <1>1
  <2> QED
    BY <1>1, <2>1, <2>2 DEF Longer
<1> HIDE DEF q
<1>3. LengthSum(queue) = LengthSum(q) + 1 * Cardinality({i}) /\ LengthSum(q) \in Nat
  <2>1. {i} \in SUBSET Server /\ 1 \in Nat
    OBVIOUS
  <2> QED
    BY <1>1, <1>2, <2>1, SumGrows
<1>4. Cardinality({i}) = 1
  BY FS_Singleton
<1>5. count = LengthSum(queue)
  BY CountIsSum DEF Counted
<1>6. count - 1 = LengthSum(q)
  BY <1>3, <1>4, <1>5
<1> QED
  BY <1>1, <1>6 DEF q

\* Each server that is due in a tick sends to all others.
LEMMA TickCounts ==
    ASSUME TypeOK, TypeOK', CountExact, NEW delta \in Delta, Tick(delta), ~Panic
    PROVE  CountExact'
<1> DEFINE ts == now + delta
           beats == {s \in Server : Heartbeats(s, ts)}
           elects == {s \in Server : TimesOut(s, ts)}
           sent == [s \in Server |-> IF s \in beats THEN AppendEntries(s, state[s].next)
                                     ELSE IF s \in elects THEN VoteRequests(s, currentTerm[s] + 1)
                                     ELSE <<>>]
<1>1. /\ ~ \E s \in beats : AppendEntriesPanics(s)
      /\ queue' = [s \in Server |-> queue[s] \o sent[s]]
      /\ count' = count + (NServers - 1) * Cardinality(beats \cup elects)
  BY DEF Tick
<1>2. ASSUME NEW s \in Server
      PROVE  /\ sent[s] \in Seq(Message)
             /\ Len(sent[s]) = IF s \in beats \cup elects THEN NServers - 1 ELSE 0
  <2>1. CASE s \in beats
    <3>1. state[s] \in Role /\ state[s].role = "Leader"
      BY <2>1 DEF TypeOK, Heartbeats, IsLeader
    <3>2. state[s].next \in [Server -> Nat]
      BY <3>1, RoleFields
    <3>3. \A i \in Server \ {s} : state[s].next[i] <= Len(log[s])
      <4>1. \A i \in Server \ {s} : ~(state[s].next[i] > Len(log[s]))
        BY <1>1, <2>1 DEF AppendEntriesPanics
      <4>2. Len(log[s]) \in Nat
        BY DEF TypeOK
      <4> QED
        BY <3>2, <4>1, <4>2
    <3>4. AppendEntries(s, state[s].next) \in Seq(Message)
      BY <3>2, <3>3, AppendEntriesType
    <3>5. DOMAIN AppendEntries(s, state[s].next) = 1 .. NServers - 1
      BY DEF AppendEntries
    <3>6. Len(AppendEntries(s, state[s].next)) = NServers - 1
      BY <3>4, <3>5, NServersAssumption, LenProperties
    <3> HIDE DEF beats, elects
    <3>7. sent[s] = AppendEntries(s, state[s].next) /\ s \in beats \cup elects
      BY <2>1
    <3> HIDE DEF sent
    <3>8. sent[s] \in Seq(Message) /\ Len(sent[s]) = NServers - 1
      BY ONLY <3>4, <3>6, <3>7
    <3> QED
      BY ONLY <3>7, <3>8
  <2>2. CASE s \notin beats /\ s \in elects
    <3>1. currentTerm[s] + 1 \in Nat
      <4>1. currentTerm \in [Server -> Nat]
        BY DEF TypeOK
      <4> QED
        BY ONLY <4>1
    <3>2. VoteRequests(s, currentTerm[s] + 1) \in Seq(Message)
      BY <3>1, VoteRequestsType
    <3>3. DOMAIN VoteRequests(s, currentTerm[s] + 1) = 1 .. NServers - 1
      BY DEF VoteRequests
    <3>4. Len(VoteRequests(s, currentTerm[s] + 1)) = NServers - 1
      BY <3>2, <3>3, NServersAssumption, LenProperties
    <3> HIDE DEF beats, elects
    <3> QED
      BY <2>2, <3>2, <3>4
  <2>3. CASE s \notin beats /\ s \notin elects
    <3> HIDE DEF beats, elects
    <3> QED
      BY <2>3
  <2> QED
    BY <2>1, <2>2, <2>3
<1> HIDE DEF sent
<1>3. queue \in [Server -> Seq(Message)] /\ queue' \in [Server -> Seq(Message)]
  BY DEF TypeOK
<1> DEFINE due == beats \cup elects
<1>4. due \in SUBSET Server
  OBVIOUS
<1> HIDE DEF due, beats, elects
<1>5. Longer(queue, queue', due, NServers - 1)
  <2>1. ASSUME NEW s \in Server
        PROVE  Len(queue'[s]) = Len(queue[s]) + Len(sent[s])
    <3>1. queue'[s] = queue[s] \o sent[s] /\ queue[s] \in Seq(Message) /\ sent[s] \in Seq(Message)
      BY <1>1, <1>2, <1>3
    <3> QED
      BY <3>1, ConcatProperties
  <2> QED
    BY <1>2, <2>1 DEF due, Longer
<1>6. LengthSum(queue') = LengthSum(queue) + (NServers - 1) * Cardinality(due)
  <2>1. NServers - 1 \in Nat
    BY NServersAssumption
  <2> QED
    BY <1>3, <1>4, <1>5, <2>1, SumGrows
<1>7. count = LengthSum(queue)
  BY CountIsSum DEF Counted
<1>8. Counted'
  BY <1>1, <1>6, <1>7 DEF due, Counted
<1> QED
  BY <1>8, CountIsSum, PTL

\* Every event keeps the count exact.
LEMMA CountStep == ElectionInv /\ CountExact /\ TypeOK' /\ [Next]_vars => CountExact'
<1> SUFFICES ASSUME ElectionInv, CountExact, TypeOK', [Next]_vars PROVE CountExact'
  OBVIOUS
<1>1. TypeOK /\ queue \in [Server -> Seq(Message)] /\ count \in Int /\ count = LengthSum(queue)
  BY CountIsSum DEF ElectionInv, TypeOK, Counted
<1>2. ASSUME UNCHANGED <<queue, count>> PROVE CountExact'
  <2>1. Counted'
    BY <1>1, <1>2 DEF Counted
  <2> QED
    BY <2>1, CountIsSum, PTL
<1>3. CASE Panic
  BY <1>2, <1>3 DEF Panic
<1>4. CASE UNCHANGED vars
  BY <1>2, <1>4 DEF vars
<1>5. ASSUME ~Panic, NEW delta \in Delta, Tick(delta) PROVE CountExact'
  BY <1>1, <1>5, TickCounts
<1>6. ASSUME NEW m \in Message, m.sender # m.receiver, ~Panic,
             NEW q \in [Server -> Seq(Message)], NEW c \in Int, c = LengthSum(q),
             HandleMessage(m, q, c)
      PROVE  CountExact'
  <2>1. Handled(m, q, c)
    BY <1>1, <1>6, HandleMessageHandled
  <2>2. PICK msgs \in Seq(Message) : Push(m.receiver, msgs, q, c)
    BY <2>1 DEF Handled
  <2>3. m.receiver \in Server
    BY MessageFields
  <2> QED
    BY <1>6, <2>2, <2>3, PushCounts
<1>7. ASSUME ~Panic, NEW i \in Server, FetchMessage(i) PROVE CountExact'
  <2> DEFINE m == Head(queue[i])
             q == [queue EXCEPT ![i] = Tail(@)]
  <2>1. queue[i] # <<>> /\ HandleMessage(m, q, count - 1)
    BY <1>7 DEF FetchMessage
  <2>2. m \in Message /\ m.sender # m.receiver
    BY <2>1, FrontMessage
  <2>3. q \in [Server -> Seq(Message)] /\ count - 1 = LengthSum(q)
    BY <1>1, <2>1, PopCounts
  <2>4. count - 1 \in Int
    BY <1>1
  <2> HIDE DEF m, q
  <2> QED
    BY <1>6, <1>7, <2>1, <2>2, <2>3, <2>4
<1>8. ASSUME ~Panic, NEW i \in Server, DuplicateMessage(i) PROVE CountExact'
  <2> DEFINE m == Head(queue[i])
  <2>1. queue[i] # <<>> /\ HandleMessage(m, queue, count)
    BY <1>8 DEF DuplicateMessage
  <2>2. m \in Message /\ m.sender # m.receiver
    BY <2>1, FrontMessage
  <2> HIDE DEF m
  <2> QED
    BY <1>1, <1>6, <1>8, <2>1, <2>2
<1>9. ASSUME NEW i \in Server, DropMessage(i) PROVE CountExact'
  <2> DEFINE q == [queue EXCEPT ![i] = Tail(@)]
  <2>1. queue[i] # <<>> /\ queue' = q /\ count' = count - 1
    BY <1>9 DEF DropMessage
  <2>2. count - 1 = LengthSum(q)
    BY <1>1, <2>1, PopCounts
  <2> HIDE DEF q
  <2>3. Counted'
    BY <2>1, <2>2 DEF Counted
  <2> QED
    BY <2>3, CountIsSum, PTL
<1>10. ASSUME NEW cmd \in Command, ClientCommand(cmd) PROVE CountExact'
  BY <1>2, <1>10 DEF ClientCommand
<1>11. ASSUME NEW s \in Server, ServerCrash(s) PROVE CountExact'
  BY <1>2, <1>11 DEF ServerCrash
<1> QED
  BY <1>3, <1>4, <1>5, <1>7, <1>8, <1>9, <1>10, <1>11 DEF Next

\* The dispatcher's count is the number of messages in its queues, whatever is
\* sent, popped, repeated, dropped or lost in a crash.
THEOREM DispatcherCounts == Spec => []CountExact
<1>1. Init => CountExact
  <2> SUFFICES ASSUME Init PROVE CountExact
    OBVIOUS
  <2> DEFINE w == [s \in Server |-> 0]
  <2>1. count = 0 /\ \A s \in Server : queue[s] = <<>>
    BY DEF Init
  <2>2. w \in [Server -> Nat] /\ \A s \in Server : w[s] = Len(queue[s])
    BY <2>1
  <2>3. Places(w, Server) = {}
    BY DEF Places
  <2> HIDE DEF w
  <2>4. LengthSum(queue) = 0
    BY <2>2, <2>3, SumIsPlaces, FS_EmptySet
  <2> QED
    BY <2>1, <2>4, CountIsSum DEF Counted
<1>2. ElectionInv /\ CountExact /\ TypeOK' /\ [Next]_vars => CountExact'
  BY CountStep
<1>3. Spec => []TypeOK /\ []ElectionInv
  BY TypeCorrect, ElectionCorrect, PTL
<1> QED
  BY <1>1, <1>2, <1>3, PTL DEF Spec
=============================================================================
