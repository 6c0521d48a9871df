----------------------------- MODULE ChordLookup -----------------------------
(***************************************************************************)
(* Lookups in the ring of Chord while nobody has died, proved for every    *)
(* set of nodes, every length of the successor list, any number of         *)
(* fingers and any finger starts: they do not loop, they never skip a node *)
(* that was on the ring when the user asked, and they implement            *)
(* LookupService.  At the end, what they make of the fingers.              *)
(***************************************************************************)
EXTENDS ChordRing

USE DEF NodeOrEmpty, Slots, Fingers

-----------------------------------------------------------------------------
(* The nodes that work on a lookup *)

\* The nodes that work for somebody in S.
Serving == [S \in SUBSET Node |-> {m \in Node : \E c \in S : call[c].to = m /\ WorksFor(m, c)}]

LEMMA ServingInside == Inside(Serving, Node)
BY DEF Serving, Inside

\* Workers(n) is what Cardinality(Node) such steps make of {n}.
LEMMA WorkersSteps ==
  ASSUME NEW n \in Node
  PROVE  \E step : Steps(step, Cardinality(Node), {n}, Serving)
                   /\ Workers(n) = step[Cardinality(Node)]
<1> DEFINE N == Cardinality(Node)
           base == {n}
           more(S) == {m \in Node : \E c \in S : call[c].to = m /\ WorksFor(m, c)}
           Is(f) == f = [k \in 0..N |-> IF k = 0 THEN base ELSE f[k-1] \cup more(f[k-1])]
           step == CHOOSE f : Is(f)
<1>0. N \in Nat /\ base \subseteq Node
  BY FS_CardinalityType, NodeAssumption
<1>1. \E f : Is(f)
  <2>1. PICK f : Steps(f, N, base, Serving)
    BY <1>0, StepsExist
  <2>2. \A k \in 0..N : f[k] \subseteq Node
    <3> HIDE DEF N, base
    <3> QED BY <1>0, <2>1, ServingInside, StepsLeast
  <2>3. ASSUME NEW k \in 0..N, k # 0 PROVE Serving[f[k-1]] = more(f[k-1])
    <3>1. k - 1 \in 0..N
      BY <1>0, <2>3
    <3> QED BY <2>2, <3>1 DEF Serving
  <2>4. f = [k \in 0..N |-> IF k = 0 THEN base ELSE f[k-1] \cup Serving[f[k-1]]]
    BY <2>1 DEF Steps
  <2> HIDE DEF more
  <2>5. Is(f)
    BY <2>3, <2>4
  <2> QED BY <2>5
<1>2. Is(step)
  BY <1>1
<1>3. Workers(n) = step[N]
  BY DEF Workers
<1>4. \A S : more(S) \subseteq Node
  OBVIOUS
<1> HIDE DEF step, N, base
<1>5. \A k \in 0..N : step[k] = IF k = 0 THEN base ELSE step[k-1] \cup more(step[k-1])
  BY <1>2
<1>6. \A k \in 0..N : step[k] \subseteq Node
  <2> HIDE DEF more
  <2> DEFINE P == {k \in 0..N : step[k] \subseteq Node}
  <2>1. 0 \in P
    <3>1. 0 \in 0..N
      BY <1>0
    <3>2. step[0] = base
      BY <1>5, <3>1
    <3> QED BY <1>0, <3>1, <3>2
  <2>2. ASSUME NEW k \in 0..N, k # 0, k - 1 \in P PROVE k \in P
    <3>1. step[k] = step[k-1] \cup more(step[k-1])
      BY <1>5, <2>2
    <3> QED BY <1>4, <2>2, <3>1
  <2> HIDE DEF P
  <2>3. \A k \in 0..N : k \in P
    BY <1>0, <2>1, <2>2, UpTo
  <2> QED BY <2>3 DEF P
<1>7. ASSUME NEW k \in 0..N, k # 0 PROVE Serving[step[k-1]] = more(step[k-1])
  <2>1. k - 1 \in 0..N
    BY <1>0, <1>7
  <2> QED BY <1>6, <2>1 DEF Serving
<1>8. Steps(step, N, base, Serving)
  <2> HIDE DEF more
  <2>1. step = [k \in 0..N |-> IF k = 0 THEN base ELSE step[k-1] \cup more(step[k-1])]
    BY <1>2
  <2> QED BY <1>7, <2>1 DEF Steps
<1> QED BY <1>3, <1>8 DEF N, base

\* Workers(n) is the least set of nodes that n is in and that the nodes working
\* for one of its nodes are in.
WorkersFacts ==
  \A n \in Node :
    /\ n \in Workers(n) /\ Workers(n) \subseteq Node
    /\ \A m \in Node, c \in Workers(n) : call[c].to = m /\ WorksFor(m, c) => m \in Workers(n)
    /\ \A C \in SUBSET Node :
         /\ n \in C
         /\ \A m \in Node, c \in C : call[c].to = m /\ WorksFor(m, c) => m \in C
         => Workers(n) \subseteq C

LEMMA WorkersLeast ==
  ASSUME NEW n \in Node, NEW C \in SUBSET Node, n \in C,
         \A m \in Node, c \in C : call[c].to = m /\ WorksFor(m, c) => m \in C
  PROVE  Workers(n) \subseteq C
<1> DEFINE N == Cardinality(Node)
<1>1. PICK step : Steps(step, N, {n}, Serving) /\ Workers(n) = step[N]
  BY WorkersSteps
<1>2. N \in Nat
  BY FS_CardinalityType, NodeAssumption
<1>3. Inside(Serving, C)
  <2> SUFFICES ASSUME NEW S \in SUBSET C PROVE Serving[S] \subseteq C
    BY DEF Inside
  <2> QED BY DEF Serving
<1>4. {n} \subseteq C
  OBVIOUS
<1> HIDE DEF N
<1>5. \A k \in 0..N : step[k] \subseteq C
  BY <1>1, <1>2, <1>3, <1>4, StepsLeast
<1> QED BY <1>1, <1>2, <1>5

LEMMA WorkersClosed ==
  ASSUME NEW n \in Node
  PROVE  /\ n \in Workers(n) /\ Workers(n) \subseteq Node
         /\ \A m \in Node, c \in Workers(n) : call[c].to = m /\ WorksFor(m, c) => m \in Workers(n)
<1> DEFINE N == Cardinality(Node)
           base == {n}
<1>1. PICK step : Steps(step, N, base, Serving) /\ Workers(n) = step[N]
  BY WorkersSteps
<1>2. IsFiniteSet(Node) /\ N \in Nat /\ Cardinality(Node) <= N + 1
  BY FS_CardinalityType, NodeAssumption
<1>3. base \in SUBSET Node /\ base # {} /\ n \in base
  OBVIOUS
<1> HIDE DEF N, base
<1>4. step[N] \subseteq Node /\ base \subseteq step[N] /\ Serving[step[N]] \subseteq step[N]
  BY <1>1, <1>2, <1>3, ServingInside, StepsClose
<1>5. Workers(n) \subseteq Node /\ n \in Workers(n) /\ Serving[Workers(n)] \subseteq Workers(n)
  BY <1>1, <1>3, <1>4
<1> QED BY <1>5 DEF Serving

LEMMA WorkersKnown == WorkersFacts
BY WorkersClosed, WorkersLeast DEF WorkersFacts

LEMMA WorkersKnownNext == WorkersFacts'
BY WorkersKnown, PTL

LEMMA NoWayBack ==
  ASSUME NEW n \in Nat, NEW m \in Nat, NEW t \in Nat, Between(m, n, t)
  PROVE  ~Between(n, m, t)
BY DEF Between

\* A lookup never comes back to a node that already works on it: everybody who
\* works on it looks for the same target and lies between the node that asked
\* and that target (handleFindSuccessorRPC, chord.c:312-385), so that the
\* chain of calls of a lookup does not close, although each of its nodes is
\* blocked until the next one answers.
THEOREM LookupsDoNotLoop == Spec => []NoLookupLoop
<1>1. CallInv /\ RingInv /\ FindApproaches => NoLookupLoop
  <2> SUFFICES ASSUME CallInv, Ring, FindApproaches, kills = 0,
                      NEW n \in Node, pc[n] = "findWait"
               PROVE  \A m \in Workers(n) : call[m].to # n
    BY DEF RingInv, NoLookupLoop
  <2> DEFINE t == find[n].target
             C == {n} \cup {m \in Node : /\ pc[m] \in {"find", "retry", "findWait"}
                                         /\ find[m].target = t /\ Between(m, n, t)}
  <2>0. t \in Nat /\ Node \subseteq Nat
    BY NodesAreNumbers DEF CallInv, TypeOK
  <2>1. ASSUME NEW c \in C, call[c].to \in Node
        PROVE  Between(call[c].to, c, t) /\ call[c].to # c /\ find[c].target = t
    <3>1. call[c].phase # "none" /\ pc[c] # "crashed"
      BY <2>1 DEF CallInv, Bookkeeping, Callees, Ring, Sound, Healthy
    <3>2. pc[c] = "findWait"
      BY <3>1, WaitingPlaces DEF CallInv, Bookkeeping, BlockedInItsCall
    <3>3. call[c].arg = t /\ find[c].target = t
      BY <3>2 DEF Ring, Sound, AsksForTarget
    <3>4. call[c].to # c
      BY <3>1 DEF Ring, Sound, CalleeStarted
    <3> QED BY <3>2, <3>3, <3>4 DEF FindApproaches
  <2>2. ASSUME NEW m \in Node, NEW c \in C, call[c].to = m, WorksFor(m, c)
        PROVE  m \in C
    <3>1. Between(m, c, t) /\ m # c
      BY <2>1, <2>2
    <3>2. find[m].target = t /\ pc[m] \in {"find", "retry", "findWait"}
      <4>1. call[c].arg = find[m].target /\ call[c].phase = "accepted"
        BY <2>2 DEF CallInv, Bookkeeping, ServedIsWaiting, Ring, Sound, Healthy
      <4>2. pc[c] = "findWait"
        BY <4>1, WaitingPlaces
        DEF CallInv, Bookkeeping, BlockedInItsCall, Ring, Sound, Healthy
      <4>3. call[c].arg = t
        BY <4>2 DEF Ring, Sound, AsksForTarget
      <4> QED BY <2>2, <4>1, <4>3 DEF WorksFor
    <3>3. Between(m, n, t)
      BY <2>0, <3>1, BetweenOnwards
    <3> QED BY <3>2, <3>3
  <2>3. Workers(n) \subseteq C
    <3>1. C \in SUBSET Node /\ n \in C
      OBVIOUS
    <3> HIDE DEF C
    <3> QED BY <2>2, <3>1, WorkersLeast
  <2>4. ASSUME NEW m \in C, call[m].to = n PROVE FALSE
    <3>1. Between(n, m, t) /\ m # n
      BY <2>1, <2>4
    <3>2. Between(m, n, t)
      BY <3>1
    <3> QED BY <2>0, <3>1, <3>2, NoWayBack
  <2> QED BY <2>3, <2>4
<1> QED BY <1>1, CallInvHolds, RingInvHolds, SearchesApproach, PTL

-----------------------------------------------------------------------------
(* Paths *)

\* What has been shown of Reached, to be used before and after a step.
PathFacts ==
  \A x \in Members :
    /\ list[x][0] \in Reached(x) /\ Reached(x) \subseteq Members
    /\ \A m \in Reached(x) : list[m][0] \in Reached(x) /\ Reached(m) \subseteq Reached(x)
    /\ \A s \in Node : Onto(x, s) => s \in Reached(x)

LEMMA Paths == TypeOK /\ Ring => PathFacts
<1> SUFFICES ASSUME TypeOK, Ring, NEW x \in Members
             PROVE  /\ list[x][0] \in Reached(x) /\ Reached(x) \subseteq Members
                    /\ \A m \in Reached(x) : list[m][0] \in Reached(x)
                                             /\ Reached(m) \subseteq Reached(x)
                    /\ \A s \in Node : Onto(x, s) => s \in Reached(x)
  BY DEF PathFacts
<1>1. Reached(x) \subseteq Members /\ x \in Node
  BY ReachedAreMembers, NodesAreNumbers
<1>2. list[x][0] \in Reached(x) /\ \A m \in Reached(x) : list[m][0] \in Reached(x)
  BY <1>1, ReachedClosed
<1>3. \A m \in Reached(x) : Reached(m) \subseteq Reached(x)
  BY <1>1, ReachedOnwards
<1> QED BY <1>1, <1>2, <1>3, OntoReaches

LEMMA PathsNext == TypeOK' /\ Ring' => PathFacts'
BY Paths, PTL

-----------------------------------------------------------------------------
(* The inductive invariant: what a node learns lies ahead of it *)

\* A predecessor has its way to the node it precedes, also while stabilize
\* carries it about; and the calls that rely on it go to the successor.
PredecessorBehind(n) ==
  /\ prede[n] # Empty => Onto(prede[n], n)
  /\ call[n].phase = "replied" /\ call[n].rpc = "get_predecessor" /\ call[n].node # Empty
       => Onto(call[n].node, call[n].to)
  /\ pc[n] \in {"stList", "stList2"} /\ at[n].p # Empty => Onto(at[n].p, list[n][0])
  /\ pc[n] \in {"joinList", "stNotify"} => call[n].to = list[n][0]

\* Tables hold only what the successors lead to, and the node itself.
TablesAhead(n) ==
  /\ n \in Members => \A i \in Slots : list[n][i] \in Reached(n)
  /\ \A k \in Fingers : \/ finger[n][k] = Empty
                        \/ n \in Members /\ finger[n][k] \in Reached(n) \cup {n}
  /\ pc[n] = "findWait" => call[n].to \in Reached(n) \cup {n}

\* So do answers.
AnswerAhead(n) ==
  call[n].phase = "replied" =>
    /\ call[n].to \in Members
    /\ call[n].rpc = "find_successor" => call[n].node \in Reached(call[n].to) \cup {call[n].to}
    /\ call[n].rpc = "get_successor_list" => \A i \in Slots : call[n].list[i] \in Reached(call[n].to)

Ahead(n) == PredecessorBehind(n) /\ TablesAhead(n) /\ AnswerAhead(n)

AllAhead == \A n \in Node : Ahead(n)

\* Nobody loses its way.
Widens ==
  /\ Members \subseteq Members'
  /\ \A x \in Members : Reached(x) \subseteq Reached(x)'
  /\ \A x \in Node, s \in Node : Onto(x, s) => Onto(x, s)'

-----------------------------------------------------------------------------
(* Ways are not lost *)

LEMMA BetweenWithin ==
  ASSUME NEW n \in Nat, NEW t \in Nat, NEW b \in Nat, NEW c \in Nat,
         Between(b, n, t), Between(c, b, t)
  PROVE  Between(c, n, t)
BY DEF Between

LEMMA BetweenNested ==
  ASSUME NEW n \in Nat, NEW t \in Nat, NEW s \in Nat, NEW b \in Nat,
         Between(b, n, t), Between(t, n, s)
  PROVE  Between(b, n, s) /\ Between(t, b, s)
BY DEF Between

\* The successor of n is replaced by one that lies before it and leads to it.
LEMMA OntoWidens ==
  ASSUME TypeOK, Ring, Ring', Members \subseteq Members', NEW n \in Members,
         \A x \in Members \ {n} : list'[x][0] = list[x][0],
         Between(list'[n][0], n, list[n][0]), Onto(list'[n][0], list[n][0]),
         NEW x \in Node, NEW s \in Node, Onto(x, s)
  PROVE  Onto(x, s)'
<1> DEFINE t == list[n][0]
           p == list'[n][0]
<1>0. /\ Members \subseteq Nat /\ n \in Nat /\ s \in Nat /\ t \in Nat
      /\ Between(p, n, t)
  BY NodesAreNumbers, SuccessorIsMember
<1>1. PICK A \in SUBSET Members :
        /\ x \in A
        /\ \A a \in A : list[a][0] = s \/ (list[a][0] \in A /\ Between(list[a][0], a, s))
  BY DEF Onto
<1>2. PICK B \in SUBSET Members :
        /\ p \in B
        /\ \A b \in B : list[b][0] = t \/ (list[b][0] \in B /\ Between(list[b][0], b, t))
  BY DEF Onto
<1> DEFINE C == A \cup {b \in B : Between(b, n, t)}
<1>3. CASE n \notin A
  <2>1. \A a \in A : list'[a][0] = list[a][0]
    BY <1>3
  <2> QED BY <1>1, <2>1 DEF Onto
<1>4. CASE n \in A
  <2>0. t = s \/ (t \in A /\ Between(t, n, s))
    BY <1>1, <1>4
  <2> HIDE DEF t, p
  <2>1. ASSUME NEW b \in B, Between(b, n, t)
        PROVE  list'[b][0] = s \/ (list'[b][0] \in C /\ Between(list'[b][0], b, s))
    <3>1. b \in Nat /\ b \in Members
      BY <1>0, <1>2
    <3>2. b # n /\ (t = s \/ (Between(t, b, s) /\ t \in A))
      <4>1. b # n
        BY <1>0, <2>1, <3>1, BetweenIsAnother2
      <4>2. Between(t, n, s) => Between(t, b, s)
        BY <1>0, <2>1, <3>1, BetweenNested
      <4>3. CASE t = s
        BY <4>1, <4>3
      <4>4. CASE t \in A /\ Between(t, n, s)
        BY <4>1, <4>2, <4>4
      <4> QED BY <2>0, <4>3, <4>4
    <3>3. list'[b][0] = list[b][0]
      BY <3>1, <3>2
    <3>4. CASE list[b][0] = t
      BY <3>2, <3>3, <3>4
    <3>5. CASE list[b][0] \in B /\ Between(list[b][0], b, t)
      <4>1. list[b][0] \in Nat
        BY <1>0, <3>5
      <4>2. Between(list[b][0], n, t)
        BY <1>0, <2>1, <3>1, <3>5, <4>1, BetweenWithin
      <4>3. Between(list[b][0], b, s)
        <5>1. CASE t = s
          BY <3>5, <5>1
        <5>2. CASE Between(t, b, s)
          BY <1>0, <3>1, <3>5, <4>1, <5>2, BetweenNested
        <5> QED BY <3>2, <5>1, <5>2
      <4> QED BY <3>3, <3>5, <4>2, <4>3
    <3> QED BY <1>2, <3>4, <3>5
  <2>2. p \in C /\ Between(p, n, s)
    <3>1. p \in Nat /\ p \in B
      BY <1>0, <1>2
    <3>2. CASE t = s
      BY <1>0, <3>1, <3>2
    <3>3. CASE Between(t, n, s)
      BY <1>0, <3>1, <3>3, BetweenNested
    <3> QED BY <2>0, <3>2, <3>3
  <2>3. ASSUME NEW a \in A
        PROVE  list'[a][0] = s \/ (list'[a][0] \in C /\ Between(list'[a][0], a, s))
    <3>1. CASE a = n
      BY <2>2, <3>1 DEF p
    <3>2. CASE a # n
      <4>1. list'[a][0] = list[a][0]
        BY <3>2
      <4> QED BY <1>1, <4>1
    <3> QED BY <3>1, <3>2
  <2>4. C \in SUBSET Members' /\ x \in C
    BY <1>1, <1>2
  <2>5. \A a \in C : list'[a][0] = s \/ (list'[a][0] \in C /\ Between(list'[a][0], a, s))
    BY <2>1, <2>3
  <2> HIDE DEF C
  <2> QED BY <2>4, <2>5 DEF Onto
<1> QED BY <1>3, <1>4

\* If moreover nobody else's successor changes, nobody loses its way.
LEMMA WidensIf ==
  ASSUME TypeOK, TypeOK', Ring, Ring', Members \subseteq Members', NEW n \in Node,
         \A x \in Members \ {n} : list'[x][0] = list[x][0],
         n \in Members /\ list'[n][0] # list[n][0] =>
           Between(list'[n][0], n, list[n][0]) /\ Onto(list'[n][0], list[n][0])
  PROVE  Widens
<1>0. PathFacts /\ PathFacts' /\ Members \subseteq Node
  BY Paths, PathsNext, NodesAreNumbers
<1>1. ASSUME NEW x \in Node, NEW s \in Node, Onto(x, s)
      PROVE  Onto(x, s)'
  <2>1. CASE \A a \in Members : list'[a][0] = list[a][0]
    <3>1. PICK A \in SUBSET Members :
            /\ x \in A
            /\ \A a \in A : list[a][0] = s \/ (list[a][0] \in A /\ Between(list[a][0], a, s))
      BY <1>1 DEF Onto
    <3>2. \A a \in A : list'[a][0] = s \/ (list'[a][0] \in A /\ Between(list'[a][0], a, s))
      BY <2>1, <3>1
    <3> QED BY <3>1, <3>2 DEF Onto
  <2>2. CASE n \in Members /\ list'[n][0] # list[n][0]
    BY <1>1, <2>2, OntoWidens
  <2> QED BY <2>1, <2>2
<1>2. ASSUME NEW x \in Members
      PROVE  Reached(x) \subseteq Reached(x)'
  <2> DEFINE C == Reached(x)'
  <2>0. x \in Node /\ (x \in Members)'
    BY <1>0
  <2>1. ASSUME NEW m \in Members, m = x \/ m \in C
        PROVE  list[m][0] \in C
    <3>1. (m \in Members)' /\ m \in Node
      BY <1>0
    <3>2. list'[m][0] \in C
      BY <1>0, <2>0, <2>1 DEF PathFacts
    <3>3. CASE list'[m][0] # list[m][0]
      <4>1. m = n /\ Onto(list'[m][0], list[m][0])
        BY <3>3
      <4>2. PICK p : p = list'[m][0]
        OBVIOUS
      <4>3. PICK t \in Node : t = list[m][0]
        BY <1>0, SuccessorIsMember
      <4>4. p \in C /\ C \subseteq Members' /\ Members' \subseteq Node
        BY <1>0, <2>0, <3>2, <4>2 DEF PathFacts, Members
      <4>5. Onto(p, t)'
        BY <1>1, <4>1, <4>2, <4>3, <4>4
      <4>6. t \in Reached(p)' /\ Reached(p)' \subseteq C
        BY <1>0, <2>0, <4>4, <4>5 DEF PathFacts
      <4> QED BY <4>3, <4>6
    <3> QED BY <3>2, <3>3
  <2> QED BY <2>0, <2>1, ReachedLeast
<1> QED BY <1>1, <1>2 DEF Widens

-----------------------------------------------------------------------------
(* A step changes the place of one process only, and no member leaves *)

LEMMA OnePlace ==
  ASSUME CallInv, Ring, Ring', NEW n \in Node, NEW c \in Node,
         \/ Continue(n) \/ StabilizeTimer(n) \/ FixFingers(n)
         \/ CheckPredecessor(n) \/ Serve(n, c) \/ Join(n, c)
         \/ \E key \in Key[n] : Lookup(n, key)
  PROVE  /\ \A x \in Node \ {n} : pc'[x] = pc[x]
         /\ n \in Members => (n \in Members)'
<1>0. TypeOK /\ pc'[n] # "crashed"
  BY DEF CallInv, Ring, Sound, Healthy
<1>1. ASSUME NEW w, pc' = [pc EXCEPT ![n] = w],
             n \in Members => w \notin {"off", "joinFind", "joinList"}
      PROVE  /\ \A x \in Node \ {n} : pc'[x] = pc[x]
             /\ n \in Members => (n \in Members)'
  BY <1>0, <1>1 DEF TypeOK, Members
<1>2. CASE UNCHANGED pc
  BY <1>2 DEF Members
<1>3. ASSUME NEW m, NEW rpc, NEW arg, NEW w, Ask(n, m, rpc, arg, w),
             n \in Members => w \notin {"off", "joinFind", "joinList"}
      PROVE  /\ \A x \in Node \ {n} : pc'[x] = pc[x]
             /\ n \in Members => (n \in Members)'
  BY <1>1, <1>3 DEF Ask
<1>4. ~Die(n)
  BY <1>0 DEF Die, TypeOK
<1>5. CASE JoinFound(n) \/ Join(n, c)
  <2>1. n \notin Members
    BY <1>5, MemberPlaces DEF JoinFound, Join, Answered
  <2> QED BY <1>3, <1>4, <1>5, <2>1 DEF JoinFound, Join
<1>6. CASE JoinDone(n) \/ Notified(n) \/ PredecessorChecked(n)
  BY <1>1, <1>6 DEF JoinDone, Notified, PredecessorChecked
<1>7. CASE GotPredecessor(n) \/ GotList(n) \/ GotListOfPredecessor(n)
  BY <1>3, <1>4, <1>7 DEF GotPredecessor, GotList, GotListOfPredecessor, Notify
<1>8. CASE Stabilize(n)
  <2>1. ASSUME NEW i, TryPredecessor(n, i)
        PROVE  \/ \E m : Ask(n, m, "get_predecessor", 0, "stPred")
               \/ \E w \in {"scan", "hung"} : pc' = [pc EXCEPT ![n] = w]
    BY <1>4, <2>1 DEF TryPredecessor
  <2>2. \/ \E m : Ask(n, m, "get_predecessor", 0, "stPred")
        \/ \E w \in {"scan", "hung"} : pc' = [pc EXCEPT ![n] = w]
    BY <1>8, <2>1 DEF Stabilize
  <2> QED BY <1>1, <1>3, <2>2
<1>9. CASE StabilizeAlone(n)
  BY <1>2, <1>9 DEF StabilizeAlone
<1>10. CASE FindHere(n) \/ Found(n)
  BY <1>1, <1>10 DEF FindHere, Found, Return
<1>11. CASE FindElsewhere(n)
  BY <1>1, <1>3, <1>11 DEF FindElsewhere, Forward
<1>12. CASE FixFingers(n) \/ \E key \in Key[n] : Lookup(n, key)
  BY <1>1, <1>12 DEF FixFingers, Lookup, EnterFind
<1>13. CASE CheckPredecessor(n)
  BY <1>2, <1>3, <1>13 DEF CheckPredecessor
<1>14. CASE Serve(n, c)
  BY <1>1, <1>2, <1>14
  DEF Serve, ServeFindSuccessor, EnterFind, ServeGetSuccessorList, ServeGetPredecessor,
      ServeNotify, ServeCheckPredecessor
<1> QED BY <1>5, <1>6, <1>7, <1>8, <1>9, <1>10, <1>11, <1>12, <1>13, <1>14,
           NoFailureStep DEF Continue, StabilizeTimer

LEMMA WidensStep ==
  ASSUME CallInv, CallInv', Ring, Ring', AllAhead, NEW n \in Node, NEW c \in Node,
         \/ Continue(n) \/ StabilizeTimer(n) \/ FixFingers(n)
         \/ CheckPredecessor(n) \/ Serve(n, c) \/ Join(n, c)
         \/ \E key \in Key[n] : Lookup(n, key)
  PROVE  Widens
<1>0. TypeOK /\ TypeOK'
  BY DEF CallInv
<1>1. Members \subseteq Members'
  <2> SUFFICES ASSUME NEW x \in Members PROVE (x \in Members)'
    OBVIOUS
  <2>1. CASE x = n
    BY <2>1, OnePlace
  <2>2. CASE x # n
    <3>1. pc'[x] = pc[x] /\ x \in Node
      BY <2>2, OnePlace, NodesAreNumbers
    <3> QED BY <3>1, MemberPlaces
  <2> QED BY <2>1, <2>2
<1>2. \A x \in Members \ {n} : list'[x][0] = list[x][0]
  BY NewSuccessor
<1>3. ASSUME n \in Members, list'[n][0] # list[n][0]
      PROVE  Between(list'[n][0], n, list[n][0]) /\ Onto(list'[n][0], list[n][0])
  <2>1. Between(list'[n][0], n, list[n][0])
    BY <1>3, NewSuccessor
  <2>2. PredecessorBehind(n)
    BY DEF AllAhead, Ahead
  <2>3. CASE StabilizeAlone(n) /\ list[n][0] = n /\ list'[n][0] = prede[n]
    BY <2>2, <2>3 DEF StabilizeAlone, PredecessorBehind
  <2>4. CASE GotListOfPredecessor(n) /\ list'[n][0] = at[n].p
    <3>1. pc[n] = "stList2"
      BY <2>4 DEF GotListOfPredecessor, Answered
    <3>2. at[n].p # Empty
      BY <3>1, NodesAreNumbers DEF Ring, Sound, StabilizesFirst
    <3>3. Onto(at[n].p, list[n][0])
      BY <2>2, <3>1, <3>2 DEF PredecessorBehind
    <3>4. \A p : p = at[n].p => Onto(p, list[n][0])
      BY <3>3
    <3> QED BY <2>1, <2>4, <3>4
  <2> QED BY <1>3, <2>1, <2>3, <2>4, NewSuccessor
<1> QED BY <1>0, <1>1, <1>2, <1>3, WidensIf

-----------------------------------------------------------------------------
(* What does not change *)

\* A way is kept.
LEMMA OntoKept ==
  ASSUME Widens, NEW p \in Node, NEW s \in Node, Onto(p, s)
  PROVE  Onto(p, s)'
BY DEF Widens

\* x stays where it is, with the same tables and the same callee.
Stays(x) ==
  /\ pc'[x] = pc[x] /\ list'[x] = list[x] /\ prede'[x] = prede[x]
  /\ finger'[x] = finger[x] /\ at'[x] = at[x] /\ call'[x].to = call[x].to

LEMMA BehindStays ==
  ASSUME CallInv, Ring, Widens, NEW x \in Node, Stays(x), PredecessorBehind(x),
         (call[x].phase = "replied" /\ call[x].rpc = "get_predecessor" /\ call[x].node # Empty
            => Onto(call[x].node, call[x].to))'
  PROVE  PredecessorBehind(x)'
<1>0. TypeOK
  BY DEF CallInv
<1>1. prede[x] \in NodeOrEmpty /\ at[x].p \in NodeOrEmpty
  BY <1>0 DEF TypeOK
<1>2. ASSUME prede[x] # Empty PROVE Onto(prede[x], x)'
  <2>1. prede[x] \in Node /\ Onto(prede[x], x)
    BY <1>1, <1>2 DEF PredecessorBehind
  <2>2. PICK p \in Node : p = prede[x]
    BY <2>1
  <2> QED BY <2>1, <2>2, OntoKept DEF Stays
<1>3. ASSUME pc[x] \in {"stList", "stList2"}, at[x].p # Empty
      PROVE  Onto(at[x].p, list[x][0])'
  <2>1. list[x][0] \in Node
    BY <1>0, <1>3, MemberTables, NodesAreNumbers
  <2>2. at[x].p \in Node /\ Onto(at[x].p, list[x][0])
    BY <1>1, <1>3 DEF PredecessorBehind
  <2>3. PICK p \in Node, s \in Node : p = at[x].p /\ s = list[x][0]
    BY <2>1, <2>2
  <2> QED BY <2>2, <2>3, OntoKept DEF Stays
<1>4. pc[x] \in {"joinList", "stNotify"} => call[x].to = list[x][0]
  BY DEF PredecessorBehind
<1> QED BY <1>2, <1>3, <1>4 DEF PredecessorBehind, Stays

LEMMA MembersWiden ==
  ASSUME Widens, NEW x \in Node, pc'[x] = pc[x]
  PROVE  /\ (x \in Members)' <=> x \in Members
         /\ x \in Members => Reached(x) \subseteq Reached(x)'
BY MemberPlaces DEF Widens

LEMMA TablesStay ==
  ASSUME Widens, NEW x \in Node, Stays(x), TablesAhead(x)
  PROVE  TablesAhead(x)'
<1>1. /\ (x \in Members)' <=> x \in Members
      /\ x \in Members => Reached(x) \subseteq Reached(x)'
  BY MembersWiden DEF Stays
<1>2. pc[x] = "findWait" => x \in Members
  BY MemberPlaces
<1> QED BY <1>1, <1>2 DEF TablesAhead, Stays

LEMMA AheadElsewhere ==
  ASSUME CallInv, Ring, Widens, NEW S, Untouched(S), NEW x \in Node \ S, Ahead(x)
  PROVE  Ahead(x)'
<1>0. TypeOK /\ x \in Node /\ call'[x] = call[x] /\ Stays(x)
  BY DEF CallInv, Untouched, Stays
<1>1. ASSUME call[x].phase = "replied", call[x].rpc = "get_predecessor", call[x].node # Empty
      PROVE  Onto(call[x].node, call[x].to)'
  <2>1. call[x].node \in NodeOrEmpty
    BY <1>0 DEF TypeOK, Calls
  <2>2. call[x].node \in Node /\ call[x].to \in Node /\ Onto(call[x].node, call[x].to)
    BY <1>1, <2>1 DEF Ahead, PredecessorBehind, CallInv, Bookkeeping, Callees
  <2>3. PICK p \in Node, s \in Node : p = call[x].node /\ s = call[x].to
    BY <2>2
  <2> QED BY <1>0, <2>2, <2>3, OntoKept
<1>2. PredecessorBehind(x)'
  BY <1>0, <1>1, BehindStays DEF Ahead
<1>3. TablesAhead(x)'
  BY <1>0, TablesStay DEF Ahead
<1>4. AnswerAhead(x)'
  <2>1. ASSUME call[x].phase = "replied"
        PROVE  /\ call[x].to \in Members /\ (call[x].to \in Members)'
               /\ Reached(call[x].to) \subseteq Reached(call[x].to)'
    <3>1. PICK m \in Members : m = call[x].to
      BY <2>1 DEF Ahead, AnswerAhead
    <3> QED BY <1>0, <3>1 DEF Widens
  <2> QED BY <1>0, <2>1 DEF Ahead, AnswerAhead
<1> QED BY <1>2, <1>3, <1>4 DEF Ahead

LEMMA AllElsewhere ==
  ASSUME CallInv, Ring, AllAhead, Widens, NEW S \in SUBSET Node, Untouched(S),
         \A x \in S : Ahead(x)'
  PROVE  AllAhead'
<1>1. \A x \in Node \ S : Ahead(x)'
  BY AheadElsewhere DEF AllAhead
<1> QED BY <1>1 DEF AllAhead

-----------------------------------------------------------------------------
(* Kinds of steps *)

\* What is ahead of x in its tables, stated for the fingers alone.
FingersAhead(x) ==
  \A k \in Fingers : \/ finger[x][k] = Empty
                     \/ x \in Members /\ finger[x][k] \in Reached(x) \cup {x}

LEMMA FingersStay ==
  ASSUME Widens, NEW x \in Node, finger'[x] = finger[x], FingersAhead(x)
  PROVE  FingersAhead(x)'
<1>1. x \in Members => (x \in Members)' /\ Reached(x) \subseteq Reached(x)'
  BY DEF Widens
<1> QED BY <1>1 DEF FingersAhead

\* A predecessor that is not replaced.
LEMMA PredecessorStays ==
  ASSUME TypeOK, Widens, NEW x \in Node, PredecessorBehind(x), prede'[x] = prede[x]
  PROVE  (prede[x] # Empty => Onto(prede[x], x))'
<1> SUFFICES ASSUME prede[x] # Empty PROVE Onto(prede[x], x)'
  OBVIOUS
<1>1. prede[x] \in Node /\ Onto(prede[x], x)
  BY DEF TypeOK, PredecessorBehind
<1>2. PICK p \in Node : p = prede[x]
  BY <1>1
<1> QED BY <1>1, <1>2, OntoKept

\* n sends a call.
LEMMA SendAhead ==
  ASSUME CallInv, Ring, AllAhead, Widens, NEW n \in Node, NEW m, NEW rpc, NEW arg, NEW where,
         Ask(n, m, rpc, arg, where), Untouched({n}),
         prede'[n] = prede[n], finger'[n] = finger[n],
         (pc[n] \in {"stList", "stList2"} /\ at[n].p # Empty => Onto(at[n].p, list[n][0]))',
         (pc[n] \in {"joinList", "stNotify"} => call[n].to = list[n][0])',
         (n \in Members => \A i \in Slots : list[n][i] \in Reached(n))',
         (pc[n] = "findWait" => call[n].to \in Reached(n) \cup {n})'
  PROVE  AllAhead'
<1>0. TypeOK /\ PredecessorBehind(n) /\ FingersAhead(n)
  BY DEF CallInv, AllAhead, Ahead, TablesAhead, FingersAhead
<1>1. call'[n].phase = "queued"
  BY <1>0, AskFields
<1>2. PredecessorBehind(n)'
  BY <1>0, <1>1, PredecessorStays DEF PredecessorBehind
<1>3. TablesAhead(n)'
  BY <1>0, FingersStay DEF TablesAhead, FingersAhead
<1>4. AnswerAhead(n)'
  BY <1>1 DEF AnswerAhead
<1>5. Ahead(n)'
  BY <1>2, <1>3, <1>4 DEF Ahead
<1> QED BY <1>5, AllElsewhere

\* n goes to its loop or starts a search.
LEMMA LoopAhead ==
  ASSUME CallInv, Ring, AllAhead, Widens, NEW n \in Node,
         pc'[n] \in {"idle", "find"}, call'[n].phase = "none", Untouched({n}),
         prede'[n] = prede[n], FingersAhead(n)',
         (\A i \in Slots : list[n][i] \in Reached(n))'
  PROVE  AllAhead'
<1>0. TypeOK /\ PredecessorBehind(n)
  BY DEF CallInv, AllAhead, Ahead
<1>1. PredecessorBehind(n)'
  BY <1>0, PredecessorStays DEF PredecessorBehind
<1>2. TablesAhead(n)'
  BY DEF TablesAhead, FingersAhead
<1>3. AnswerAhead(n)'
  BY DEF AnswerAhead
<1>4. Ahead(n)'
  BY <1>1, <1>2, <1>3 DEF Ahead
<1> QED BY <1>4, AllElsewhere

\* n answers c, with what lies ahead of n.
LEMMA ReplyAhead ==
  ASSUME CallInv, Ring, AllAhead, Widens, NEW n \in Members, NEW c \in Node \ {n}, NEW v, NEW l,
         Reply(n, c, v, l), call[c].to = n, pc'[n] = "idle",
         \A x \in Node \ {n} : pc'[x] = pc[x] /\ prede'[x] = prede[x] /\ find'[x] = find[x],
         UNCHANGED <<list, finger, at>>,
         (prede[n] # Empty => Onto(prede[n], n))',
         call[c].rpc = "find_successor" => v \in Reached(n) \cup {n},
         call[c].rpc = "get_successor_list" => \A i \in Slots : l[i] \in Reached(n),
         call[c].rpc = "get_predecessor" /\ v # Empty => v \in Node /\ Onto(v, n)
  PROVE  AllAhead'
<1>0. /\ TypeOK /\ n \in Node /\ (n \in Members)' /\ Reached(n) \subseteq Reached(n)'
      /\ Ahead(n) /\ Ahead(c) /\ pc[c] # "crashed"
  BY NodesAreNumbers DEF CallInv, AllAhead, Widens, Ring, Sound, Healthy
<1>1. /\ call'[n] = NoCall
      /\ \A x \in Node \ {n, c} : call'[x] = call[x]
      /\ call'[c].to = n /\ call'[c].rpc = call[c].rpc
      /\ call'[c].phase = "replied" /\ call'[c].node = v /\ call'[c].list = l
  BY <1>0, ReplyFields
<1>2. Untouched({n, c})
  BY <1>1 DEF Untouched
<1>3. Ahead(n)'
  <2>1. PredecessorBehind(n)'
    BY <1>1, NoCallFields DEF PredecessorBehind
  <2>2. FingersAhead(n)'
    BY <1>0, FingersStay DEF Ahead, TablesAhead, FingersAhead
  <2>3. \A i \in Slots : list[n][i] \in Reached(n)'
    BY <1>0 DEF Ahead, TablesAhead
  <2>4. TablesAhead(n)'
    BY <2>2, <2>3 DEF TablesAhead, FingersAhead
  <2>5. AnswerAhead(n)'
    BY <1>1, NoCallFields DEF AnswerAhead
  <2> QED BY <2>1, <2>4, <2>5 DEF Ahead
<1>4. Ahead(c)'
  <2>0. Stays(c)
    BY <1>1 DEF Stays
  <2>1. ASSUME call[c].rpc = "get_predecessor", v # Empty PROVE Onto(call[c].node, call[c].to)'
    <3>1. v \in Node /\ Onto(v, n)
      BY <2>1
    <3>2. PICK p \in Node : p = v
      BY <3>1
    <3> QED BY <1>0, <1>1, <3>1, <3>2, OntoKept
  <2>2. PredecessorBehind(c)'
    BY <1>0, <1>1, <2>0, <2>1, BehindStays DEF Ahead
  <2>3. TablesAhead(c)'
    BY <1>0, <2>0, TablesStay DEF Ahead
  <2>4. AnswerAhead(c)'
    BY <1>0, <1>1 DEF AnswerAhead
  <2> QED BY <2>2, <2>3, <2>4 DEF Ahead
<1> QED BY <1>0, <1>2, <1>3, <1>4, AllElsewhere

-----------------------------------------------------------------------------
(* The actions *)

\* A list that is copied from the node that becomes its first entry.
LEMMA AdoptAhead ==
  ASSUME PathFacts', Widens, NEW n \in Node, (n \in Members)', NEW s \in Members, NEW l,
         list'[n] = Adopt(s, l), \A i \in Slots : l[i] \in Reached(s)
  PROVE  list'[n][0] = s /\ (\A i \in Slots : list[n][i] \in Reached(n))'
<1>1. (s \in Members)' /\ Reached(s) \subseteq Reached(s)' /\ s \in Node
  BY NodesAreNumbers DEF Widens
<1>2. list'[n][0] = s
  BY NodesAreNumbers DEF Adopt
<1>3. s \in Reached(n)' /\ Reached(s)' \subseteq Reached(n)'
  BY <1>1, <1>2 DEF PathFacts
<1>4. Adopt(s, l)[0] = s /\ \A i \in Slots : Adopt(s, l)[i] \in Reached(n)'
  <2> DEFINE V == Reached(n)'
  <2>1. s \in V /\ \A i \in Slots : l[i] \in V
    BY <1>1, <1>3
  <2> HIDE DEF V
  <2>2. \A i \in Slots : Adopt(s, l)[i] \in V
    BY <2>1, AdoptSlots
  <2> QED BY <1>2, <2>2 DEF V
<1> QED BY <1>2, <1>4

\* A list that stays.
LEMMA ListStays ==
  ASSUME AllAhead, Widens, NEW n \in Members, list'[n] = list[n]
  PROVE  (\A i \in Slots : list[n][i] \in Reached(n))'
BY NodesAreNumbers DEF AllAhead, Ahead, TablesAhead, Widens

LEMMA JoinFoundAhead ==
  ASSUME CallInv, Ring, AllAhead, Widens, NEW n \in Node, JoinFound(n)
  PROVE  AllAhead'
<1> DEFINE s == call[n].node
<1>1. /\ pc[n] = "joinFind" /\ call[n].phase = "replied"
      /\ list' = [list EXCEPT ![n][0] = s]
      /\ UNCHANGED <<prede, finger, next, find, at, lookup, kills>>
  BY DEF JoinFound, Answered
<1>2. call[n].rpc = "find_successor"
  BY <1>1, WaitsForValues, WaitingValues DEF CallInv, Bookkeeping, BlockedInItsCall
<1>3. Connects(s)
  BY <1>1, <1>2, MembersConnect DEF Ring, Sound, AnswerKnown
<1>4. Ask(n, s, "get_successor_list", 0, "joinList")
  BY <1>3 DEF JoinFound
<1>5. list'[n][0] = s /\ \A x \in Node \ {n} : list'[x] = list[x]
  BY <1>1, NodesAreNumbers DEF CallInv, TypeOK
<1> HIDE DEF s
<1>6. /\ pc'[n] = "joinList" /\ call'[n].to = s
      /\ \A x \in Node \ {n} : pc'[x] = pc[x] /\ call'[x] = call[x]
  BY <1>4, AskFields DEF CallInv
<1>7. Untouched({n}) /\ (n \notin Members)'
  BY <1>1, <1>5, <1>6, MemberPlaces DEF Untouched
<1> QED BY <1>1, <1>4, <1>5, <1>6, <1>7, SendAhead

LEMMA JoinDoneAhead ==
  ASSUME CallInv, Ring, AllAhead, Widens, PathFacts', NEW n \in Node, JoinDone(n)
  PROVE  AllAhead'
<1> DEFINE s == list[n][0]
<1>1. /\ pc[n] = "joinList" /\ call[n].phase = "replied"
      /\ list' = [list EXCEPT ![n] = Adopt(s, call[n].list)]
      /\ pc' = [pc EXCEPT ![n] = "idle"] /\ call' = [call EXCEPT ![n] = NoCall]
      /\ UNCHANGED <<prede, finger, next, find, at, lookup, kills>>
  BY DEF JoinDone, Answered
<1>2. call[n].rpc = "get_successor_list"
  BY <1>1, WaitsForValues, WaitingValues DEF CallInv, Bookkeeping, BlockedInItsCall
<1>3. s \in Members /\ call[n].to = s /\ \A i \in Slots : call[n].list[i] \in Reached(s)
  BY <1>1, <1>2
  DEF Ring, Sound, ListKnown, AllAhead, Ahead, PredecessorBehind, AnswerAhead
<1> HIDE DEF s
<1>4. /\ list'[n] = Adopt(s, call[n].list) /\ pc'[n] = "idle" /\ call'[n].phase = "none"
      /\ Untouched({n}) /\ prede'[n] = prede[n] /\ finger'[n] = finger[n]
  BY <1>1, NoCallFields DEF CallInv, TypeOK, Untouched
<1>5. (n \in Members)'
  BY <1>4, MemberPlaces
<1>6. (\A i \in Slots : list[n][i] \in Reached(n))'
  BY <1>3, <1>4, <1>5, AdoptAhead
<1>7. FingersAhead(n)'
  BY <1>4, FingersStay DEF AllAhead, Ahead, TablesAhead, FingersAhead
<1> QED BY <1>4, <1>6, <1>7, LoopAhead

LEMMA GotPredecessorAhead ==
  ASSUME CallInv, Ring, AllAhead, Widens, NEW n \in Node, GotPredecessor(n)
  PROVE  AllAhead'
<1> DEFINE s == list[n][0]
           p == call[n].node
<1>1. /\ pc[n] = "stPred" /\ call[n].phase = "replied"
      /\ at' = [at EXCEPT ![n] = [i |-> at[n].i, p |-> p]]
      /\ UNCHANGED <<prede, list, finger, next, find, lookup, kills>>
  BY DEF GotPredecessor, Answered
<1>2. call[n].rpc = "get_predecessor"
  BY <1>1, WaitsForValues, WaitingValues DEF CallInv, Bookkeeping, BlockedInItsCall
<1>3. at[n].i = 0 /\ p \in NodeOrEmpty /\ call[n].to = s
  BY <1>1, <1>2 DEF Ring, Sound, StabilizesFirst, CallInv, StabilizeLinks, TypeOK, Calls
<1>4. n \in Members /\ s \in Members /\ s \in Node
  BY <1>1, MemberTables, NodesAreNumbers
<1>5. Ask(n, s, "get_successor_list", 0, "stList")
  BY <1>3, <1>4, MembersConnect DEF GotPredecessor
<1>6. p # Empty => Onto(p, s)
  BY <1>1, <1>2, <1>3 DEF AllAhead, Ahead, PredecessorBehind
<1> HIDE DEF s, p
<1>7. /\ pc'[n] = "stList" /\ at'[n].p = p
      /\ \A x \in Node \ {n} : pc'[x] = pc[x] /\ call'[x] = call[x] /\ at'[x] = at[x]
  BY <1>1, <1>5, AskFields DEF CallInv, TypeOK
<1>8. (at[n].p # Empty => Onto(at[n].p, list[n][0]))'
  <2> SUFFICES ASSUME p # Empty PROVE Onto(at[n].p, list[n][0])'
    BY <1>7
  <2>1. PICK q \in Node, t \in Node : q = p /\ t = s
    BY <1>3, <1>4
  <2>2. Onto(q, t)'
    BY <1>6, <2>1, OntoKept
  <2>3. q = at'[n].p /\ t = list'[n][0]
    BY <1>1, <1>7, <2>1 DEF s
  <2> QED BY <2>2, <2>3
<1>9. Untouched({n}) /\ (\A i \in Slots : list[n][i] \in Reached(n))'
  BY <1>1, <1>4, <1>7, ListStays DEF Untouched
<1> QED BY <1>1, <1>5, <1>7, <1>8, <1>9, SendAhead

LEMMA GotListAhead ==
  ASSUME CallInv, Ring, AllAhead, Widens, PathFacts', NEW n \in Node, GotList(n)
  PROVE  AllAhead'
<1> DEFINE p == at[n].p
<1>1. /\ pc[n] = "stList" /\ call[n].phase = "replied"
      /\ UNCHANGED <<prede, finger, next, find, at, lookup, kills>>
  BY DEF GotList, Answered
<1>2. call[n].rpc = "get_successor_list"
  BY <1>1, WaitsForValues, WaitingValues DEF CallInv, Bookkeeping, BlockedInItsCall
<1>3. at[n].i = 0 /\ p \in NodeOrEmpty /\ call[n].to = list[n][0] /\ n \in Members
  BY <1>1, MemberTables
  DEF Ring, Sound, StabilizesFirst, CallInv, StabilizeLinks, TypeOK
<1>4. PICK s \in Members : s = list[n][0] /\ s \in Node
  BY <1>3, SuccessorIsMember, NodesAreNumbers
<1>5. \A i \in Slots : call[n].list[i] \in Reached(s)
  BY <1>1, <1>2, <1>3, <1>4 DEF AllAhead, Ahead, AnswerAhead
<1>6. p # Empty => Onto(p, s)
  BY <1>1, <1>4 DEF AllAhead, Ahead, PredecessorBehind
<1>7. list' = [list EXCEPT ![n] = Adopt(s, call[n].list)]
  BY <1>3, <1>4 DEF GotList
<1>8. list'[n] = Adopt(s, call[n].list) /\ \A x \in Node \ {n} : list'[x] = list[x]
  BY <1>7 DEF CallInv, TypeOK
<1>9. Adopt(s, call[n].list)[0] = s
  BY NodesAreNumbers DEF Adopt
<1>10. (n \in Members)'
  BY <1>3 DEF Widens
<1>11. list'[n][0] = s /\ (\A i \in Slots : list[n][i] \in Reached(n))'
  BY <1>5, <1>8, <1>10, AdoptAhead
<1>12. (at[n].p # Empty => Onto(at[n].p, list[n][0]))'
  <2> SUFFICES ASSUME p # Empty PROVE Onto(at[n].p, list[n][0])'
    BY <1>1
  <2>1. PICK q \in Node : q = p
    BY <1>3
  <2>2. Onto(q, s)'
    BY <1>4, <1>6, <2>1, OntoKept
  <2>3. q = at'[n].p /\ s = list'[n][0]
    BY <1>1, <1>11, <2>1
  <2> QED BY <2>2, <2>3
<1>13. \/ Ask(n, p, "get_successor_list", 0, "stList2")
       \/ Ask(n, s, "notify", 0, "stNotify")
  BY <1>3, <1>4, <1>9, MembersConnect DEF GotList, Notify
<1>14. ASSUME NEW m, NEW rpc, NEW where, Ask(n, m, rpc, 0, where),
              where = "stList2" \/ (where = "stNotify" /\ m = s)
       PROVE  AllAhead'
  <2>1. /\ pc'[n] = where /\ call'[n].to = m
        /\ \A x \in Node \ {n} : pc'[x] = pc[x] /\ call'[x] = call[x]
    BY <1>14, AskFields DEF CallInv
  <2>2. Untouched({n})
    BY <1>1, <1>8, <2>1 DEF Untouched
  <2> QED BY <1>1, <1>11, <1>12, <1>14, <2>1, <2>2, SendAhead
<1> QED BY <1>13, <1>14

LEMMA GotListOfPredecessorAhead ==
  ASSUME CallInv, Ring, AllAhead, Widens, PathFacts', NEW n \in Node, GotListOfPredecessor(n)
  PROVE  AllAhead'
<1>1. /\ pc[n] = "stList2" /\ call[n].phase = "replied"
      /\ list' = [list EXCEPT ![n] = Adopt(at[n].p, call[n].list)]
      /\ Notify(n, at[n].p)
      /\ UNCHANGED <<prede, finger, next, find, at, lookup, kills>>
  BY DEF GotListOfPredecessor, Answered
<1>2. call[n].rpc = "get_successor_list"
  BY <1>1, WaitsForValues, WaitingValues DEF CallInv, Bookkeeping, BlockedInItsCall
<1>3. at[n].p \in Members /\ call[n].to = at[n].p /\ n \in Members
  BY <1>1, MemberTables DEF Ring, Sound, StabilizesFirst, CallInv, StabilizeLinks
<1>4. PICK s \in Members : s = at[n].p
  BY <1>3
<1>5. \A i \in Slots : call[n].list[i] \in Reached(s)
  BY <1>1, <1>2, <1>3, <1>4 DEF AllAhead, Ahead, AnswerAhead
<1>6. list'[n] = Adopt(s, call[n].list) /\ \A x \in Node \ {n} : list'[x] = list[x]
  BY <1>1, <1>4 DEF CallInv, TypeOK
<1>7. (n \in Members)'
  BY <1>3 DEF Widens
<1>8. list'[n][0] = s /\ (\A i \in Slots : list[n][i] \in Reached(n))'
  BY <1>5, <1>6, <1>7, AdoptAhead
<1>9. Ask(n, s, "notify", 0, "stNotify")
  BY <1>1, <1>4, MembersConnect DEF Notify
<1>10. /\ pc'[n] = "stNotify" /\ call'[n].to = s
       /\ \A x \in Node \ {n} : pc'[x] = pc[x] /\ call'[x] = call[x]
  BY <1>9, AskFields DEF CallInv
<1>11. Untouched({n})
  BY <1>1, <1>6, <1>10 DEF Untouched
<1> QED BY <1>1, <1>8, <1>9, <1>10, <1>11, SendAhead

LEMMA StabilizeAhead ==
  ASSUME CallInv, Ring, AllAhead, Widens, NEW n \in Node, Stabilize(n)
  PROVE  AllAhead'
<1> DEFINE s == list[n][0]
<1>1. pc[n] = "idle" /\ UNCHANGED <<prede, next, find, lookup, kills>>
  BY DEF Stabilize
<1>2. n \in Members /\ s \in Members
  BY <1>1, MemberTables, NodesAreNumbers
<1>3. /\ Ask(n, s, "get_predecessor", 0, "stPred")
      /\ at' = [at EXCEPT ![n] = [i |-> 0, p |-> Empty]]
      /\ UNCHANGED <<list, finger>>
  BY <1>2, MembersConnect, NodeAssumption DEF Stabilize, TryPredecessor
<1> HIDE DEF s
<1>4. /\ pc'[n] = "stPred"
      /\ \A x \in Node \ {n} : pc'[x] = pc[x] /\ call'[x] = call[x] /\ at'[x] = at[x]
  BY <1>3, AskFields DEF CallInv, TypeOK
<1>5. Untouched({n}) /\ (\A i \in Slots : list[n][i] \in Reached(n))'
  BY <1>1, <1>2, <1>3, <1>4, ListStays DEF Untouched
<1> QED BY <1>1, <1>3, <1>4, <1>5, SendAhead

LEMMA CheckPredecessorAhead ==
  ASSUME CallInv, Ring, AllAhead, Widens, NEW n \in Node, CheckPredecessor(n)
  PROVE  AllAhead'
<1>1. pc[n] = "idle" /\ prede[n] # Empty
      /\ UNCHANGED <<list, finger, next, find, at, lookup, kills>>
  BY DEF CheckPredecessor
<1>2. n \in Members /\ prede[n] \in Members
  BY <1>1, MemberTables
<1>3. Ask(n, prede[n], "check_predecessor", 0, "check") /\ UNCHANGED prede
  BY <1>2, MembersConnect DEF CheckPredecessor
<1>4. /\ pc'[n] = "check"
      /\ \A x \in Node \ {n} : pc'[x] = pc[x] /\ call'[x] = call[x]
  BY <1>3, AskFields DEF CallInv
<1>5. Untouched({n}) /\ (\A i \in Slots : list[n][i] \in Reached(n))'
  BY <1>1, <1>2, <1>3, <1>4, ListStays DEF Untouched
<1> QED BY <1>1, <1>3, <1>4, <1>5, SendAhead

LEMMA JoinAhead ==
  ASSUME CallInv, Ring, AllAhead, Widens, NEW n \in Node, NEW b \in Node, Join(n, b)
  PROVE  AllAhead'
<1>1. /\ Ask(n, b, "find_successor", n, "joinFind")
      /\ UNCHANGED <<prede, list, finger, next, find, at, lookup, kills>>
  BY DEF Join
<1>2. /\ pc'[n] = "joinFind"
      /\ \A x \in Node \ {n} : pc'[x] = pc[x] /\ call'[x] = call[x]
  BY <1>1, AskFields DEF CallInv
<1>3. Untouched({n}) /\ (n \notin Members)'
  BY <1>1, <1>2, MemberPlaces DEF Untouched
<1> QED BY <1>1, <1>2, <1>3, SendAhead

LEMMA QuietAhead ==
  ASSUME CallInv, Ring, AllAhead, Widens, PathFacts', NEW n \in Node,
         \/ Notified(n) \/ PredecessorChecked(n) \/ StabilizeAlone(n) \/ FixFingers(n)
         \/ \E key \in Key[n] : Lookup(n, key)
  PROVE  AllAhead'
<1>1. /\ pc[n] \notin {"off", "joinFind", "joinList"}
      /\ UNCHANGED <<prede, finger>>
  BY DEF Notified, PredecessorChecked, StabilizeAlone, FixFingers, Lookup, Answered
<1>2. n \in Members /\ FingersAhead(n)'
  BY <1>1, MemberTables, FingersStay DEF AllAhead, Ahead, TablesAhead, FingersAhead
<1>3. CASE Notified(n) \/ PredecessorChecked(n)
  <2>1. pc'[n] = "idle" /\ call'[n].phase = "none" /\ Untouched({n}) /\ UNCHANGED list
    BY <1>3, NoCallFields DEF Notified, PredecessorChecked, CallInv, TypeOK, Untouched
  <2>2. (\A i \in Slots : list[n][i] \in Reached(n))'
    BY <1>2, <2>1, ListStays
  <2> QED BY <1>1, <1>2, <2>1, <2>2, LoopAhead
<1>4. CASE FixFingers(n) \/ \E key \in Key[n] : Lookup(n, key)
  <2>1. pc[n] = "idle" /\ pc'[n] = "find" /\ Untouched({n}) /\ UNCHANGED <<call, list>>
    BY <1>4 DEF FixFingers, Lookup, EnterFind, CallInv, TypeOK, Untouched
  <2>2. call'[n].phase = "none"
    BY <2>1, WaitingPlaces DEF CallInv, Bookkeeping, BlockedInItsCall
  <2>3. (\A i \in Slots : list[n][i] \in Reached(n))'
    BY <1>2, <2>1, ListStays
  <2> QED BY <1>1, <1>2, <2>1, <2>2, <2>3, LoopAhead
<1>5. CASE StabilizeAlone(n)
  <2>1. /\ pc[n] = "idle" /\ list' = [list EXCEPT ![n] = Adopt(prede[n], list[n])]
        /\ UNCHANGED <<pc, call, at, find>>
    BY <1>5 DEF StabilizeAlone
  <2>2. call'[n].phase = "none"
    BY <2>1, WaitingPlaces DEF CallInv, Bookkeeping, BlockedInItsCall
  <2>3. list'[n] = Adopt(prede[n], list[n]) /\ Untouched({n})
    BY <1>1, <2>1 DEF CallInv, TypeOK, Untouched
  <2>4. (\A i \in Slots : list[n][i] \in Reached(n))'
    <3> DEFINE V == Reached(n)'
    <3>1. (n \in Members)' /\ Reached(n) \subseteq V /\ \A i \in Slots : list[n][i] \in Reached(n)
      BY <1>2, NodesAreNumbers DEF Widens, AllAhead, Ahead, TablesAhead
    <3>2. list'[n][0] \in V
      BY <3>1 DEF PathFacts
    <3>3. list'[n][0] = prede[n]
      BY <2>3, NodesAreNumbers DEF Adopt
    <3> HIDE DEF V
    <3>4. \A i \in Slots : Adopt(prede[n], list[n])[i] \in V
      BY <3>1, <3>2, <3>3, AdoptSlots
    <3> QED BY <2>3, <3>4 DEF V
  <2> QED BY <1>1, <1>2, <2>1, <2>2, <2>3, <2>4, LoopAhead
<1> QED BY <1>3, <1>4, <1>5

LEMMA FindElsewhereAhead ==
  ASSUME CallInv, Ring, AllAhead, Widens, NEW n \in Node, FindElsewhere(n)
  PROVE  AllAhead'
<1>1. PICK place \in Places \ {Self} : ClosestPreceding(n, place) /\ Forward(n, place)
  BY DEF FindElsewhere
<1> DEFINE m == At(place, n, list[n], finger[n])
<1>2. /\ pc[n] = "find" /\ UNCHANGED <<prede, next, find, at, lookup, kills>>
      /\ TypeOK
  BY DEF FindElsewhere, CallInv
<1>3. n \in Members /\ m # Empty /\ m \in Members
  BY <1>1, <1>2, CloserPlace, MemberTables
<1>4. m \in Reached(n) \cup {n}
  <2>1. m # Empty /\ (\/ \E i \in Slots : m = list[n][i]
                      \/ \E k \in Fingers : m = finger[n][k])
    BY <1>1, <1>2, CloserPlace
  <2> HIDE DEF m
  <2> QED BY <1>3, <2>1 DEF AllAhead, Ahead, TablesAhead
<1>5. Ask(n, m, "find_successor", find[n].target, "findWait") /\ UNCHANGED <<list, finger>>
  BY <1>1, <1>3, MembersConnect DEF Forward
<1> HIDE DEF m
<1>6. /\ pc'[n] = "findWait" /\ call'[n].to = m
      /\ \A x \in Node \ {n} : pc'[x] = pc[x] /\ call'[x] = call[x]
  BY <1>2, <1>5, AskFields
<1>7. Untouched({n}) /\ (\A i \in Slots : list[n][i] \in Reached(n))'
  BY <1>2, <1>3, <1>5, <1>6, ListStays DEF Untouched
<1>8. (call[n].to \in Reached(n) \cup {n})'
  BY <1>3, <1>4, <1>6 DEF Widens
<1> QED BY <1>2, <1>5, <1>6, <1>7, <1>8, SendAhead

\* The answer to a search is given: to c, to fixFingers or to the user.
LEMMA ReturnAhead ==
  ASSUME CallInv, Ring, AllAhead, Widens, NEW n \in Members, NEW s \in Reached(n) \cup {n},
         Return(n, s), pc[n] = "find" \/ Answered(n, "findWait")
  PROVE  AllAhead'
<1>0. TypeOK /\ n \in Node /\ FingersAhead(n) /\ PredecessorBehind(n)
  BY NodesAreNumbers DEF CallInv, AllAhead, Ahead, TablesAhead, FingersAhead
<1>1. /\ pc'[n] = "idle" /\ \A x \in Node \ {n} : pc'[x] = pc[x] /\ find'[x] = find[x]
      /\ UNCHANGED <<prede, list, at>>
  BY <1>0 DEF Return, TypeOK
<1>2. CASE find[n].for = "serve" /\ find[n].client \in Node
  <2>1. PICK c \in Node : c = find[n].client
    BY <1>2
  <2>2. WorksFor(n, c) /\ pc[c] # "crashed"
    BY <1>2, <2>1 DEF WorksFor, Answered, Ring, Sound, Healthy
  <2>3. call[c].to = n /\ call[c].phase = "accepted" /\ call[c].rpc = "find_successor"
    BY <1>0, <2>2 DEF CallInv, Bookkeeping, ServedIsWaiting
  <2>4. c \in Node \ {n}
    BY <2>3 DEF CallInv, Bookkeeping, Callees
  <2>5. Reply(n, c, s, NoList) /\ UNCHANGED finger
    BY <1>2, <2>1 DEF Return
  <2>6. (prede[n] # Empty => Onto(prede[n], n))'
    BY <1>0, <1>1, PredecessorStays
  <2> QED BY <1>1, <2>3, <2>4, <2>5, <2>6, ReplyAhead
<1>3. CASE find[n].for # "serve" \/ find[n].client \notin Node
  <2>1. call' = [call EXCEPT ![n] = NoCall]
    <3>1. CASE find[n].for # "serve"
      BY <3>1 DEF Return
    <3>2. CASE find[n].client \notin Node /\ Reply(n, find[n].client, s, NoList)
      BY <1>0, <3>2 DEF Reply, TypeOK
    <3> QED BY <1>3, <3>1, <3>2 DEF Return
  <2>2. call'[n].phase = "none" /\ \A x \in Node \ {n} : call'[x] = call[x]
    BY <1>0, <2>1, NoCallFields DEF TypeOK
  <2>3. (\A x \in Node \ {n} : finger'[x] = finger[x]) /\ FingersAhead(n)'
    <3>1. CASE UNCHANGED finger
      BY <1>0, <3>1, FingersStay
    <3>2. CASE FillFingers(n, s)
      <4>1. \A k \in Fingers : finger'[n][k] \in {s, finger[n][k]}
        BY <1>0, <3>2 DEF FillFingers, TypeOK
      <4>2. (n \in Members)' /\ Reached(n) \subseteq Reached(n)'
        BY DEF Widens
      <4>3. FingersAhead(n)'
        BY <1>0, <4>1, <4>2 DEF FingersAhead
      <4> QED BY <1>0, <3>2, <4>3 DEF FillFingers, TypeOK
    <3> QED BY <3>1, <3>2 DEF Return
  <2>4. Untouched({n}) /\ (\A i \in Slots : list[n][i] \in Reached(n))'
    BY <1>1, <2>2, <2>3, ListStays DEF Untouched
  <2> QED BY <1>0, <1>1, <2>2, <2>3, <2>4, LoopAhead
<1> QED BY <1>2, <1>3

\* What a search returns lies ahead of the node that searched.
LEMMA ReturnsAhead ==
  ASSUME CallInv, Ring, AllAhead, PathFacts, NEW n \in Node, FindHere(n) \/ Found(n)
  PROVE  n \in Members /\ \E s \in Reached(n) \cup {n} : Return(n, s)
<1>1. n \in Members
  BY MemberPlaces DEF FindHere, Found, Answered
<1>2. CASE FindHere(n)
  BY <1>1, <1>2 DEF FindHere, PathFacts
<1>3. CASE Found(n)
  <2>1. pc[n] = "findWait" /\ call[n].phase = "replied" /\ Return(n, call[n].node)
    BY <1>3 DEF Found, Answered
  <2>2. call[n].rpc = "find_successor"
    BY <2>1, WaitsForValues, WaitingPlaces DEF CallInv, Bookkeeping, BlockedInItsCall
  <2>3. /\ call[n].to \in Reached(n) \cup {n}
        /\ call[n].node \in Reached(call[n].to) \cup {call[n].to}
    BY <2>1, <2>2 DEF AllAhead, Ahead, TablesAhead, AnswerAhead
  <2>4. call[n].node \in Reached(n) \cup {n}
    BY <1>1, <2>3 DEF PathFacts
  <2> QED BY <1>1, <2>1, <2>4
<1> QED BY <1>2, <1>3

LEMMA ServeFindAhead ==
  ASSUME CallInv, Ring, AllAhead, Widens, NEW n \in Node, NEW c \in Node, ServeFindSuccessor(n, c)
  PROVE  AllAhead'
<1>1. /\ pc[n] = "idle" /\ call[c].to = n /\ call[c].phase = "queued"
      /\ EnterFind(n, "serve", c, call[c].arg)
      /\ call' = [call EXCEPT ![c].phase = "accepted"]
      /\ UNCHANGED <<prede, list, finger, next, at, lookup, kills>>
  BY DEF ServeFindSuccessor, Accept
<1>2. c # n /\ call[n].phase = "none" /\ n \in Members /\ TypeOK
  BY <1>1, WaitingPlaces, MemberTables DEF CallInv, Bookkeeping, BlockedInItsCall
<1>3. /\ pc'[n] = "find" /\ \A x \in Node \ {n} : pc'[x] = pc[x] /\ find'[x] = find[x]
  BY <1>1, <1>2 DEF EnterFind, TypeOK
<1>4. /\ call'[c].to = n /\ call'[c].phase = "accepted"
      /\ \A x \in Node \ {c} : call'[x] = call[x]
  <2>1. call'[c] = [call[c] EXCEPT !.phase = "accepted"] /\ call[c] \in Calls
    BY <1>1, <1>2 DEF TypeOK
  <2>2. \A x \in Node \ {c} : call'[x] = call[x]
    BY <1>1, <1>2 DEF TypeOK
  <2> QED BY <1>1, <2>1, <2>2 DEF Calls
<1>5. Ahead(n) /\ Ahead(c)
  BY DEF AllAhead
<1>6. Ahead(n)'
  <2>1. PredecessorBehind(n)'
    BY <1>1, <1>2, <1>3, <1>4, <1>5, PredecessorStays DEF Ahead, PredecessorBehind
  <2>2. TablesAhead(n)'
    BY <1>1, <1>2, <1>3, <1>5, ListStays, FingersStay DEF Ahead, TablesAhead, FingersAhead
  <2>3. AnswerAhead(n)'
    BY <1>2, <1>4 DEF AnswerAhead
  <2> QED BY <2>1, <2>2, <2>3 DEF Ahead
<1>7. Ahead(c)'
  <2>0. Stays(c)
    BY <1>1, <1>2, <1>3, <1>4 DEF Stays
  <2>1. PredecessorBehind(c)'
    BY <1>4, <1>5, <2>0, BehindStays DEF Ahead
  <2>2. TablesAhead(c)'
    BY <1>5, <2>0, TablesStay DEF Ahead
  <2>3. AnswerAhead(c)'
    BY <1>4 DEF AnswerAhead
  <2> QED BY <2>1, <2>2, <2>3 DEF Ahead
<1>8. Untouched({n, c})
  BY <1>1, <1>3, <1>4 DEF Untouched
<1> QED BY <1>6, <1>7, <1>8, AllElsewhere

LEMMA ServeAhead ==
  ASSUME CallInv, Ring, AllAhead, Widens, NEW n \in Node, NEW c \in Node, Serve(n, c)
  PROVE  AllAhead'
<1>0. TypeOK /\ Ahead(n)
  BY DEF CallInv, AllAhead
<1>1. CASE ServeFindSuccessor(n, c)
  BY <1>1, ServeFindAhead
<1>2. ASSUME NEW rpc, NEW v, NEW l, Accept(n, c, rpc), Reply(n, c, v, l),
             UNCHANGED <<pc, list, finger, next, find, at, lookup, kills>>,
             \A x \in Node \ {n} : prede'[x] = prede[x],
             (prede[n] # Empty => Onto(prede[n], n))',
             rpc \in {"get_successor_list", "get_predecessor", "notify", "check_predecessor"},
             rpc = "get_successor_list" => l = list[n],
             rpc = "get_predecessor" => v = prede[n]
      PROVE  AllAhead'
  <2>1. /\ pc[n] = "idle" /\ call[c].to = n /\ call[c].phase = "queued"
        /\ call[c].rpc = rpc
    BY <1>2 DEF Accept
  <2>2. c \in Node \ {n} /\ n \in Members
    BY <2>1, WaitingPlaces, MemberPlaces DEF CallInv, Bookkeeping, BlockedInItsCall
  <2>3. \A i \in Slots : list[n][i] \in Reached(n)
    BY <1>0, <2>2 DEF Ahead, TablesAhead
  <2>4. prede[n] # Empty => prede[n] \in Node /\ Onto(prede[n], n)
    BY <1>0 DEF Ahead, PredecessorBehind, TypeOK
  <2> QED BY <1>2, <2>1, <2>2, <2>3, <2>4, ReplyAhead
<1>3. CASE ServeGetSuccessorList(n, c)
  <2>1. (prede[n] # Empty => Onto(prede[n], n))'
    BY <1>0, <1>3, PredecessorStays DEF Ahead, ServeGetSuccessorList
  <2> QED BY <1>2, <1>3, <2>1 DEF ServeGetSuccessorList
<1>4. CASE ServeGetPredecessor(n, c) \/ ServeCheckPredecessor(n, c)
  <2>1. (prede[n] # Empty => Onto(prede[n], n))'
    BY <1>0, <1>4, PredecessorStays DEF Ahead, ServeGetPredecessor, ServeCheckPredecessor
  <2> QED BY <1>2, <1>4, <2>1 DEF ServeGetPredecessor, ServeCheckPredecessor
<1>5. CASE ServeNotify(n, c)
  <2>1. /\ call[c].phase = "queued" /\ call[c].rpc = "notify" /\ call[c].to = n
        /\ prede' = IF Improves(n, c) THEN [prede EXCEPT ![n] = c] ELSE prede
    BY <1>5 DEF ServeNotify, Accept
  <2>2. pc[c] = "stNotify"
    BY <2>1, WaitsForValues, WaitingValues
    DEF CallInv, Bookkeeping, BlockedInItsCall, Ring, Sound, Healthy
  <2>3. c \in Members /\ list[c][0] = n
    BY <2>1, <2>2, MemberPlaces DEF AllAhead, Ahead, PredecessorBehind
  <2>4. Onto(c, n)
    <3>1. {c} \in SUBSET Members /\ \A a \in {c} : list[a][0] = n
      BY <2>3
    <3> QED BY <3>1 DEF Onto
  <2>5. (prede[n] # Empty => Onto(prede[n], n))'
    <3>1. CASE prede'[n] = prede[n]
      BY <1>0, <3>1, PredecessorStays DEF Ahead
    <3>2. CASE prede'[n] = c
      <4>1. Onto(c, n)'
        BY <2>4, OntoKept
      <4> QED BY <3>2, <4>1
    <3> QED BY <1>0, <2>1, <3>1, <3>2 DEF TypeOK
  <2>6. \A x \in Node \ {n} : prede'[x] = prede[x]
    BY <1>0, <2>1 DEF TypeOK
  <2> QED BY <1>2, <1>5, <2>5, <2>6 DEF ServeNotify
<1> QED BY <1>1, <1>3, <1>4, <1>5 DEF Serve

LEMMA AheadAction ==
  ASSUME CallInv, CallInv', Ring, Ring', AllAhead, NEW n \in Node, NEW c \in Node,
         \/ Continue(n) \/ StabilizeTimer(n) \/ FixFingers(n)
         \/ CheckPredecessor(n) \/ Serve(n, c) \/ Join(n, c)
         \/ \E key \in Key[n] : Lookup(n, key)
  PROVE  AllAhead'
<1>0. Widens /\ PathFacts /\ PathFacts'
  BY WidensStep, Paths, PathsNext DEF CallInv
<1>1. CASE JoinFound(n) \/ JoinDone(n)
  BY <1>0, <1>1, JoinFoundAhead, JoinDoneAhead
<1>2. CASE GotPredecessor(n) \/ GotList(n) \/ GotListOfPredecessor(n) \/ Stabilize(n)
  BY <1>0, <1>2, GotPredecessorAhead, GotListAhead, GotListOfPredecessorAhead, StabilizeAhead
<1>3. CASE FindElsewhere(n)
  BY <1>0, <1>3, FindElsewhereAhead
<1>4. CASE FindHere(n) \/ Found(n)
  <2>1. n \in Members /\ \E s \in Reached(n) \cup {n} : Return(n, s)
    BY <1>0, <1>4, ReturnsAhead
  <2> QED BY <1>0, <1>4, <2>1, ReturnAhead DEF FindHere, Found
<1>5. CASE \/ Notified(n) \/ PredecessorChecked(n) \/ StabilizeAlone(n) \/ FixFingers(n)
           \/ \E key \in Key[n] : Lookup(n, key)
  BY <1>0, <1>5, QuietAhead
<1>6. CASE CheckPredecessor(n) \/ Serve(n, c) \/ Join(n, c)
  BY <1>0, <1>6, CheckPredecessorAhead, ServeAhead, JoinAhead
<1> QED BY <1>1, <1>2, <1>3, <1>4, <1>5, <1>6, NoFailureStep DEF Continue, StabilizeTimer

-----------------------------------------------------------------------------
(* The inductive invariant: a lookup is followed along the ring *)

\* s is a right answer for key, as far as the nodes in seen are concerned.
Right(seen, key, s) ==
  s \in Members /\ \A m \in seen : m = s \/ ~Between(m, key, s)

LooksUp(n) ==
  /\ pc[n] \in {"find", "findWait"} /\ find[n].for = "lookup"
  /\ find[n].target \notin Node /\ n \in lookup[n].seen

\* The nodes in W search for n's key; they include whoever works for one of
\* them, and the answers they have got are right.
Search(n, W) ==
  /\ n \in W
  /\ \A c \in W :
       /\ pc[c] \in {"find", "findWait"} /\ find[c].target = find[n].target
       /\ \A m \in Node : call[c].to = m /\ WorksFor(m, c) => m \in W
       /\ call[c].phase = "replied" => Right(lookup[n].seen, find[n].target, call[c].node)

\* The nodes seen are still on the ring, all who search for n are on it, and
\* what n was told is right.
Followed(n) ==
  /\ lookup[n].seen \subseteq OnRing
  /\ LooksUp(n) => \E W \in SUBSET OnRing : Search(n, W)
  /\ lookup[n].node # Empty /\ lookup[n].key \notin Node /\ n \in lookup[n].seen
       => Right(lookup[n].seen, lookup[n].key, lookup[n].node)

AllFollowed == \A n \in Node : Followed(n)

-----------------------------------------------------------------------------
(* Lookups *)

LEMMA RingWidens == Widens => OnRing \subseteq OnRing'
BY DEF Widens, OnRing

LEMMA RightWidens ==
  ASSUME Widens, NEW seen, NEW key, NEW s, Right(seen, key, s)
  PROVE  Right(seen, key, s)'
BY DEF Widens, Right

\* So an answer to a search for n stays right.
LEMMA AnswerStaysRight ==
  ASSUME Widens, NEW n \in Node, NEW c \in Node, lookup'[n] = lookup[n], find'[n] = find[n],
         call'[c] = call[c], Right(lookup[n].seen, find[n].target, call[c].node)
  PROVE  Right(lookup[n].seen, find[n].target, call[c].node)'
<1>1. PICK seen, key, s : seen = lookup[n].seen /\ key = find[n].target /\ s = call[c].node
  OBVIOUS
<1>2. Right(seen, key, s)'
  BY <1>1, RightWidens
<1> QED BY <1>1, <1>2

\* What a node on the ring leads to is on the ring.
LEMMA RingLeadsOn ==
  ASSUME TypeOK, Ring, NEW x \in OnRing
  PROVE  x \in Members /\ Reached(x) \subseteq OnRing /\ list[x][0] \in OnRing
<1>1. x \in Members /\ Creator \in Members /\ OnRing = Reached(Creator)
  BY RingIsReached DEF OnRing, Ring
<1>2. Reached(x) \subseteq OnRing
  BY <1>1, ReachedOnwards
<1> QED BY <1>1, <1>2, ReachedClosed, NodesAreNumbers

\* Who is not skipped by a node on the ring is not skipped by its answer.
LEMMA OwnerIsRight ==
  ASSUME NEW a \in Nat, NEW s \in Nat, NEW t \in Nat, NEW m \in Nat,
         Between(t, a, s) \/ a = s, m = a \/ ~Between(m, a, s), m # s
  PROVE  ~Between(m, t, s)
BY DEF Between

\* A node on the ring that answers a search for nobody's identifier, or is
\* answered, returns a right answer.
LEMMA ReturnsRight ==
  ASSUME CallInv, Ring, NEW n \in Node, NEW W \in SUBSET OnRing, Search(n, W),
         lookup[n].seen \subseteq OnRing, find[n].target \notin Node,
         NEW a \in W, FindHere(a) \/ Found(a)
  PROVE  \E s : Return(a, s) /\ Right(lookup[n].seen, find[n].target, s)
<1> DEFINE t == find[n].target
<1>1. TypeOK /\ a \in OnRing /\ a \in Node /\ find[a].target = t /\ t \in Nat
  BY NodesAreNumbers DEF Search, CallInv, TypeOK, OnRing
<1>2. CASE FindHere(a)
  <2> DEFINE s == list[a][0]
  <2>1. s \in OnRing /\ s \in Node /\ s \in Members /\ OnRing \subseteq Node
    BY <1>1, RingLeadsOn, NodesAreNumbers DEF OnRing
  <2>2. Owns(a, t) /\ Return(a, s)
    BY <1>1, <1>2, <2>1, FindHereOwns
  <2>3. ASSUME NEW m \in lookup[n].seen, m # s PROVE ~Between(m, t, s)
    <3>1. m \in OnRing /\ m \in Nat /\ a \in Nat /\ s \in Nat
      BY <1>1, <2>1, NodesAreNumbers
    <3>2. m = a \/ ~Between(m, a, s)
      BY <1>1, <3>1, NobodySkipped
    <3>3. Between(t, a, s) \/ a = s
      BY <2>2 DEF Owns
    <3> HIDE DEF s, t
    <3> QED BY <1>1, <2>3, <3>1, <3>2, <3>3, OwnerIsRight
  <2> QED BY <2>1, <2>2, <2>3 DEF Right
<1>3. CASE Found(a)
  BY <1>3 DEF Found, Answered, Search
<1> QED BY <1>2, <1>3

\* A step of a node that does not take part in the search.
LEMMA SearchElsewhere ==
  ASSUME Widens, NEW n \in Node, NEW W \in SUBSET Node, Search(n, W), NEW a \in Node \ W,
         \A x \in Node \ {a} : pc'[x] = pc[x] /\ find'[x] = find[x] /\ lookup'[x] = lookup[x],
         \A c \in W : call'[c] = call[c] /\ (WorksFor(a, c)' => WorksFor(a, c))
  PROVE  Search(n, W)'
<1>1. n \in W /\ lookup'[n] = lookup[n] /\ find'[n] = find[n]
  BY DEF Search
<1>2. ASSUME NEW c \in W
      PROVE  /\ pc'[c] \in {"find", "findWait"} /\ find'[c].target = find'[n].target
             /\ \A m \in Node : call'[c].to = m /\ WorksFor(m, c)' => m \in W
             /\ call'[c].phase = "replied" =>
                  Right(lookup[n].seen, find[n].target, call[c].node)'
  <2>1. pc'[c] \in {"find", "findWait"} /\ find'[c].target = find'[n].target
    BY <1>1 DEF Search
  <2>2. ASSUME NEW m \in Node, call'[c].to = m, WorksFor(m, c)' PROVE m \in W
    <3>1. WorksFor(m, c)
      <4>1. CASE m = a
        BY <2>2, <4>1
      <4>2. CASE m # a
        BY <2>2, <4>2 DEF WorksFor
      <4> QED BY <4>1, <4>2
    <3> QED BY <2>2, <3>1 DEF Search
  <2>3. ASSUME call'[c].phase = "replied"
        PROVE  Right(lookup[n].seen, find[n].target, call[c].node)'
    <3>1. Right(lookup[n].seen, find[n].target, call[c].node)
      BY <2>3 DEF Search
    <3> QED BY <1>1, <3>1, AnswerStaysRight
  <2> QED BY <2>1, <2>2, <2>3
<1> QED BY <1>1, <1>2 DEF Search

\* A step that has nothing to do with a lookup: its process neither was in a
\* search nor starts one for a user or a client, and the processes that are in
\* a search keep their calls.
Aside(a) ==
  /\ pc[a] \notin {"find", "findWait"}
  /\ pc'[a] \in {"find", "retry", "findWait"} => find'[a].for = "fix"
  /\ UNCHANGED lookup
  /\ \A x \in Node \ {a} : pc[x] \in {"find", "findWait"} => call'[x] = call[x]

LEMMA OneSearch ==
  ASSUME CallInv, Ring, NEW a \in Node, NEW c \in Node,
         \/ Continue(a) \/ StabilizeTimer(a) \/ FixFingers(a)
         \/ CheckPredecessor(a) \/ Serve(a, c) \/ Join(a, c)
         \/ \E key \in Key[a] : Lookup(a, key)
  PROVE  \A x \in Node \ {a} : find'[x] = find[x] /\ lookup'[x] = lookup[x]
<1>0. TypeOK
  BY DEF CallInv
<1>1. CASE Continue(a)
  <2>1. CASE FindHere(a) \/ Found(a)
    BY <1>0, <2>1 DEF FindHere, Found, Return, TypeOK
  <2>2. CASE \/ JoinFound(a) \/ JoinDone(a) \/ GotPredecessor(a) \/ GotList(a)
             \/ GotListOfPredecessor(a) \/ Notified(a) \/ FindElsewhere(a)
             \/ PredecessorChecked(a)
    BY <2>2 DEF JoinFound, JoinDone, GotPredecessor, GotList, GotListOfPredecessor,
                Notified, FindElsewhere, PredecessorChecked
  <2> QED BY <1>1, <2>1, <2>2, NoFailureStep DEF Continue
<1>2. CASE StabilizeTimer(a) \/ FixFingers(a) \/ CheckPredecessor(a)
  BY <1>0, <1>2 DEF StabilizeTimer, StabilizeAlone, Stabilize, FixFingers, EnterFind,
                    CheckPredecessor, TypeOK
<1>3. CASE Serve(a, c)
  BY <1>0, <1>3 DEF Serve, ServeFindSuccessor, EnterFind, ServeGetSuccessorList,
                    ServeGetPredecessor, ServeNotify, ServeCheckPredecessor, TypeOK
<1>4. CASE Join(a, c) \/ \E key \in Key[a] : Lookup(a, key)
  BY <1>0, <1>4 DEF Join, Lookup, EnterFind, TypeOK
<1> QED BY <1>1, <1>2, <1>3, <1>4

LEMMA StepKinds ==
  ASSUME CallInv, Ring, Ring', NEW a \in Node, NEW c \in Node,
         \/ Continue(a) \/ StabilizeTimer(a) \/ FixFingers(a)
         \/ CheckPredecessor(a) \/ Serve(a, c) \/ Join(a, c)
         \/ \E key \in Key[a] : Lookup(a, key)
  PROVE  \/ FindHere(a) \/ Found(a) \/ FindElsewhere(a) \/ ServeFindSuccessor(a, c)
         \/ \E key \in Key[a] : Lookup(a, key)
         \/ Aside(a)
<1>0. TypeOK /\ pc'[a] # "crashed"
  BY DEF CallInv, Ring, Sound, Healthy
<1>1. ASSUME NEW where, where \notin {"find", "retry", "findWait"}, NEW k,
             pc' = [pc EXCEPT ![a] = where], call' = [call EXCEPT ![a] = k] \/ UNCHANGED call,
             pc[a] \notin {"find", "findWait"}, UNCHANGED lookup
      PROVE  Aside(a)
  BY <1>0, <1>1 DEF TypeOK, Aside
<1>2. ASSUME NEW m, NEW rpc, NEW arg, NEW where, Ask(a, m, rpc, arg, where),
             where \notin {"find", "retry", "findWait"},
             pc[a] \notin {"find", "findWait"}, UNCHANGED lookup
      PROVE  Aside(a)
  BY <1>1, <1>2 DEF Ask
<1>3. ~Die(a)
  BY <1>0 DEF Die, TypeOK
<1>4. CASE JoinFound(a) \/ GotPredecessor(a) \/ GotList(a) \/ GotListOfPredecessor(a)
  BY <1>2, <1>3, <1>4
  DEF JoinFound, GotPredecessor, GotList, GotListOfPredecessor, Notify, Answered
<1>5. CASE JoinDone(a) \/ Notified(a) \/ PredecessorChecked(a)
  BY <1>1, <1>5 DEF JoinDone, Notified, PredecessorChecked, Answered
<1>6. CASE StabilizeAlone(a)
  BY <1>6 DEF StabilizeAlone, Aside
<1>7. CASE Stabilize(a)
  <2>1. ASSUME NEW i, TryPredecessor(a, i)
        PROVE  \/ \E m : Ask(a, m, "get_predecessor", 0, "stPred")
               \/ \E w \in {"scan", "hung"} : pc' = [pc EXCEPT ![a] = w] /\ UNCHANGED call
    BY <1>3, <2>1 DEF TryPredecessor
  <2>2. /\ pc[a] = "idle" /\ UNCHANGED lookup
        /\ \/ \E m : Ask(a, m, "get_predecessor", 0, "stPred")
           \/ \E w \in {"scan", "hung"} : pc' = [pc EXCEPT ![a] = w] /\ UNCHANGED call
    BY <1>7, <2>1 DEF Stabilize
  <2> QED BY <1>1, <1>2, <2>2
<1>8. CASE FixFingers(a)
  BY <1>0, <1>8 DEF FixFingers, EnterFind, Aside, TypeOK
<1>9. CASE CheckPredecessor(a)
  <2>1. pc[a] = "idle" /\ UNCHANGED lookup
    BY <1>9 DEF CheckPredecessor
  <2>2. CASE UNCHANGED <<pc, call>>
    BY <2>1, <2>2 DEF Aside
  <2>3. CASE Ask(a, prede[a], "check_predecessor", 0, "check")
    BY <1>2, <2>1, <2>3
  <2> QED BY <1>9, <2>2, <2>3 DEF CheckPredecessor
<1>10. CASE Join(a, c)
  BY <1>2, <1>10 DEF Join
<1>11. CASE Serve(a, c) /\ ~ServeFindSuccessor(a, c)
  <2>1. PICK rpc, v, l : /\ Accept(a, c, rpc) /\ Reply(a, c, v, l) /\ UNCHANGED <<pc, find, lookup>>
                         /\ rpc \in {"get_successor_list", "get_predecessor", "notify",
                                     "check_predecessor"}
    BY <1>11 DEF Serve, ServeGetSuccessorList, ServeGetPredecessor, ServeNotify,
                 ServeCheckPredecessor
  <2>2. pc[a] = "idle" /\ call[c].phase = "queued" /\ call[c].rpc = rpc
    BY <2>1 DEF Accept
  <2>3. pc[c] \notin {"find", "findWait"}
    BY <2>1, <2>2, WaitingPlaces, WaitsForValues DEF CallInv, Bookkeeping, BlockedInItsCall
  <2>4. \A x \in Node \ {a, c} : call'[x] = call[x]
    BY <1>0, <2>1 DEF Reply, TypeOK
  <2> QED BY <2>1, <2>2, <2>3, <2>4 DEF Aside
<1> QED BY <1>4, <1>5, <1>6, <1>7, <1>8, <1>9, <1>10, <1>11, NoFailureStep
    DEF Continue, StabilizeTimer

\* What a node waits for is a search of its own target, and nobody works for
\* it before it has been accepted.
LEMMA SearchCalls ==
  ASSUME CallInv, Ring, NEW c \in Node, pc[c] \in {"find", "findWait"}
  PROVE  /\ call[c].phase # "none" => pc[c] = "findWait"
         /\ pc[c] = "findWait" => /\ call[c].phase # "none" /\ call[c].rpc = "find_successor"
                                  /\ call[c].arg = find[c].target
         /\ \A m \in Node : WorksFor(m, c) => call[c].to = m /\ call[c].phase = "accepted"
BY WaitingPlaces, WaitsForValues
DEF CallInv, Bookkeeping, BlockedInItsCall, ServedIsWaiting, Ring, Sound, AsksForTarget

\* A node of the search is accepted by a, which joins the search.
LEMMA SearchJoins ==
  ASSUME CallInv, CallInv', Ring, Ring', AllAhead, Widens, NEW n \in Node,
         NEW W \in SUBSET OnRing, Search(n, W), NEW a \in Node, NEW c \in W,
         ServeFindSuccessor(a, c)
  PROVE  a \in OnRing /\ Search(n, W \cup {a})'
<1>0. /\ TypeOK /\ W \subseteq Node /\ c \in Node /\ n \in W /\ c \in OnRing
      /\ pc[c] \in {"find", "findWait"} /\ find[c].target = find[n].target
  BY NodesAreNumbers DEF CallInv, OnRing, Search
<1>1. /\ pc[a] = "idle" /\ call[c].to = a /\ call[c].phase = "queued"
      /\ EnterFind(a, "serve", c, call[c].arg)
      /\ call' = [call EXCEPT ![c].phase = "accepted"] /\ UNCHANGED lookup
  BY DEF ServeFindSuccessor, Accept
<1>2. a \notin W /\ a # c /\ call[a].phase = "none"
  BY <1>0, <1>1, WaitingPlaces DEF Search, CallInv, Bookkeeping, BlockedInItsCall
<1>3. a \in OnRing
  <2>1. pc[c] = "findWait"
    BY <1>0, <1>1, SearchCalls
  <2>2. a \in Reached(c) \cup {c}
    BY <1>0, <1>1, <2>1 DEF AllAhead, Ahead, TablesAhead
  <2> QED BY <1>0, <2>2, RingLeadsOn
<1>4. /\ pc'[a] = "find" /\ find'[a].target = find[n].target
      /\ \A x \in Node \ {a} : pc'[x] = pc[x] /\ find'[x] = find[x]
  <2>1. call[c].arg = find[n].target
    BY <1>0, <1>1, SearchCalls
  <2> QED BY <1>0, <1>1, <2>1 DEF EnterFind, TypeOK
<1>5. /\ \A x \in Node \ {c} : call'[x] = call[x]
      /\ call'[c].phase = "accepted" /\ call'[c].to = a
  <2>1. call'[c] = [call[c] EXCEPT !.phase = "accepted"] /\ call[c] \in Calls
    BY <1>0, <1>1 DEF TypeOK
  <2>2. \A x \in Node \ {c} : call'[x] = call[x]
    BY <1>0, <1>1 DEF TypeOK
  <2> QED BY <1>1, <2>1, <2>2 DEF Calls
<1>6. n # a /\ find'[n] = find[n] /\ lookup'[n] = lookup[n]
  BY <1>0, <1>1, <1>2, <1>4
<1>7. ASSUME NEW x \in W \cup {a}
      PROVE  /\ pc'[x] \in {"find", "findWait"} /\ find'[x].target = find'[n].target
             /\ \A m \in Node : call'[x].to = m /\ WorksFor(m, x)' => m \in W \cup {a}
             /\ call'[x].phase = "replied" =>
                  Right(lookup[n].seen, find[n].target, call[x].node)'
  <2>1. CASE x = a
    <3>1. call'[a].phase = "none"
      BY <1>2, <1>5
    <3>2. \A m \in Node : ~WorksFor(m, a)'
      BY <1>4, <3>1 DEF CallInv, Bookkeeping, ServedIsWaiting
    <3> QED BY <1>4, <1>6, <2>1, <3>1, <3>2
  <2>2. CASE x = c
    BY <1>0, <1>2, <1>4, <1>5, <1>6, <2>2
  <2>3. CASE x # a /\ x # c
    <3>1. x \in Node /\ x \in W /\ call'[x] = call[x]
      BY <1>0, <1>5, <2>3
    <3>2. ASSUME NEW m \in Node, call'[x].to = m, WorksFor(m, x)' PROVE m \in W \cup {a}
      <4>1. CASE m # a
        BY <1>4, <3>1, <3>2, <4>1 DEF WorksFor, Search
      <4> QED BY <4>1
    <3>3. ASSUME call'[x].phase = "replied"
          PROVE  Right(lookup[n].seen, find[n].target, call[x].node)'
      <4>1. Right(lookup[n].seen, find[n].target, call[x].node)
        BY <3>1, <3>3 DEF Search
      <4> QED BY <1>6, <3>1, <4>1, AnswerStaysRight
    <3>4. pc[x] \in {"find", "findWait"} /\ find[x].target = find[n].target
      BY <3>1 DEF Search
    <3> QED BY <1>4, <1>6, <2>3, <3>1, <3>2, <3>3, <3>4
  <2> QED BY <2>1, <2>2, <2>3
<1>8. Search(n, W \cup {a})'
  BY <1>0, <1>7 DEF Search
<1> QED BY <1>3, <1>8

\* A node of the search passes it on.
LEMMA SearchGoesOn ==
  ASSUME CallInv, CallInv', Ring, Ring', Widens, NEW n \in Node,
         NEW W \in SUBSET Node, Search(n, W), NEW a \in W, FindElsewhere(a)
  PROVE  Search(n, W)'
<1>0. TypeOK /\ a \in Node /\ n \in W
  BY DEF CallInv, Search
<1>1. /\ pc[a] = "find" /\ UNCHANGED <<find, lookup>>
      /\ \E place : ClosestPreceding(a, place) /\ Forward(a, place)
  BY DEF FindElsewhere
<1>2. PICK m : Ask(a, m, "find_successor", find[a].target, "findWait")
  <2>1. pc'[a] # "retry"
    BY <1>0 DEF Ring, Sound, Healthy
  <2> QED BY <1>0, <1>1, <2>1 DEF Forward, TypeOK
<1>3. /\ pc'[a] = "findWait" /\ call'[a].phase = "queued"
      /\ \A x \in Node \ {a} : pc'[x] = pc[x] /\ call'[x] = call[x]
  BY <1>0, <1>2, AskFields
<1>4. ASSUME NEW x \in W
      PROVE  /\ pc'[x] \in {"find", "findWait"} /\ find'[x].target = find'[n].target
             /\ \A k \in Node : call'[x].to = k /\ WorksFor(k, x)' => k \in W
             /\ call'[x].phase = "replied" =>
                  Right(lookup[n].seen, find[n].target, call[x].node)'
  <2>0. pc[x] \in {"find", "findWait"} /\ find[x].target = find[n].target /\ x \in Node
    BY DEF Search
  <2>1. CASE x = a
    <3>1. \A k \in Node : ~WorksFor(k, a)'
      BY <1>0, <1>3 DEF CallInv, Bookkeeping, ServedIsWaiting
    <3> QED BY <1>1, <1>3, <2>0, <2>1, <3>1
  <2>2. CASE x # a
    <3>1. ASSUME NEW k \in Node, call'[x].to = k, WorksFor(k, x)' PROVE k \in W
      <4>1. CASE k # a
        BY <1>1, <1>3, <2>0, <2>2, <3>1, <4>1 DEF WorksFor, Search
      <4> QED BY <4>1
    <3>2. ASSUME call'[x].phase = "replied"
          PROVE  Right(lookup[n].seen, find[n].target, call[x].node)'
      <4>0. call'[x] = call[x]
        BY <1>3, <2>0, <2>2
      <4>1. Right(lookup[n].seen, find[n].target, call[x].node)
        BY <3>2, <4>0 DEF Search
      <4> QED BY <1>1, <2>0, <4>0, <4>1, AnswerStaysRight
    <3> QED BY <1>1, <1>3, <2>0, <2>2, <3>1, <3>2
  <2> QED BY <2>1, <2>2
<1> QED BY <1>0, <1>4 DEF Search

\* What a returns reaches nobody but the client that a works for.
LEMMA ReturnReaches ==
  ASSUME TypeOK, NEW a \in Node, NEW x \in Node, x # a, pc[x] # "crashed", NEW s, Return(a, s)
  PROVE  \/ call'[x] = call[x]
         \/ call'[x].to = call[x].to /\ call'[x].node = s
<1>1. CASE Reply(a, x, s, NoList)
  BY <1>1, ReplyFields
<1>2. CASE \E y : y # x /\ Reply(a, y, s, NoList)
  BY <1>2 DEF Reply, TypeOK
<1>3. CASE call' = [call EXCEPT ![a] = NoCall]
  BY <1>3 DEF TypeOK
<1> QED BY <1>1, <1>2, <1>3 DEF Return

\* A node of the search, not the one that started it, answers and leaves it.
LEMMA SearchLeaves ==
  ASSUME CallInv, Ring, Widens, NEW n \in Node, NEW W \in SUBSET Node, Search(n, W),
         NEW a \in W, a # n, NEW s, Return(a, s), Right(lookup[n].seen, find[n].target, s)
  PROVE  Search(n, W \ {a})'
<1>0. TypeOK /\ a \in Node /\ n \in W /\ pc[a] \in {"find", "findWait"} /\ s \in Members
  BY DEF CallInv, Search, Right
<1>1. /\ pc'[a] = "idle" /\ \A x \in Node \ {a} : pc'[x] = pc[x] /\ find'[x] = find[x]
      /\ \A x \in Node \ {a} : lookup'[x] = lookup[x]
  BY <1>0 DEF Return, TypeOK
<1>2. ASSUME NEW x \in W \ {a}
      PROVE  \/ call'[x] = call[x]
             \/ call'[x].to = call[x].to /\ call'[x].node = s
  <2>1. pc[x] # "crashed" /\ x \in Node /\ x # a
    BY DEF Search
  <2> QED BY <1>0, <2>1, ReturnReaches
<1>3. ASSUME NEW x \in W \ {a}
      PROVE  /\ pc'[x] \in {"find", "findWait"} /\ find'[x].target = find'[n].target
             /\ \A k \in Node : call'[x].to = k /\ WorksFor(k, x)' => k \in W \ {a}
             /\ call'[x].phase = "replied" =>
                  Right(lookup[n].seen, find[n].target, call[x].node)'
  <2>0. pc[x] \in {"find", "findWait"} /\ find[x].target = find[n].target /\ x \in Node
    BY DEF Search
  <2>1. ASSUME NEW k \in Node, call'[x].to = k, WorksFor(k, x)' PROVE k \in W \ {a}
    <3>1. k # a
      BY <1>1, <2>1 DEF WorksFor
    <3>2. WorksFor(k, x) /\ call[x].to = k
      BY <1>1, <1>2, <2>1, <3>1 DEF WorksFor
    <3> QED BY <3>1, <3>2 DEF Search
  <2>2. ASSUME call'[x].phase = "replied"
        PROVE  Right(lookup[n].seen, find[n].target, call[x].node)'
    <3>1. CASE call'[x] = call[x]
      <4>1. Right(lookup[n].seen, find[n].target, call[x].node)
        BY <2>2, <3>1 DEF Search
      <4> QED BY <1>1, <2>0, <3>1, <4>1, AnswerStaysRight
    <3>2. CASE call'[x].node = s
      <4>1. PICK seen, key : seen = lookup[n].seen /\ key = find[n].target
        OBVIOUS
      <4>2. Right(seen, key, s)'
        BY <4>1, RightWidens
      <4> QED BY <1>1, <3>2, <4>1, <4>2
    <3> QED BY <1>2, <3>1, <3>2
  <2> QED BY <1>1, <2>0, <2>1, <2>2
<1> QED BY <1>0, <1>3 DEF Search

\* What a step does to the record of n's lookup.
LEMMA LookupSteps ==
  ASSUME CallInv, Ring, NEW a \in Node, NEW c \in Node,
         \/ FindHere(a) \/ Found(a) \/ FindElsewhere(a) \/ ServeFindSuccessor(a, c)
         \/ \E key \in Key[a] : Lookup(a, key)
         \/ Aside(a)
  PROVE  \/ UNCHANGED lookup
         \/ /\ \E key \in Key[a] : Lookup(a, key)
            /\ lookup'[a].node = Empty /\ lookup'[a].seen = OnRing
         \/ /\ FindHere(a) \/ Found(a)
            /\ find[a].for = "lookup" /\ lookup'[a].seen = lookup[a].seen
            /\ lookup'[a].key = find[a].target
            /\ \A s : Return(a, s) => lookup'[a].node = s
<1>0. TypeOK
  BY DEF CallInv
<1>1. CASE \E key \in Key[a] : Lookup(a, key)
  <2>1. PICK key \in Key[a] : Lookup(a, key)
    BY <1>1
  <2>2. lookup'[a] = [key |-> key, node |-> Empty, seen |-> OnRing]
    BY <1>0, <2>1 DEF Lookup, TypeOK
  <2> QED BY <1>1, <2>2
<1>2. CASE FindHere(a) \/ Found(a)
  BY <1>0, <1>2 DEF FindHere, Found, Return, TypeOK
<1>3. CASE FindElsewhere(a) \/ ServeFindSuccessor(a, c) \/ Aside(a)
  BY <1>3 DEF FindElsewhere, ServeFindSuccessor, Aside
<1> QED BY <1>1, <1>2, <1>3

LEMMA SeenStays ==
  ASSUME CallInv, Ring, Widens, AllFollowed, NEW n \in Node, NEW a \in Node,
         \A x \in Node \ {a} : lookup'[x] = lookup[x],
         lookup'[a].seen \in {lookup[a].seen, OnRing}
  PROVE  lookup'[n].seen \subseteq OnRing'
<1>1. OnRing \subseteq OnRing' /\ lookup[n].seen \subseteq OnRing
  BY RingWidens DEF AllFollowed, Followed
<1> QED BY <1>1

\* a returns its answer to x.
Returns(a, x) ==
  /\ FindHere(a) \/ Found(a)
  /\ \A s : Return(a, s) => call'[x].node = s

\* The search of the nodes in W for n's key becomes one of nodes on the ring
\* again, in which a node has a new answer only if a, who took part, returns it.
GoesOn(n, W, a) ==
  \E V \in SUBSET OnRing' :
    /\ Search(n, V)'
    /\ \A x \in V : call'[x].phase = "replied" =>
         x \in W /\ (call'[x] = call[x] \/ (a \in W /\ Returns(a, x)))

LEMMA SearchMoves ==
  ASSUME CallInv, CallInv', Ring, Ring', AllAhead, Widens,
         NEW n \in Node, LooksUp(n), lookup[n].seen \subseteq OnRing,
         NEW W \in SUBSET OnRing, Search(n, W), NEW a \in Node, NEW c \in Node,
         a # n \/ FindElsewhere(a),
         \/ FindHere(a) \/ Found(a) \/ FindElsewhere(a) \/ ServeFindSuccessor(a, c)
         \/ \E key \in Key[a] : Lookup(a, key)
         \/ Aside(a),
         \A x \in Node \ {a} : pc'[x] = pc[x] /\ find'[x] = find[x] /\ lookup'[x] = lookup[x]
  PROVE  GoesOn(n, W, a)
<1>0. TypeOK /\ OnRing \subseteq OnRing' /\ OnRing \subseteq Node
  BY RingWidens, NodesAreNumbers DEF CallInv, OnRing
<1>3. ASSUME a \notin W, \A x \in W : call'[x] = call[x] /\ (WorksFor(a, x)' => WorksFor(a, x))
      PROVE  GoesOn(n, W, a)
  <2>1. Search(n, W)'
    BY <1>0, <1>3, SearchElsewhere
  <2> QED BY <1>0, <1>3, <2>1 DEF GoesOn
<1>4. \A x \in W : pc[x] \in {"find", "findWait"} /\ x \in Node
  BY <1>0 DEF Search
<1>5. CASE Aside(a)
  <2>1. a \notin W /\ \A x \in W : call'[x] = call[x] /\ ~WorksFor(a, x)'
    BY <1>4, <1>5 DEF Aside, WorksFor
  <2> QED BY <1>0, <1>3, <2>1
<1>6. CASE \E key \in Key[a] : Lookup(a, key)
  <2>1. pc[a] = "idle" /\ find'[a].for = "lookup" /\ UNCHANGED call
    BY <1>0, <1>6 DEF Lookup, EnterFind, TypeOK
  <2>2. a \notin W /\ \A x \in W : ~WorksFor(a, x)'
    BY <1>4, <2>1 DEF WorksFor
  <2> QED BY <1>0, <1>3, <2>1, <2>2
<1>7. CASE ServeFindSuccessor(a, c)
  <2>1. CASE c \in W
    <3>1. a \in OnRing /\ Search(n, W \cup {a})'
      BY <1>0, <1>7, <2>1, SearchJoins
    <3>2. /\ pc[a] = "idle" /\ call[c].phase = "queued"
          /\ call' = [call EXCEPT ![c].phase = "accepted"]
      BY <1>0, <1>7 DEF ServeFindSuccessor, Accept, EnterFind, TypeOK
    <3>3. call[a].phase = "none" /\ a # c
      BY <3>2, WaitingPlaces DEF CallInv, Bookkeeping, BlockedInItsCall
    <3>4. /\ \A x \in Node \ {c} : call'[x] = call[x]
          /\ call'[c].phase = "accepted"
      BY <1>0, <3>2 DEF TypeOK, Calls
    <3>5. \A x \in W \cup {a} : call'[x].phase = "replied" => x \in W /\ call'[x] = call[x]
      BY <1>0, <3>3, <3>4
    <3>6. W \cup {a} \in SUBSET OnRing'
      BY <1>0, <3>1
    <3> QED BY <3>1, <3>5, <3>6 DEF GoesOn
  <2>2. CASE c \notin W
    <3>1. /\ pc[a] = "idle" /\ find'[a].client = c
          /\ call' = [call EXCEPT ![c].phase = "accepted"]
      BY <1>0, <1>7 DEF ServeFindSuccessor, Accept, EnterFind, TypeOK
    <3>2. a \notin W /\ \A x \in W : call'[x] = call[x] /\ ~WorksFor(a, x)'
      BY <1>0, <1>4, <2>2, <3>1 DEF WorksFor, TypeOK
    <3> QED BY <1>0, <1>3, <3>2
  <2> QED BY <2>1, <2>2
<1>8. CASE FindElsewhere(a)
  <2>1. CASE a \in W
    <3>1. Search(n, W)'
      BY <1>0, <1>8, <2>1, SearchGoesOn
    <3>2. pc'[a] # "retry" /\ pc[a] = "find"
          /\ \E place : ClosestPreceding(a, place) /\ Forward(a, place)
      BY <1>8 DEF FindElsewhere, Ring, Sound, Healthy
    <3>3. PICK m : Ask(a, m, "find_successor", find[a].target, "findWait")
      BY <1>0, <3>2 DEF Forward, TypeOK
    <3>4. call'[a].phase = "queued" /\ \A x \in Node \ {a} : call'[x] = call[x]
      BY <1>0, <3>3, AskFields
    <3> QED BY <1>0, <3>1, <3>4 DEF GoesOn
  <2>2. CASE a \notin W
    <3>1. \A x \in W : call'[x] = call[x] /\ (WorksFor(a, x)' => WorksFor(a, x))
      BY <1>0, <1>4, <1>8, <2>2 DEF FindElsewhere, Forward, Ask, WorksFor, TypeOK
    <3> QED BY <1>0, <1>3, <2>2, <3>1
  <2> QED BY <2>1, <2>2
<1>9. CASE (FindHere(a) \/ Found(a)) /\ a # n
  <2>1. CASE a \in W
    <3>1. PICK s : Return(a, s) /\ Right(lookup[n].seen, find[n].target, s)
      BY <1>9, <2>1, ReturnsRight DEF LooksUp
    <3>2. Search(n, W \ {a})'
      BY <1>0, <1>9, <2>1, <3>1, SearchLeaves
    <3>3. ASSUME NEW x \in W \ {a}, call'[x] # call[x] PROVE Returns(a, x)
      <4>1. pc[x] # "crashed" /\ x \in Node
        BY <1>4
      <4>2. \A v : Return(a, v) => call'[x].node = v
        BY <1>0, <3>3, <4>1, ReturnReaches
      <4> QED BY <1>9, <4>2 DEF Returns
    <3>4. W \ {a} \in SUBSET OnRing'
      BY <1>0
    <3> QED BY <2>1, <3>2, <3>3, <3>4 DEF GoesOn
  <2>2. CASE a \notin W
    <3>1. PICK s : Return(a, s)
      BY <1>9 DEF FindHere, Found
    <3>2. pc'[a] = "idle"
      BY <1>0, <3>1 DEF Return, TypeOK
    <3>3. ASSUME NEW x \in W PROVE call'[x] = call[x]
      <4>1. CASE call' = [call EXCEPT ![a] = NoCall]
        BY <1>0, <1>4, <2>2, <4>1 DEF TypeOK
      <4>2. CASE find[a].for = "serve" /\ Reply(a, find[a].client, s, NoList)
        <5>1. find[a].client # x
          <6> SUFFICES ASSUME find[a].client = x PROVE FALSE
            OBVIOUS
          <6>1. WorksFor(a, x) /\ x \in Node
            BY <1>4, <1>9, <4>2 DEF WorksFor, FindHere, Found, Answered
          <6>2. call[x].to = a
            BY <1>4, <6>1, SearchCalls
          <6> QED BY <2>2, <6>1, <6>2 DEF Search
        <5> QED BY <1>0, <1>4, <2>2, <4>2, <5>1 DEF Reply, TypeOK
      <4> QED BY <3>1, <4>1, <4>2 DEF Return
    <3>4. \A x \in W : ~WorksFor(a, x)'
      BY <3>2 DEF WorksFor
    <3> QED BY <1>0, <1>3, <2>2, <3>3, <3>4
  <2> QED BY <2>1, <2>2
<1>10. CASE a # n
  BY <1>5, <1>6, <1>7, <1>8, <1>9, <1>10
<1> QED BY <1>8, <1>10

\* A lookup begins with a search of its own node.
LEMMA SearchStarts ==
  ASSUME CallInv, NEW n \in Node, LooksUp(n)', \E key \in Key[n] : Lookup(n, key)
  PROVE  n \in OnRing /\ Search(n, {n})' /\ call'[n].phase = "none"
<1>0. TypeOK
  BY DEF CallInv
<1>1. PICK key \in Key[n] : Lookup(n, key)
  OBVIOUS
<1>2. pc[n] = "idle" /\ lookup'[n].seen = OnRing /\ pc'[n] = "find" /\ call'[n] = call[n]
  BY <1>0, <1>1 DEF Lookup, EnterFind, TypeOK
<1>3. n \in OnRing /\ call'[n].phase = "none" /\ call'[n].to \notin Node
  BY <1>2, WaitingPlaces DEF LooksUp, CallInv, Bookkeeping, BlockedInItsCall, Callees
<1>4. Search(n, {n})'
  BY <1>2, <1>3 DEF Search
<1> QED BY <1>3, <1>4

LEMMA SearchContinues ==
  ASSUME CallInv, CallInv', Ring, Ring', AllAhead, AllFollowed, Widens,
         NEW n \in Node, LooksUp(n)', NEW a \in Node, NEW c \in Node,
         \/ FindHere(a) \/ Found(a) \/ FindElsewhere(a) \/ ServeFindSuccessor(a, c)
         \/ \E key \in Key[a] : Lookup(a, key)
         \/ Aside(a),
         \A x \in Node \ {a} : pc'[x] = pc[x] /\ find'[x] = find[x] /\ lookup'[x] = lookup[x]
  PROVE  \E W \in SUBSET OnRing' : Search(n, W)'
<1>0. TypeOK /\ OnRing \subseteq OnRing' /\ OnRing \subseteq Node
  BY RingWidens, NodesAreNumbers DEF CallInv, OnRing
<1>1. CASE a = n /\ \E key \in Key[a] : Lookup(a, key)
  <2>1. n \in OnRing /\ Search(n, {n})'
    BY <1>1, SearchStarts
  <2> QED BY <1>0, <2>1
<1>2. CASE a # n \/ FindElsewhere(a)
  <2>1. LooksUp(n) /\ lookup[n].seen \subseteq OnRing /\ find[n].target \notin Node
    BY <1>0, <1>2 DEF LooksUp, FindElsewhere, AllFollowed, Followed
  <2>2. PICK W \in SUBSET OnRing : Search(n, W)
    BY <2>1 DEF AllFollowed, Followed
  <2>3. GoesOn(n, W, a)
    BY <1>2, <2>1, <2>2, SearchMoves
  <2> QED BY <2>3 DEF GoesOn
<1>3. CASE a = n /\ Aside(a)
  BY <1>3 DEF Aside, LooksUp
<1>4. CASE a = n /\ ServeFindSuccessor(a, c)
  BY <1>0, <1>4 DEF ServeFindSuccessor, EnterFind, LooksUp, TypeOK
<1>5. CASE a = n /\ (FindHere(a) \/ Found(a))
  BY <1>0, <1>5 DEF FindHere, Found, Return, LooksUp, TypeOK
<1>6. CASE a = n
  BY <1>1, <1>2, <1>3, <1>4, <1>5, <1>6
<1>7. CASE a # n
  BY <1>2, <1>7
<1> QED BY <1>6, <1>7

\* What n was told stays right, and so is what it is told now.
LEMMA ToldRight ==
  ASSUME CallInv, Ring, AllFollowed, Widens, NEW n \in Node, NEW a \in Node, NEW c \in Node,
         \/ FindHere(a) \/ Found(a) \/ FindElsewhere(a) \/ ServeFindSuccessor(a, c)
         \/ \E key \in Key[a] : Lookup(a, key)
         \/ Aside(a),
         \A x \in Node \ {a} : lookup'[x] = lookup[x],
         (lookup[n].node # Empty /\ lookup[n].key \notin Node /\ n \in lookup[n].seen)'
  PROVE  Right(lookup[n].seen, lookup[n].key, lookup[n].node)'
<1>1. CASE lookup'[n] = lookup[n]
  <2>1. PICK seen, key, s : seen = lookup[n].seen /\ key = lookup[n].key /\ s = lookup[n].node
    OBVIOUS
  <2>2. Right(seen, key, s)
    BY <1>1, <2>1 DEF AllFollowed, Followed
  <2>3. Right(seen, key, s)'
    BY <2>2, RightWidens
  <2> QED BY <1>1, <2>1, <2>3
<1>2. CASE /\ a = n
           /\ FindHere(n) \/ Found(n)
           /\ find[n].for = "lookup" /\ lookup'[n].seen = lookup[n].seen
           /\ lookup'[n].key = find[n].target
           /\ \A s : Return(n, s) => lookup'[n].node = s
  <2>1. LooksUp(n)
    BY <1>2 DEF LooksUp, FindHere, Found, Answered
  <2>2. PICK W \in SUBSET OnRing : Search(n, W)
    BY <2>1 DEF AllFollowed, Followed
  <2>3. lookup[n].seen \subseteq OnRing /\ find[n].target \notin Node /\ n \in W
    BY <2>1, <2>2 DEF LooksUp, Search, AllFollowed, Followed
  <2>4. PICK s : Return(n, s) /\ Right(lookup[n].seen, find[n].target, s)
    BY <1>2, <2>2, <2>3, ReturnsRight
  <2>5. PICK seen, key : seen = lookup[n].seen /\ key = find[n].target
    OBVIOUS
  <2>6. Right(seen, key, s)'
    BY <2>4, <2>5, RightWidens
  <2> QED BY <1>2, <2>4, <2>5, <2>6
<1>3. CASE lookup'[n].node = Empty
  BY <1>3
<1>4. \/ UNCHANGED lookup
      \/ lookup'[a].node = Empty
      \/ /\ FindHere(a) \/ Found(a)
         /\ find[a].for = "lookup" /\ lookup'[a].seen = lookup[a].seen
         /\ lookup'[a].key = find[a].target
         /\ \A s : Return(a, s) => lookup'[a].node = s
  BY LookupSteps
<1>5. CASE a # n
  BY <1>1, <1>5
<1>6. CASE a = n
  BY <1>1, <1>2, <1>3, <1>4, <1>6
<1> QED BY <1>5, <1>6

LEMMA FollowedAction ==
  ASSUME CallInv, CallInv', Ring, Ring', AllAhead, AllFollowed, NEW a \in Node, NEW c \in Node,
         \/ Continue(a) \/ StabilizeTimer(a) \/ FixFingers(a)
         \/ CheckPredecessor(a) \/ Serve(a, c) \/ Join(a, c)
         \/ \E key \in Key[a] : Lookup(a, key)
  PROVE  AllFollowed'
<1>1. Widens
  BY WidensStep
<1>2. \A x \in Node \ {a} : pc'[x] = pc[x] /\ find'[x] = find[x] /\ lookup'[x] = lookup[x]
  BY OnePlace, OneSearch
<1>3. \/ FindHere(a) \/ Found(a) \/ FindElsewhere(a) \/ ServeFindSuccessor(a, c)
      \/ \E key \in Key[a] : Lookup(a, key)
      \/ Aside(a)
  BY StepKinds
<1>4. lookup'[a].seen \in {lookup[a].seen, OnRing}
  BY <1>3, LookupSteps
<1>5. ASSUME NEW n \in Node PROVE Followed(n)'
  <2>1. lookup'[n].seen \subseteq OnRing'
    BY <1>1, <1>2, <1>4, SeenStays
  <2>2. LooksUp(n)' => \E W \in SUBSET OnRing' : Search(n, W)'
    BY <1>1, <1>2, <1>3, SearchContinues
  <2>3. (lookup[n].node # Empty /\ lookup[n].key \notin Node /\ n \in lookup[n].seen)'
          => Right(lookup[n].seen, lookup[n].key, lookup[n].node)'
    BY <1>1, <1>2, <1>3, ToldRight
  <2> QED BY <2>1, <2>2, <2>3 DEF Followed
<1> QED BY <1>5 DEF AllFollowed

LEMMA FollowedStutters ==
  ASSUME CallInv, CallInv', Ring, Ring', AllAhead, AllFollowed, UNCHANGED vars
  PROVE  AllAhead' /\ AllFollowed'
<1>0. /\ pc' = pc /\ list' = list /\ prede' = prede /\ finger' = finger /\ at' = at
      /\ call' = call /\ find' = find /\ lookup' = lookup
  BY DEF vars
<1>1. Widens
  <2>1. Members \subseteq Members'
    BY <1>0 DEF Members
  <2>2. Creator \in Node /\ \A x \in Members \ {Creator} : list'[x][0] = list[x][0]
    BY <1>0, NodesAreNumbers
  <2> QED BY <1>0, <2>1, <2>2, WidensIf DEF CallInv
<1>2. AllAhead'
  <2>1. Untouched({})
    BY <1>0 DEF Untouched
  <2> QED BY <1>1, <2>1, AllElsewhere
<1>3. ASSUME NEW n \in Node PROVE Followed(n)'
  <2>1. lookup'[n].seen \subseteq OnRing'
    BY <1>0, <1>1, RingWidens DEF AllFollowed, Followed
  <2>2. ASSUME LooksUp(n)' PROVE \E W \in SUBSET OnRing' : Search(n, W)'
    <3>1. LooksUp(n)
      BY <1>0, <2>2 DEF LooksUp
    <3>2. PICK W \in SUBSET OnRing : Search(n, W)
      BY <3>1 DEF AllFollowed, Followed
    <3>3. W \subseteq OnRing' /\ W \subseteq Node
      BY <1>1, RingWidens, NodesAreNumbers DEF OnRing
    <3>4. ASSUME NEW x \in W, call'[x].phase = "replied"
          PROVE  Right(lookup[n].seen, find[n].target, call[x].node)'
      <4>1. Right(lookup[n].seen, find[n].target, call[x].node)
        BY <1>0, <3>2, <3>4 DEF Search
      <4> QED BY <1>0, <1>1, <3>3, <4>1, AnswerStaysRight
    <3>5. \A m \in Node, x \in W : WorksFor(m, x)' => WorksFor(m, x)
      BY <1>0 DEF WorksFor
    <3>6. Search(n, W)'
      BY <1>0, <3>2, <3>4, <3>5 DEF Search
    <3> QED BY <3>3, <3>6
  <2>3. ASSUME (lookup[n].node # Empty /\ lookup[n].key \notin Node /\ n \in lookup[n].seen)'
        PROVE  Right(lookup[n].seen, lookup[n].key, lookup[n].node)'
    <3>1. PICK seen, key, s : seen = lookup[n].seen /\ key = lookup[n].key /\ s = lookup[n].node
      OBVIOUS
    <3>2. Right(seen, key, s)
      BY <1>0, <2>3, <3>1 DEF AllFollowed, Followed
    <3>3. Right(seen, key, s)'
      BY <1>1, <3>2, RightWidens
    <3> QED BY <1>0, <3>1, <3>3
  <2> QED BY <2>1, <2>2, <2>3 DEF Followed
<1> QED BY <1>2, <1>3 DEF AllFollowed

LEMMA LookupInit == Init => AllAhead /\ AllFollowed
<1> SUFFICES ASSUME Init PROVE AllAhead /\ AllFollowed
  OBVIOUS
<1>1. TypeOK /\ Ring
  BY TypeInit, RingInit DEF RingInv, Init
<1>2. /\ \A x \in Node : /\ pc[x] = IF x = Creator THEN "idle" ELSE "off"
                         /\ call[x] = NoCall /\ prede[x] = Empty /\ lookup[x] = NoLookup
                         /\ finger[x] = IF x = Creator THEN [k \in Fingers |-> x] ELSE NoFinger
      /\ list[Creator] = [i \in Slots |-> Creator]
  BY NodesAreNumbers DEF Init
<1>3. Members = {Creator} /\ Creator \in Reached(Creator)
  BY <1>1, <1>2, ReachesCreator, NodesAreNumbers DEF Members
<1>4. ASSUME NEW x \in Node PROVE Ahead(x)
  <2>1. PredecessorBehind(x) /\ AnswerAhead(x)
    BY <1>2, NoCallFields DEF PredecessorBehind, AnswerAhead
  <2>2. x \in Members => \A i \in Slots : list[x][i] \in Reached(x)
    <3>1. \A i \in Slots : list[Creator][i] = Creator
      BY <1>2
    <3> QED BY <1>3, <3>1
  <2>3. ASSUME NEW k \in Fingers
        PROVE  finger[x][k] = Empty \/ (x \in Members /\ finger[x][k] \in Reached(x) \cup {x})
    <3>1. CASE x = Creator
      <4>1. finger[x][k] = x
        BY <1>2, <3>1
      <4> QED BY <1>3, <3>1, <4>1
    <3>2. CASE x # Creator
      <4>1. finger[x] = NoFinger
        BY <1>2, <3>2
      <4> QED BY <4>1 DEF NoFinger
    <3> QED BY <3>1, <3>2
  <2>4. pc[x] # "findWait"
    BY <1>2
  <2> QED BY <2>1, <2>2, <2>3, <2>4 DEF Ahead, TablesAhead
<1>5. ASSUME NEW x \in Node PROVE Followed(x)
  <2>1. lookup[x].seen = {} /\ lookup[x].node = Empty
    BY <1>2 DEF NoLookup
  <2> QED BY <2>1 DEF Followed, LooksUp
<1> QED BY <1>4, <1>5 DEF AllAhead, AllFollowed

-----------------------------------------------------------------------------
(* Nobody is skipped *)

LookupInv == kills = 0 => AllAhead /\ AllFollowed

LEMMA LookupNext ==
  CallInv /\ CallInv' /\ RingInv /\ RingInv' /\ LookupInv /\ [Next]_vars => LookupInv'
<1> SUFFICES ASSUME CallInv, CallInv', RingInv, RingInv', LookupInv, [Next]_vars, kills' = 0
             PROVE  AllAhead' /\ AllFollowed'
  BY DEF LookupInv
<1>1. Ring /\ Ring' /\ AllAhead /\ AllFollowed
  BY KillsGrow DEF RingInv, LookupInv
<1>2. CASE UNCHANGED vars
  BY <1>1, <1>2, FollowedStutters
<1>3. ASSUME NEW n \in Node, NEW c \in Node,
             \/ Continue(n) \/ StabilizeTimer(n) \/ FixFingers(n)
             \/ CheckPredecessor(n) \/ Serve(n, c) \/ Join(n, c)
             \/ \E key \in Key[n] : Lookup(n, key)
      PROVE  AllAhead' /\ AllFollowed'
  BY <1>1, <1>3, AheadAction, FollowedAction
<1> QED BY <1>2, <1>3, KillsGrow

\* What a table, an answer or a search holds lies ahead of its node along the
\* successors, and a lookup is passed on among nodes of the ring only.
THEOREM LookupInvHolds == Spec => []LookupInv
<1>1. Init => LookupInv
  BY LookupInit DEF LookupInv
<1> QED BY <1>1, LookupNext, CallInvHolds, RingInvHolds, PTL DEF Spec

\* Such a path comes to its end, and its first step is one towards it.
LEMMA OntoLeads ==
  ASSUME PathFacts, NEW p \in Node, NEW s \in Node, Onto(p, s)
  PROVE  LeadsTo(p, s)
<1>1. p \in Members /\ (list[p][0] = s \/ Between(list[p][0], p, s))
  BY DEF Onto
<1> QED BY <1>1 DEF PathFacts, LeadsTo

\* In every ring the predecessor of a node leads to it along the successors,
\* also when notifies of several nodes are served late and in any order (notify,
\* chord.c:463-487); and so does the one stabilize carries from one call to the
\* next, to the successor in whose place it will be put (chord.c:756-801).
THEOREM PredecessorsLeadOn == Spec => []PredecessorLeadsOn
<1>1. CallInv /\ RingInv /\ LookupInv => PredecessorLeadsOn
  <2> SUFFICES ASSUME CallInv, RingInv, LookupInv, kills = 0, NEW n \in Node
               PROVE  /\ prede[n] # Empty => LeadsTo(prede[n], n)
                      /\ pc[n] \in {"stList", "stList2"} /\ at[n].p # Empty
                           => LeadsTo(at[n].p, list[n][0])
    BY DEF PredecessorLeadsOn
  <2>1. TypeOK /\ Ring /\ PathFacts /\ PredecessorBehind(n)
    BY Paths DEF CallInv, RingInv, LookupInv, AllAhead, Ahead
  <2>2. ASSUME prede[n] # Empty PROVE LeadsTo(prede[n], n)
    <3>1. prede[n] \in Node /\ Onto(prede[n], n)
      BY <2>1, <2>2 DEF PredecessorBehind, TypeOK, NodeOrEmpty
    <3> QED BY <2>1, <3>1, OntoLeads
  <2>3. ASSUME pc[n] \in {"stList", "stList2"}, at[n].p # Empty
        PROVE  LeadsTo(at[n].p, list[n][0])
    <3>1. at[n].p \in Node /\ Onto(at[n].p, list[n][0])
      BY <2>1, <2>3 DEF PredecessorBehind, TypeOK, NodeOrEmpty
    <3>2. list[n][0] \in Node
      BY <2>1, <2>3, MemberTables, NodesAreNumbers DEF Members
    <3> QED BY <2>1, <3>1, <3>2, OntoLeads
  <2> QED BY <2>2, <2>3
<1> QED BY <1>1, CallInvHolds, RingInvHolds, LookupInvHolds, PTL

\* A lookup by a node on the ring returns the first, at or after the key, of
\* the nodes that were on the ring when its user asked: none of them is
\* skipped by a finger, an entry of a successor list or an answer that was
\* stale when it was used (closetPrecedingNode and handleFindSuccessorRPC,
\* chord.c:221-249, 311-390).
THEOREM LookupsNeverSkip == Spec => []LookupNeverSkips
<1>1. LookupInv => LookupNeverSkips
  BY DEF LookupInv, AllFollowed, Followed, Right, LookupNeverSkips
<1> QED BY <1>1, LookupInvHolds, PTL

-----------------------------------------------------------------------------
(* Lookups are atomic *)

\* What is under way to n's user, told from the search for n.
UnderwayIs ==
  \A n \in Node :
    /\ ~LooksUp(n) => Underway[n] = {}
    /\ LooksUp(n) =>
         Underway[n] = {call[c].node : c \in {k \in Workers(n) : call[k].phase = "replied"}}

LEMMA UnderwayKnown == Ring => UnderwayIs
BY DEF UnderwayIs, Underway, Asking, LooksUp, Ring, Sound, Healthy

LEMMA UnderwayKnownNext == Ring' => UnderwayIs'
BY UnderwayKnown, PTL

\* The nodes that work on a lookup are a search of their own.
LEMMA WorkersSearch ==
  ASSUME NEW n \in Node, NEW W \in SUBSET OnRing, Search(n, W)
  PROVE  Workers(n) \in SUBSET OnRing /\ Search(n, Workers(n))
<1>1. W \in SUBSET Node
  BY NodesAreNumbers DEF OnRing
<1>2. Workers(n) \subseteq W
  BY <1>1, WorkersKnown DEF WorkersFacts, Search
<1>3. /\ n \in Workers(n)
      /\ \A m \in Node, c \in Workers(n) : call[c].to = m /\ WorksFor(m, c) => m \in Workers(n)
  BY WorkersKnown DEF WorkersFacts
<1> QED BY <1>2, <1>3 DEF Search

\* The first node of the ring at or after a key that is nobody's identifier.
LEMMA FirstFrom ==
  ASSUME OnRing \subseteq Node, NEW t \in Nat, t \notin Node, NEW s \in OnRing,
         \A m \in OnRing : m = s \/ ~Between(m, t, s)
  PROVE  s \in Service!Owners(t)
<1> DEFINE from == {m \in OnRing : t <= m}
<1>1. OnRing \subseteq Nat /\ s \in Nat /\ s # t
  BY NodesAreNumbers
<1>2. CASE t < s
  <2>1. s \in from /\ \A m \in from : s <= m
    BY <1>1, <1>2 DEF Between
  <2> QED BY <2>1 DEF Service!Owners, Service!First
<1>3. CASE s < t
  <2>1. from = {} /\ \A m \in OnRing : s <= m
    <3>1. ASSUME NEW m \in OnRing PROVE m < t /\ s <= m
      BY <1>1, <1>3, <3>1 DEF Between
    <3>2. \A m \in OnRing : ~(t <= m)
      BY <1>1, <3>1
    <3> QED BY <3>1, <3>2
  <2> QED BY <2>1 DEF Service!Owners, Service!First
<1> QED BY <1>1, <1>2, <1>3

\* The node that ends a search returns the owner the target has at that moment.
LEMMA OwnerFound ==
  ASSUME CallInv, Ring, NEW a \in OnRing, find[a].target \notin Node, FindHere(a)
  PROVE  \E s \in Service!Owners(find[a].target) : Return(a, s)
<1> DEFINE t == find[a].target
           s == list[a][0]
<1>0. TypeOK /\ a \in Node /\ t \in Nat /\ t \notin Node /\ OnRing \subseteq Node
  BY NodesAreNumbers DEF CallInv, TypeOK, OnRing
<1>1. s \in OnRing /\ s \in Node
  BY <1>0, RingLeadsOn
<1>2. Owns(a, t) /\ Return(a, s)
  BY <1>0, <1>1, FindHereOwns
<1>3. ASSUME NEW m \in OnRing, m # s PROVE ~Between(m, t, s)
  <2>1. m \in Nat /\ a \in Nat /\ s \in Nat
    BY <1>0, <1>1, NodesAreNumbers
  <2>2. m = a \/ ~Between(m, a, s)
    BY <1>0, NobodySkipped
  <2>3. Between(t, a, s) \/ a = s
    BY <1>2 DEF Owns
  <2> HIDE DEF s, t
  <2> QED BY <1>0, <1>3, <2>1, <2>2, <2>3, OwnerIsRight
<1>4. s \in Service!Owners(t)
  <2> HIDE DEF s, t
  <2> QED BY <1>0, <1>1, <1>3, FirstFrom
<1> QED BY <1>2, <1>4

\* What a step adds to the answers under way to n's user is the owner of the
\* key, and only the node that ends the search adds it.
LEMMA UnderwayStep ==
  ASSUME CallInv, CallInv', Ring, Ring', AllAhead, AllFollowed, Widens,
         NEW n \in Node, NEW a \in Node, NEW c \in Node,
         \/ FindHere(a) \/ Found(a) \/ FindElsewhere(a) \/ ServeFindSuccessor(a, c)
         \/ \E key \in Key[a] : Lookup(a, key)
         \/ Aside(a),
         \A x \in Node \ {a} : pc'[x] = pc[x] /\ find'[x] = find[x] /\ lookup'[x] = lookup[x]
  PROVE  \/ Underway'[n] \subseteq Underway[n]
         \/ /\ FindHere(a) /\ LooksUp(n)
            /\ Underway'[n] \subseteq Underway[n] \cup Service!Owners(find[n].target)
<1>0. TypeOK /\ UnderwayIs /\ UnderwayIs' /\ WorkersFacts'
  BY UnderwayKnown, UnderwayKnownNext, WorkersKnownNext DEF CallInv
<1>1. CASE ~LooksUp(n)'
  BY <1>0, <1>1 DEF UnderwayIs
<1>2. CASE LooksUp(n)' /\ a = n /\ \E key \in Key[a] : Lookup(a, key)
  <2>1. Search(n, {n})' /\ call'[n].phase = "none"
    BY <1>2, SearchStarts
  <2>2. Workers(n)' \subseteq {n}
    <3>1. \A m \in Node, x \in {n} : call'[x].to = m /\ WorksFor(m, x)' => m \in {n}
      BY <2>1 DEF Search
    <3>2. {n} \in SUBSET Node
      OBVIOUS
    <3> QED BY <1>0, <3>1, <3>2 DEF WorkersFacts
  <2>3. Underway'[n] = {}
    BY <1>0, <1>2, <2>1, <2>2 DEF UnderwayIs
  <2> QED BY <2>3
<1>3. CASE LooksUp(n)' /\ (a # n \/ FindElsewhere(a))
  <2>1. LooksUp(n) /\ lookup[n].seen \subseteq OnRing /\ find[n].target \notin Node
    BY <1>0, <1>3 DEF LooksUp, FindElsewhere, AllFollowed, Followed
  <2>2. PICK W \in SUBSET OnRing : W = Workers(n) /\ Search(n, W)
    BY <2>1, WorkersSearch DEF AllFollowed, Followed
  <2>3. PICK V \in SUBSET OnRing' :
          /\ Search(n, V)'
          /\ \A x \in V : call'[x].phase = "replied" =>
               x \in W /\ (call'[x] = call[x] \/ (a \in W /\ Returns(a, x)))
    <3>1. GoesOn(n, W, a)
      BY <1>3, <2>1, <2>2, SearchMoves
    <3> QED BY <3>1 DEF GoesOn
  <2>4. Workers(n)' \subseteq V
    <3>1. V \in SUBSET Node
      <4>1. OnRing' \subseteq Node
        BY DEF OnRing, Members
      <4> QED BY <4>1
    <3> QED BY <1>0, <2>3, <3>1 DEF WorkersFacts, Search
  <2>5. ASSUME NEW y \in Underway'[n]
        PROVE  y \in Underway[n] \/ (FindHere(a) /\ y \in Service!Owners(find[n].target))
    <3>1. PICK x \in Workers(n)' : call'[x].phase = "replied" /\ y = call'[x].node
      BY <1>0, <1>3, <2>5 DEF UnderwayIs
    <3>2. x \in W /\ (call'[x] = call[x] \/ (a \in W /\ Returns(a, x)))
      BY <2>3, <2>4, <3>1
    <3>3. \A k \in W : call[k].phase = "replied" => call[k].node \in Underway[n]
      BY <1>0, <2>1, <2>2 DEF UnderwayIs
    <3>4. CASE call'[x] = call[x]
      BY <3>1, <3>2, <3>3, <3>4
    <3>5. CASE a \in W /\ Returns(a, x) /\ Found(a)
      <4>1. call[a].phase = "replied" /\ Return(a, call[a].node)
        BY <3>5 DEF Found, Answered
      <4> QED BY <3>1, <3>3, <3>5, <4>1 DEF Returns
    <3>6. CASE a \in W /\ Returns(a, x) /\ FindHere(a)
      <4>1. a \in OnRing /\ find[a].target = find[n].target
        BY <2>2, <3>6 DEF Search
      <4>2. PICK s \in Service!Owners(find[n].target) : Return(a, s)
        BY <2>1, <3>6, <4>1, OwnerFound
      <4> QED BY <3>1, <3>6, <4>2 DEF Returns
    <3> QED BY <3>2, <3>4, <3>5, <3>6 DEF Returns
  <2>6. CASE FindHere(a)
    <3>1. Underway'[n] \subseteq Underway[n] \cup Service!Owners(find[n].target)
      BY <2>5
    <3> QED BY <2>1, <2>6, <3>1
  <2>7. CASE ~FindHere(a)
    BY <2>5, <2>7
  <2> QED BY <2>6, <2>7
<1>4. CASE LooksUp(n)' /\ a = n /\ Aside(a)
  BY <1>4 DEF Aside, LooksUp
<1>5. CASE LooksUp(n)' /\ a = n /\ ServeFindSuccessor(a, c)
  BY <1>0, <1>5 DEF ServeFindSuccessor, EnterFind, LooksUp, TypeOK
<1>6. CASE LooksUp(n)' /\ a = n /\ (FindHere(a) \/ Found(a))
  BY <1>0, <1>6 DEF FindHere, Found, Return, LooksUp, TypeOK
<1>7. CASE LooksUp(n)' /\ a = n
  BY <1>2, <1>3, <1>4, <1>5, <1>6, <1>7
<1> QED BY <1>1, <1>3, <1>7

\* A user who waits has asked for what its node searches, and has no answer.
Asked(n) ==
  n \in Asking => lookup[n].key = find[n].target /\ lookup[n].node = Empty

AllAsked == \A n \in Node : Asked(n)

AskedInv == kills = 0 => AllAsked

\* The others wait as before.
LEMMA AskingElse ==
  ASSUME NEW a \in Node, \A x \in Node \ {a} : pc'[x] = pc[x] /\ find'[x] = find[x]
  PROVE  /\ \A x \in Node \ {a} : x \in Asking' <=> x \in Asking
         /\ Asking \subseteq Node /\ Asking' \subseteq Node
<1>1. \A x \in Node \ {a} : x \in Asking' <=> x \in Asking
  BY DEF Asking
<1>2. Asking \subseteq Node /\ Asking' \subseteq Node
  BY DEF Asking
<1> QED BY <1>1, <1>2

\* With its answer a user stops waiting.
LEMMA AskingEnds ==
  ASSUME CallInv, NEW a \in Node, FindHere(a) \/ Found(a),
         \A x \in Node \ {a} : pc'[x] = pc[x] /\ find'[x] = find[x]
  PROVE  Asking' = Asking \ {a} /\ (a \in Asking \/ UNCHANGED lookup)
<1>1. a \notin Asking'
  BY DEF CallInv, FindHere, Found, Return, Asking, TypeOK
<1>2. a \in Asking \/ UNCHANGED lookup
  BY DEF FindHere, Found, Return, Answered, Asking
<1> QED BY <1>1, <1>2, AskingElse

\* With its question a user starts to wait.
LEMMA AskingStarts ==
  ASSUME CallInv, NEW a \in Node, NEW key \in Key[a], Lookup(a, key),
         \A x \in Node \ {a} : pc'[x] = pc[x] /\ find'[x] = find[x]
  PROVE  a \notin Asking /\ Asking' = Asking \cup {a}
<1>1. a \notin Asking /\ a \in Asking'
  BY DEF CallInv, Lookup, EnterFind, Asking, TypeOK
<1> QED BY <1>1, AskingElse

\* All other steps leave the users alone.
LEMMA AskingStays ==
  ASSUME CallInv, Ring, Ring', NEW a \in Node, NEW c \in Node,
         FindElsewhere(a) \/ ServeFindSuccessor(a, c) \/ Aside(a),
         \A x \in Node \ {a} : pc'[x] = pc[x] /\ find'[x] = find[x]
  PROVE  /\ Asking' = Asking /\ UNCHANGED lookup
         /\ a \in Asking => UNCHANGED find
<1>0. TypeOK /\ pc[a] # "retry" /\ pc'[a] # "retry"
  BY DEF CallInv, Ring, Sound, Healthy
<1>1. UNCHANGED lookup
  BY DEF FindElsewhere, ServeFindSuccessor, Aside
<1>2. CASE FindElsewhere(a)
  <2>1. pc[a] = "find" /\ UNCHANGED find
        /\ \E place : ClosestPreceding(a, place) /\ Forward(a, place)
    BY <1>2 DEF FindElsewhere
  <2>2. pc'[a] = "findWait"
    BY <1>0, <2>1 DEF Forward, Ask, TypeOK
  <2>3. a \in Asking' <=> a \in Asking
    BY <2>1, <2>2 DEF Asking
  <2> QED BY <1>1, <2>1, <2>3, AskingElse
<1>3. CASE ServeFindSuccessor(a, c) \/ Aside(a)
  <2>1. a \notin Asking
    BY <1>0, <1>3 DEF ServeFindSuccessor, Accept, Aside, Asking
  <2>2. a \notin Asking'
    <3>1. CASE ServeFindSuccessor(a, c)
      BY <1>0, <3>1 DEF ServeFindSuccessor, EnterFind, Asking, TypeOK
    <3>2. CASE Aside(a)
      BY <3>2 DEF Aside, Asking
    <3> QED BY <1>3, <3>1, <3>2
  <2> QED BY <1>1, <2>1, <2>2, AskingElse
<1> QED BY <1>2, <1>3

\* The ring is the same as long as the members and their successors are.
LEMMA RingUnmoved ==
  ASSUME UNCHANGED <<list, Members>>
  PROVE  OnRing' = OnRing
<1>1. ASSUME NEW n PROVE Reached(n)' = Reached(n)
  BY DEF Reached
<1> QED BY <1>1 DEF OnRing

\* Neither a question nor an answer to a search changes the ring.
LEMMA SearchLeavesRing ==
  ASSUME CallInv, NEW a \in Node,
         FindHere(a) \/ Found(a) \/ \E key \in Key[a] : Lookup(a, key)
  PROVE  OnRing' = OnRing
<1>0. TypeOK
  BY DEF CallInv
<1>1. /\ UNCHANGED list /\ pc[a] \in {"find", "findWait", "idle"}
      /\ \E w \in {"idle", "find"} : pc' = [pc EXCEPT ![a] = w]
  BY DEF FindHere, Found, Return, Answered, Lookup, EnterFind
<1>2. Members' = Members
  BY <1>0, <1>1 DEF Members, TypeOK
<1> QED BY <1>1, <1>2, RingUnmoved

LEMMA AskedStep ==
  ASSUME CallInv, Ring, Ring', AllAsked, NEW a \in Node, NEW c \in Node,
         \/ FindHere(a) \/ Found(a) \/ FindElsewhere(a) \/ ServeFindSuccessor(a, c)
         \/ \E key \in Key[a] : Lookup(a, key)
         \/ Aside(a),
         \A x \in Node \ {a} : pc'[x] = pc[x] /\ find'[x] = find[x] /\ lookup'[x] = lookup[x]
  PROVE  AllAsked'
<1>0. TypeOK
  BY DEF CallInv
<1> SUFFICES ASSUME NEW n \in Node, n \in Asking'
             PROVE  lookup'[n].key = find'[n].target /\ lookup'[n].node = Empty
  BY DEF AllAsked, Asked
<1>1. CASE n # a
  <2>1. n \in Asking
    BY <1>1 DEF Asking
  <2> QED BY <1>1, <2>1 DEF AllAsked, Asked
<1>2. CASE n = a /\ \E key \in Key[a] : Lookup(a, key)
  BY <1>0, <1>2 DEF Lookup, EnterFind, TypeOK
<1>3. CASE n = a /\ (FindHere(a) \/ Found(a))
  BY <1>3, AskingEnds
<1>4. CASE n = a /\ (FindElsewhere(a) \/ ServeFindSuccessor(a, c) \/ Aside(a))
  BY <1>4, AskingStays DEF AllAsked, Asked
<1> QED BY <1>1, <1>2, <1>3, <1>4

\* Every step is one of the service.
LEMMA ServiceAction ==
  ASSUME CallInv, CallInv', Ring, Ring', AllAhead, AllFollowed, AllAsked,
         kills = 0, kills' = 0, NEW a \in Node, NEW c \in Node,
         \/ Continue(a) \/ StabilizeTimer(a) \/ FixFingers(a)
         \/ CheckPredecessor(a) \/ Serve(a, c) \/ Join(a, c)
         \/ \E key \in Key[a] : Lookup(a, key),
         Underway' \in [Node -> SUBSET Node]
  PROVE  Service!Next
<1>0. TypeOK /\ Widens /\ OnRing \subseteq OnRing' /\ ~(kills > 0) /\ ~(kills > 0)'
  BY WidensStep, RingWidens DEF CallInv
<1>1. \A x \in Node \ {a} : pc'[x] = pc[x] /\ find'[x] = find[x] /\ lookup'[x] = lookup[x]
  BY OnePlace, OneSearch
<1>2. \/ FindHere(a) \/ Found(a) \/ FindElsewhere(a) \/ ServeFindSuccessor(a, c)
      \/ \E key \in Key[a] : Lookup(a, key)
      \/ Aside(a)
  BY StepKinds
<1>3. ASSUME NEW n \in Node
      PROVE  \/ Underway'[n] \subseteq Underway[n]
             \/ /\ FindHere(a) /\ LooksUp(n)
                /\ Underway'[n] \subseteq Underway[n] \cup Service!Owners(find[n].target)
  BY <1>0, <1>1, <1>2, UnderwayStep
<1>4. ASSUME NEW n \in Node PROVE Service!Finds(n)
  <2>1. CASE LooksUp(n)
    <3>1. lookup[n].key = find[n].target
      BY <2>1 DEF AllAsked, Asked, Asking, LooksUp
    <3> QED BY <1>3, <3>1 DEF Service!Finds
  <2>2. CASE ~LooksUp(n)
    BY <1>3, <2>2 DEF Service!Finds
  <2> QED BY <2>1, <2>2
<1>5. CASE FindHere(a) \/ Found(a)
  <2>1. OnRing' = OnRing
    BY <1>5, SearchLeavesRing
  <2>2. Asking' = Asking \ {a} /\ (a \in Asking \/ UNCHANGED lookup)
    BY <1>1, <1>5, AskingEnds
  <2>3. CASE a \notin Asking
    <3>1. Service!Find
      BY <1>4, <2>1, <2>2, <2>3 DEF Service!Find
    <3> QED BY <1>0, <3>1 DEF Service!Next
  <2>4. CASE a \in Asking
    <3>1. lookup[a].key = find[a].target
      BY <2>4 DEF AllAsked, Asked
    <3>2. PICK s : /\ Return(a, s) /\ s \in Node \cup {Empty}
                   /\ LooksUp(a) => s \in Underway[a] \cup Service!Owners(lookup[a].key)
      <4>1. CASE ~LooksUp(a)
        <5>1. ASSUME FindHere(a)
              PROVE  \E s \in Node \cup {Empty} : Return(a, s)
          <6>1. Return(a, list[a][0]) \/ Return(a, a)
            BY <5>1 DEF FindHere
          <6>2. list[a][0] \in Node \cup {Empty}
            <7>1. list \in [Node -> [Slots -> NodeOrEmpty]]
              BY <1>0 DEF TypeOK
            <7>2. 0 \in Slots
              BY NodesAreNumbers
            <7> QED BY <7>1, <7>2 DEF NodeOrEmpty
          <6> QED BY <6>1, <6>2
        <5>2. ASSUME Found(a)
              PROVE  \E s \in Node \cup {Empty} : Return(a, s)
          BY <1>0, <5>2 DEF Found, TypeOK, Calls
        <5> QED BY <1>5, <4>1, <5>1, <5>2
      <4>2. CASE LooksUp(a)
        <5>1. PICK W \in SUBSET OnRing : Search(a, W)
          BY <4>2 DEF AllFollowed, Followed
        <5>2. a \in OnRing /\ find[a].target \notin Node /\ a \in Workers(a) /\ UnderwayIs
              /\ OnRing \subseteq Node
          BY <4>2, <5>1, WorkersKnown, UnderwayKnown, NodesAreNumbers
          DEF Search, LooksUp, WorkersFacts, OnRing
        <5>3. CASE FindHere(a)
          <6>1. PICK s \in Service!Owners(find[a].target) : Return(a, s)
            BY <5>2, <5>3, OwnerFound
          <6>2. s \in Node
            BY <5>2, <6>1 DEF Service!Owners, Service!First
          <6> QED BY <3>1, <6>1, <6>2
        <5>4. CASE Found(a)
          <6>1. call[a].phase = "replied" /\ Return(a, call[a].node)
            BY <5>4 DEF Found, Answered
          <6>2. call[a].node \in Underway[a]
            BY <4>2, <5>2, <6>1 DEF UnderwayIs
          <6>3. call[a].node \in Node \cup {Empty}
            BY <1>0 DEF TypeOK, Calls
          <6> QED BY <6>1, <6>2, <6>3
        <5> QED BY <1>5, <5>3, <5>4
      <4> QED BY <4>1, <4>2
    <3>3. lookup' = [lookup EXCEPT ![a].node = s]
      <4>1. find[a].for = "lookup" /\ lookup[a] \in [key : Nat, node : NodeOrEmpty, seen : SUBSET Node]
        BY <1>0, <2>4 DEF Asking, TypeOK
      <4>2. lookup' = [lookup EXCEPT ![a] = [key |-> find[a].target, node |-> s, seen |-> lookup[a].seen]]
        BY <3>2, <4>1 DEF Return
      <4>3. [key |-> find[a].target, node |-> s, seen |-> lookup[a].seen] = [lookup[a] EXCEPT !.node = s]
        BY <3>1, <4>1
      <4> QED BY <4>2, <4>3
    <3>4. Service!Promised(a) => LooksUp(a)
      BY <2>4, <3>1 DEF Service!Promised, Asking, LooksUp, Ring, Sound, Healthy
    <3>5. Service!Answer(a, s)
      BY <1>4, <2>1, <2>2, <2>4, <3>2, <3>3, <3>4 DEF Service!Answer
    <3> QED BY <1>0, <3>2, <3>5 DEF Service!Next
  <2> QED BY <2>3, <2>4
<1>6. CASE \E key \in Key[a] : Lookup(a, key)
  <2>1. OnRing' = OnRing
    BY <1>6, SearchLeavesRing
  <2>2. PICK key \in Key[a] : Lookup(a, key)
    BY <1>6
  <2>3. pc[a] = "idle" /\ lookup' = [lookup EXCEPT ![a] = [key |-> key, node |-> Empty, seen |-> OnRing]]
    BY <2>2 DEF Lookup
  <2>4. a \notin Asking /\ Asking' = Asking \cup {a}
    BY <1>1, <2>2, AskingStarts
  <2>5. Underway'[a] = {}
    <3>1. ~LooksUp(a)
      BY <2>3 DEF LooksUp
    <3>2. Underway[a] = {}
      BY <3>1, UnderwayKnown DEF UnderwayIs
    <3> QED BY <1>3, <3>1, <3>2
  <2>6. Service!Ask(a, key)
    BY <1>4, <2>1, <2>3, <2>4, <2>5 DEF Service!Ask
  <2> QED BY <1>0, <2>6 DEF Service!Next
<1>7. CASE ~FindHere(a) /\ (FindElsewhere(a) \/ ServeFindSuccessor(a, c) \/ Aside(a))
  <2>1. Asking' = Asking /\ UNCHANGED lookup
    BY <1>1, <1>7, AskingStays
  <2>2. Service!Grow
    BY <1>0, <1>3, <1>7, <2>1 DEF Service!Grow
  <2> QED BY <1>0, <2>2 DEF Service!Next
<1> QED BY <1>2, <1>5, <1>6, <1>7

\* What is under way are nodes: members, if an answer is right.
UnderwayNodes == Underway \in [Node -> SUBSET Node]

LEMMA UnderwayTyped == Ring /\ AllFollowed => UnderwayNodes
<1> SUFFICES ASSUME Ring, AllFollowed, NEW n \in Node
             PROVE  Underway[n] \in SUBSET Node
  <2>1. Underway = [n \in Node |-> Underway[n]]
    BY DEF Underway
  <2> QED BY <2>1 DEF UnderwayNodes
<1>1. CASE ~LooksUp(n)
  BY <1>1, UnderwayKnown DEF UnderwayIs
<1>2. CASE LooksUp(n)
  <2>1. PICK W \in SUBSET OnRing : Search(n, W)
    BY <1>2 DEF AllFollowed, Followed
  <2>2. Search(n, Workers(n))
    BY <2>1, WorkersSearch
  <2>3. \A c \in Workers(n) : call[c].phase = "replied" => call[c].node \in Node
    BY <2>2, NodesAreNumbers DEF Search, Right
  <2> QED BY <1>2, <2>3, UnderwayKnown DEF UnderwayIs
<1> QED BY <1>1, <1>2

LEMMA UnderwayTypedNext == Ring' /\ AllFollowed' => UnderwayNodes'
BY UnderwayTyped, PTL

\* Nothing happens: the ring does not grow.
LEMMA ServiceStutters ==
  ASSUME CallInv, Ring, Ring', AllAsked, UNCHANGED vars
  PROVE  AllAsked' /\ Service!Grow
<1>0. /\ pc' = pc /\ list' = list /\ prede' = prede /\ call' = call /\ find' = find
      /\ lookup' = lookup
  BY DEF vars
<1>1. Asking' = Asking
  BY <1>0 DEF Asking
<1>2. AllAsked'
  BY <1>0, <1>1 DEF AllAsked, Asked
<1>3. OnRing' = OnRing
  <2>1. Members' = Members
    BY <1>0 DEF Members
  <2> QED BY <1>0, <2>1, RingUnmoved
<1>4. ASSUME NEW n \in Node PROVE Underway'[n] \subseteq Underway[n]
  <2>1. LooksUp(n)' <=> LooksUp(n)
    BY <1>0 DEF LooksUp
  <2>2. Workers(n)' \subseteq Workers(n)
    <3>1. n \in Workers(n) /\ Workers(n) \in SUBSET Node
      BY WorkersKnown DEF WorkersFacts
    <3>2. \A m \in Node, c \in Workers(n) :
            call'[c].to = m /\ WorksFor(m, c)' => m \in Workers(n)
      BY <1>0, WorkersKnown DEF WorkersFacts, WorksFor
    <3> QED BY <3>1, <3>2, WorkersKnownNext DEF WorkersFacts
  <2> QED BY <1>0, <2>1, <2>2, UnderwayKnown, UnderwayKnownNext DEF UnderwayIs
<1>5. Service!Grow
  BY <1>0, <1>1, <1>3, <1>4 DEF Service!Grow
<1> QED BY <1>2, <1>5

LEMMA AskedNext ==
  CallInv /\ CallInv' /\ RingInv /\ RingInv' /\ AskedInv /\ [Next]_vars => AskedInv'
<1> SUFFICES ASSUME CallInv, CallInv', RingInv, RingInv', AskedInv, [Next]_vars, kills' = 0
             PROVE  AllAsked'
  BY DEF AskedInv
<1>1. Ring /\ Ring' /\ AllAsked
  BY KillsGrow DEF RingInv, AskedInv
<1>2. CASE UNCHANGED vars
  BY <1>1, <1>2, ServiceStutters
<1>3. ASSUME NEW n \in Node, NEW c \in Node,
             \/ Continue(n) \/ StabilizeTimer(n) \/ FixFingers(n)
             \/ CheckPredecessor(n) \/ Serve(n, c) \/ Join(n, c)
             \/ \E key \in Key[n] : Lookup(n, key)
      PROVE  AllAsked'
  <2>1. \A x \in Node \ {n} : pc'[x] = pc[x] /\ find'[x] = find[x] /\ lookup'[x] = lookup[x]
    BY <1>1, <1>3, OnePlace, OneSearch
  <2>2. \/ FindHere(n) \/ Found(n) \/ FindElsewhere(n) \/ ServeFindSuccessor(n, c)
        \/ \E key \in Key[n] : Lookup(n, key)
        \/ Aside(n)
    BY <1>1, <1>3, StepKinds
  <2> QED BY <1>1, <2>1, <2>2, AskedStep
<1> QED BY <1>2, <1>3, KillsGrow

\* A node whose user waits looks for the key its user asked for, and prints
\* nothing before it has the answer.
THEOREM AskedInvHolds == Spec => []AskedInv
<1>1. Init => AskedInv
  <2> SUFFICES ASSUME Init, NEW n \in Node PROVE n \notin Asking
    BY DEF AskedInv, AllAsked, Asked
  <2>1. pc[n] = IF n = Creator THEN "idle" ELSE "off"
    BY DEF Init
  <2> QED BY <2>1 DEF Asking
<1> QED BY <1>1, AskedNext, CallInvHolds, RingInvHolds, PTL DEF Spec

\* At first the creator is the ring, and nobody has asked.
LEMMA ServiceInit == Init => Service!Init
<1> SUFFICES ASSUME Init PROVE Service!Init
  OBVIOUS
<1>1. /\ \A x \in Node : pc[x] = IF x = Creator THEN "idle" ELSE "off"
      /\ list[Creator] = [i \in Slots |-> Creator]
      /\ lookup = [n \in Node |-> NoLookup] /\ kills = 0
  BY NodesAreNumbers DEF Init
<1>2. Members = {Creator}
  BY <1>1, NodesAreNumbers DEF Members
<1>3. OnRing = {Creator}
  <2>1. TypeOK /\ Ring
    BY TypeInit, RingInit DEF RingInv, Init
  <2>2. Creator \in Reached(Creator)
    BY <1>1, <1>2, <2>1, ReachesCreator, NodesAreNumbers
  <2> QED BY <1>2, <2>2 DEF OnRing
<1>4. Asking = {}
  BY <1>1 DEF Asking
<1>5. Underway = [n \in Node |-> {}]
  BY <1>4 DEF Underway
<1> QED BY <1>1, <1>3, <1>4, <1>5, NodesAreNumbers DEF Service!Init, NoLookup

\* Every step of the nodes is a step of the service.
LEMMA ServiceNext ==
  /\ CallInv /\ CallInv' /\ RingInv /\ RingInv' /\ LookupInv /\ LookupInv' /\ AskedInv
  /\ [Next]_vars
  => Service!Next
<1> SUFFICES ASSUME CallInv, CallInv', RingInv, RingInv', LookupInv, LookupInv', AskedInv,
                    [Next]_vars
             PROVE  Service!Next
  OBVIOUS
<1>0. kills \in Nat /\ kills <= kills' /\ kills' \in Nat
  <2>1. kills \in Nat /\ kills <= kills'
    BY KillsGrow
  <2>2. kills' \in Nat
    BY NodeAssumption DEF CallInv, TypeOK
  <2> QED BY <2>1, <2>2
<1>1. CASE kills' > 0
  BY <1>1 DEF Service!Next
<1>2. CASE kills' = 0
  <2>1. kills = 0 /\ Ring /\ Ring' /\ AllAhead /\ AllFollowed /\ AllFollowed' /\ AllAsked
    BY <1>0, <1>2 DEF RingInv, LookupInv, AskedInv
  <2>2. Underway' \in [Node -> SUBSET Node]
    BY <2>1, UnderwayTypedNext DEF UnderwayNodes
  <2>3. CASE UNCHANGED vars
    <3>1. Service!Grow
      BY <2>1, <2>3, ServiceStutters
    <3> QED BY <1>2, <2>1, <2>2, <3>1 DEF Service!Next
  <2>4. ASSUME NEW n \in Node, NEW c \in Node,
               \/ Continue(n) \/ StabilizeTimer(n) \/ FixFingers(n)
               \/ CheckPredecessor(n) \/ Serve(n, c) \/ Join(n, c)
               \/ \E key \in Key[n] : Lookup(n, key)
        PROVE  Service!Next
    BY <1>2, <2>1, <2>2, <2>4, ServiceAction
  <2> QED BY <1>2, <2>3, <2>4, KillsGrow
<1> QED BY <1>0, <1>1, <1>2

\* Lookups are atomic, in a ring of any size with any fingers: the nodes, with
\* their tables, their blocking calls and the searches they pass on, implement
\* LookupService, where an answer is the owner of the key at one moment between
\* the question and the answer (handleFindSuccessorRPC, chord.c:312-385).
THEOREM LookupsAreAtomic == Spec => LookupsAtomic
<1>1. Init => Service!Init
  BY ServiceInit
<1>2. /\ CallInv /\ CallInv' /\ RingInv /\ RingInv' /\ LookupInv /\ LookupInv' /\ AskedInv
      /\ [Next]_vars
      => [Service!Next]_(Service!vars)
  BY ServiceNext
<1> QED BY <1>1, <1>2, CallInvHolds, RingInvHolds, LookupInvHolds, AskedInvHolds, PTL
        DEF Spec, LookupsAtomic, Service!Spec

-----------------------------------------------------------------------------
(* What fixFingers enters in the ideal ring *)

\* The answers under way to searches for nobody's identifier name its owner.
AnswersAreRight ==
  \A c \in Node :
    call[c].phase = "replied" /\ call[c].rpc = "find_successor" /\ call[c].arg \notin Node =>
      call[c].node = Owner(call[c].arg)

\* A finger is left alone or comes to point at the owner of its start.
FilledRight ==
  \A n \in Node, k \in Fingers :
    finger'[n][k] = finger[n][k] \/ finger'[n][k] = Owner(FingerStart[n][k])

\* Once the ring is ideal and no older answers are under way, searches answer
\* with the owner, and whatever fixFingers writes into a table, also into the
\* fingers that one answer fills at once, is what belongs there, until somebody
\* completes a join or dies.
RepairsAreRight ==
  [][Ideal /\ AnswersAreRight /\ kills' = 0 /\ Members' = Members =>
       AnswersAreRight' /\ FilledRight]_vars

\* The starts go outward from their node, and none is a node's identifier.  (For
\* that of its own successor the node answers with itself, and then takes all
\* later starts to lie before it.)
StartsGoOut ==
  /\ \A n \in Node : \A j, k \in Fingers :
       j < k => Between(FingerStart[n][j], n, FingerStart[n][k])
  /\ \A n \in Node, k \in Fingers : FingerStart[n][k] \notin Node

\* A node that repairs a finger looks for the start of that finger.
AimsAtFinger(n) ==
  find[n].for = "fix" =>
    next[n] \in Fingers /\ find[n].target = FingerStart[n][next[n]]

AllAim == \A n \in Node : AimsAtFinger(n)

LEMMA AimsNext == CallInv /\ AllAim /\ [Next]_vars => AllAim'
<1> SUFFICES ASSUME CallInv, AllAim, [Next]_vars PROVE AllAim'
  OBVIOUS
<1>0. TypeOK
  BY DEF CallInv
<1>1. CASE UNCHANGED <<find, next>>
  BY <1>1 DEF AllAim, AimsAtFinger
<1>2. ASSUME NEW n \in Node, NEW f, find' = [find EXCEPT ![n] = f],
             \A x \in Node \ {n} : next'[x] = next[x],
             f.for = "fix" => next'[n] \in Fingers /\ f.target = FingerStart[n][next'[n]]
      PROVE  AllAim'
  BY <1>0, <1>2 DEF TypeOK, AllAim, AimsAtFinger
<1>3. ASSUME NEW n \in Node, Kill(n) \/ CalleeGone(n) PROVE AllAim'
  BY <1>2, <1>3 DEF Kill, CalleeGone, NoFind
<1>4. ASSUME NEW n \in Node, NEW s, Return(n, s) PROVE AllAim'
  <2>1. find' = [find EXCEPT ![n] = NoFind] /\ NoFind.for # "fix"
    BY <1>4 DEF Return, NoFind
  <2>2. \A x \in Node \ {n} : next'[x] = next[x]
    BY <1>0, <1>4 DEF Return, FillFingers, TypeOK
  <2> HIDE DEF NoFind
  <2> QED BY <1>2, <2>1, <2>2
<1>5. ASSUME NEW n \in Node, FixFingers(n) PROVE AllAim'
  <2> DEFINE k == NextFinger(next[n])
             f == [for |-> "fix", client |-> Empty, target |-> FingerStart[n][k]]
  <2>1. k \in Fingers
    BY <1>0, NextFingerType DEF TypeOK
  <2>2. find' = [find EXCEPT ![n] = f] /\ next' = [next EXCEPT ![n] = k]
    BY <1>5 DEF FixFingers, EnterFind
  <2> HIDE DEF k
  <2>3. next'[n] = k /\ \A x \in Node \ {n} : next'[x] = next[x]
    BY <1>0, <2>2 DEF TypeOK
  <2> QED BY <1>2, <2>1, <2>2, <2>3
<1>6. ASSUME NEW n \in Node, NEW for \in {"serve", "lookup"}, NEW c, NEW t,
             EnterFind(n, for, c, t), UNCHANGED next
      PROVE  AllAim'
  BY <1>2, <1>6 DEF EnterFind
<1>7. ASSUME NEW n \in Node, Continue(n) PROVE AllAim'
  <2>1. CASE FindHere(n) \/ Found(n)
    BY <1>4, <2>1 DEF FindHere, Found
  <2>2. CASE \/ JoinFound(n) \/ JoinDone(n) \/ StabilizeNext(n) \/ GotPredecessor(n)
             \/ GotList(n) \/ GotListOfPredecessor(n) \/ Notified(n) \/ FindElsewhere(n)
             \/ FindAgain(n) \/ PredecessorChecked(n)
    BY <1>1, <2>2 DEF JoinFound, JoinDone, StabilizeNext, GotPredecessor, GotList,
         GotListOfPredecessor, Notified, FindElsewhere, FindAgain, PredecessorChecked
  <2> QED BY <1>3, <1>7, <2>1, <2>2 DEF Continue
<1>8. ASSUME NEW n \in Node, NEW c \in Node,
             \/ StabilizeTimer(n) \/ CheckPredecessor(n) \/ Serve(n, c) \/ Join(n, c)
             \/ \E key \in Key[n] : Lookup(n, key)
      PROVE  AllAim'
  <2>1. CASE StabilizeTimer(n) \/ CheckPredecessor(n) \/ Join(n, c)
    BY <1>1, <2>1 DEF StabilizeTimer, StabilizeAlone, Stabilize, CheckPredecessor, Join
  <2>2. CASE ServeFindSuccessor(n, c) \/ \E key \in Key[n] : Lookup(n, key)
    BY <1>6, <2>2 DEF ServeFindSuccessor, Lookup
  <2>3. CASE Serve(n, c) /\ ~ServeFindSuccessor(n, c)
    BY <1>1, <2>3 DEF Serve, ServeGetSuccessorList, ServeGetPredecessor, ServeNotify,
                      ServeCheckPredecessor
  <2> QED BY <1>8, <2>1, <2>2, <2>3
<1>9. CASE UNCHANGED vars
  BY <1>1, <1>9 DEF vars
<1> QED BY <1>3, <1>5, <1>7, <1>8, <1>9 DEF Next

LEMMA AimsInit == Init => AllAim
BY DEF Init, AllAim, AimsAtFinger, NoFind

\* The owner of an identifier is the member that no other lies before.
LEMMA OwnerIs ==
  ASSUME NEW t \in Nat, t \notin Members, NEW s \in Members,
         \A m \in Members : m = s \/ ~Between(m, t, s)
  PROVE  Owner(t) = s
<1>0. Members \subseteq Nat /\ s \in Nat /\ s # t
  BY NodesAreNumbers
<1>1. \A k \in Members \ {s} : ~Between(k, t - 1, s)
  <2> SUFFICES ASSUME NEW k \in Members \ {s}, Between(k, t - 1, s) PROVE FALSE
    OBVIOUS
  <2>1. k \in Nat /\ k # t /\ ~Between(k, t, s)
    BY <1>0
  <2> QED BY <1>0, <2>1 DEF Between
<1>2. ASSUME NEW a \in Members, \A k \in Members \ {a} : ~Between(k, t - 1, a)
      PROVE  a = s
  <2> SUFFICES ASSUME a # s PROVE FALSE
    OBVIOUS
  <2>1. a \in Nat /\ ~Between(s, t - 1, a) /\ ~Between(a, t - 1, s)
    BY <1>0, <1>1, <1>2
  <2> QED BY <1>0, <2>1 DEF Between
<1> QED BY <1>1, <1>2 DEF Owner

LEMMA OwnerExists ==
  ASSUME NEW t \in Nat, Members # {}, t \notin Members
  PROVE  Owner(t) \in Members /\ \A m \in Members : m = Owner(t) \/ ~Between(m, t, Owner(t))
<1> DEFINE from == {m \in Members : t <= m}
<1>0. Members \subseteq Nat
  BY NodesAreNumbers
<1>1. PICK s \in Members : \A m \in Members : m = s \/ ~Between(m, t, s)
  <2>1. CASE from # {}
    <3>1. PICK s \in from : \A m \in from : s <= m
      <4>1. from \in SUBSET Nat
        BY <1>0
      <4> HIDE DEF from
      <4> QED BY <2>1, <4>1, LeastNumber
    <3>2. \A m \in Members : m = s \/ ~Between(m, t, s)
      BY <1>0, <3>1 DEF Between
    <3> QED BY <3>1, <3>2
  <2>2. CASE from = {}
    <3>1. PICK s \in Members : \A m \in Members : s <= m
      BY <1>0, LeastNumber
    <3>2. \A m \in Members : m = s \/ ~Between(m, t, s)
      BY <1>0, <2>2, <3>1 DEF Between
    <3> QED BY <3>1, <3>2
  <2> QED BY <2>1, <2>2
<1>2. Owner(t) = s
  BY <1>1, OwnerIs
<1> QED BY <1>1, <1>2

\* In the ideal ring a search for nobody's identifier ends with its owner.
LEMMA IdealReturn ==
  ASSUME CallInv, Ring, Ideal, AnswersAreRight, NEW n \in Node,
         FindHere(n) \/ Found(n), find[n].target \notin Node
  PROVE  Return(n, Owner(find[n].target))
<1> DEFINE t == find[n].target
           s == list[n][0]
<1>0. TypeOK /\ n \in Members /\ s \in Members /\ Members \subseteq Node /\ Node \subseteq Nat
      /\ t \in Nat /\ n \in Nat /\ s \in Nat /\ t \notin Members
  <2>1. n \in Members
    BY MemberPlaces DEF FindHere, Found, Answered
  <2> QED BY <2>1, NodesAreNumbers, SuccessorIsMember DEF CallInv, TypeOK
<1>1. CASE FindHere(n)
  <2>1. Owns(n, t) /\ Return(n, s)
    BY <1>0, <1>1, FindHereOwns
  <2>2. ASSUME NEW m \in Members, m # s PROVE ~Between(m, t, s)
    <3>1. m \in Nat /\ (m = n \/ ~Between(m, n, s)) /\ (Between(t, n, s) \/ n = s)
      BY <1>0, <2>1 DEF Ideal, Owns
    <3> HIDE DEF t, s
    <3> QED BY <1>0, <2>2, <3>1, OwnerIsRight
  <2>3. Owner(t) = s
    <3> HIDE DEF t, s
    <3> QED BY <1>0, <2>2, OwnerIs
  <2> QED BY <2>1, <2>3
<1>2. CASE Found(n)
  <2>1. pc[n] = "findWait" /\ call[n].phase = "replied" /\ Return(n, call[n].node)
    BY <1>2 DEF Found, Answered
  <2>2. call[n].rpc = "find_successor" /\ call[n].arg = t
    BY <2>1, WaitsForValues, WaitingPlaces
    DEF CallInv, Bookkeeping, BlockedInItsCall, Ring, Sound, AsksForTarget
  <2> QED BY <2>1, <2>2 DEF AnswersAreRight
<1> QED BY <1>1, <1>2

\* Where one answer fills a finger, it is the finger's owner too.
LEMMA OutwardSameOwner ==
  ASSUME NEW n \in Nat, NEW t \in Nat, NEW u \in Nat, NEW s \in Nat, NEW m \in Nat,
         t # n, Between(t, n, u), Between(u, n, s), ~Between(m, t, s)
  PROVE  ~Between(m, u, s)
BY DEF Between

LEMMA IdealFill ==
  ASSUME CallInv, Ring, StartsGoOut, NEW n \in Members, find[n].for = "fix", AimsAtFinger(n),
         FillFingers(n, Owner(find[n].target)), NEW k \in Fingers
  PROVE  finger'[n][k] = finger[n][k] \/ finger'[n][k] = Owner(FingerStart[n][k])
<1> DEFINE t == find[n].target
           s == Owner(t)
           u == FingerStart[n][k]
<1>0. /\ TypeOK /\ n \in Node /\ n \in Nat /\ Members \subseteq Nat /\ Members \subseteq Node
      /\ t \in Nat /\ u \in Nat /\ t \notin Node /\ u \notin Node /\ next[n] \in Fingers
      /\ t = FingerStart[n][next[n]]
  <2>1. TypeOK /\ n \in Node /\ Node \subseteq Nat /\ Members \subseteq Node
    BY NodesAreNumbers DEF CallInv
  <2>2. next[n] \in Fingers /\ t = FingerStart[n][next[n]]
    BY DEF AimsAtFinger
  <2>3. \A j \in Fingers : FingerStart[n][j] \in Nat /\ FingerStart[n][j] \notin Node
    BY <2>1, NodeAssumption DEF StartsGoOut
  <2> HIDE DEF t
  <2> QED BY <2>1, <2>2, <2>3
<1>1. s \in Members /\ \A m \in Members : m = s \/ ~Between(m, t, s)
  BY <1>0, OwnerExists
<1>2. finger'[n][k] = IF k \in Covered(n, s) THEN s ELSE finger[n][k]
  BY <1>0 DEF FillFingers, TypeOK
<1>3. ASSUME k \in Covered(n, s) PROVE s = Owner(u)
  <2>1. k \in next[n]..M /\ (k # next[n] => Between(u, n, s))
    BY <1>0, <1>3 DEF Covered
  <2>2. CASE k = next[n]
    BY <1>0, <2>2
  <2>3. CASE k # next[n]
    <3>1. Between(t, n, u) /\ Between(u, n, s)
      BY <1>0, <2>1, <2>3 DEF StartsGoOut
    <3>2. t # n /\ u \notin Members /\ s \in Nat
      BY <1>0, <1>1
    <3> HIDE DEF t, s, u
    <3>3. \A m \in Members : m = s \/ ~Between(m, u, s)
      BY <1>0, <1>1, <3>1, <3>2, OutwardSameOwner
    <3> QED BY <1>0, <1>1, <3>2, <3>3, OwnerIs
  <2> QED BY <2>2, <2>3
<1> QED BY <1>2, <1>3

\* Answers to searches are given, and fingers changed, only where one ends.
LEMMA OnlyReturns ==
  ASSUME CallInv, Ring, Ring', NEW n \in Node, NEW c \in Node,
         \/ Continue(n) \/ StabilizeTimer(n) \/ FixFingers(n)
         \/ CheckPredecessor(n) \/ Serve(n, c) \/ Join(n, c)
         \/ \E key \in Key[n] : Lookup(n, key),
         ~FindHere(n), ~Found(n)
  PROVE  /\ UNCHANGED finger
         /\ \A x \in Node : call'[x].phase = "replied" /\ call'[x].rpc = "find_successor" =>
              call'[x] = call[x]
<1> DEFINE Kept == \A x \in Node :
             call'[x].phase = "replied" /\ call'[x].rpc = "find_successor" => call'[x] = call[x]
<1>0. TypeOK /\ pc'[n] # "crashed"
  BY DEF CallInv, Ring, Sound, Healthy
<1>1. ASSUME NEW k, k.phase # "replied", call' = [call EXCEPT ![n] = k] PROVE Kept
  BY <1>0, <1>1 DEF TypeOK
<1>2. ASSUME NEW m, NEW rpc, NEW arg, NEW w, Ask(n, m, rpc, arg, w) PROVE Kept
  BY <1>1, <1>2 DEF Ask, Request
<1>3. ~Die(n)
  BY <1>0 DEF Die, TypeOK
<1>4. CASE UNCHANGED <<call, finger>>
  BY <1>4
<1>5. CASE JoinFound(n) \/ GotPredecessor(n) \/ GotList(n) \/ GotListOfPredecessor(n)
  BY <1>2, <1>3, <1>5 DEF JoinFound, GotPredecessor, GotList, GotListOfPredecessor, Notify
<1>6. CASE JoinDone(n) \/ Notified(n) \/ PredecessorChecked(n)
  BY <1>1, <1>6, NoCallFields DEF JoinDone, Notified, PredecessorChecked
<1>7. CASE FindElsewhere(n)
  <2>1. PICK place \in Places \ {Self} : ClosestPreceding(n, place) /\ Forward(n, place)
    BY <1>7 DEF FindElsewhere
  <2>2. /\ \A i \in Slots : list[n][i] \in Members
        /\ \A k \in Fingers : finger[n][k] \in Members \cup {Empty}
    BY <1>7, MemberTables DEF FindElsewhere
  <2>3. Connects(At(place, n, list[n], finger[n]))
    BY <1>0, <1>7, <2>1, <2>2, CloserPlace, MembersConnect DEF FindElsewhere
  <2> QED BY <1>2, <2>1, <2>3 DEF Forward
<1>8. CASE Stabilize(n)
  <2>1. Connects(list[n][0])
    <3>1. \A i \in Slots : list[n][i] \in Members
      BY <1>8, MemberTables DEF Stabilize
    <3> QED BY <3>1, MembersConnect, NodesAreNumbers
  <2>2. Ask(n, list[n][0], "get_predecessor", 0, "stPred") /\ UNCHANGED finger
    BY <1>8, <2>1, NodeAssumption DEF Stabilize, TryPredecessor
  <2> QED BY <1>2, <2>2
<1>9. CASE StabilizeAlone(n) \/ FixFingers(n) \/ \E key \in Key[n] : Lookup(n, key)
  BY <1>4, <1>9 DEF StabilizeAlone, FixFingers, Lookup
<1>10. CASE CheckPredecessor(n) \/ Join(n, c)
  BY <1>2, <1>4, <1>10 DEF CheckPredecessor, Join
<1>11. CASE ServeFindSuccessor(n, c)
  <2>1. call' = [call EXCEPT ![c].phase = "accepted"] /\ UNCHANGED finger
    BY <1>11 DEF ServeFindSuccessor
  <2>2. call'[c].phase = "accepted" /\ \A x \in Node \ {c} : call'[x] = call[x]
    BY <1>0, <2>1 DEF TypeOK, Calls
  <2> QED BY <2>1, <2>2
<1>12. CASE Serve(n, c) /\ ~ServeFindSuccessor(n, c)
  <2>1. PICK rpc, v, l : /\ Accept(n, c, rpc) /\ Reply(n, c, v, l) /\ UNCHANGED finger
                         /\ rpc # "find_successor"
    BY <1>12 DEF Serve, ServeGetSuccessorList, ServeGetPredecessor, ServeNotify,
                 ServeCheckPredecessor
  <2>2. call[c].rpc # "find_successor" /\ c # n /\ pc[c] # "crashed"
    BY <2>1, WaitingPlaces DEF Accept, CallInv, Bookkeeping, BlockedInItsCall, Ring, Sound, Healthy
  <2>3. call'[c].rpc = call[c].rpc
    <3>1. call'[c] = [call[c] EXCEPT !.phase = "replied", !.node = v, !.list = l]
      BY <1>0, <2>1, <2>2 DEF Reply, TypeOK
    <3> QED BY <1>0, <3>1 DEF TypeOK, Calls
  <2>4. call'[n].phase = "none" /\ \A x \in Node \ {n, c} : call'[x] = call[x]
    BY <1>0, <2>1, <2>2, NoCallFields DEF Reply, TypeOK
  <2> QED BY <2>1, <2>2, <2>3, <2>4
<1> HIDE DEF Kept
<1> QED BY <1>5, <1>6, <1>7, <1>8, <1>9, <1>10, <1>11, <1>12, NoFailureStep
    DEF Continue, StabilizeTimer, Kept

\* What the end of a search tells whom.
LEMMA ReturnTells ==
  ASSUME CallInv, Ring, NEW n \in Node, NEW s, Return(n, s),
         pc[n] = "find" \/ Answered(n, "findWait"),
         NEW x \in Node, call'[x].phase = "replied"
  PROVE  call'[x] = call[x] \/ (call'[x].node = s /\ call'[x].arg = find[n].target)
<1>0. TypeOK
  BY DEF CallInv
<1>1. CASE call' = [call EXCEPT ![n] = NoCall]
  BY <1>0, <1>1, NoCallFields DEF TypeOK
<1>2. CASE find[n].for = "serve" /\ Reply(n, find[n].client, s, NoList)
  <2>1. CASE find[n].client \notin Node
    <3>1. call' = [call EXCEPT ![n] = NoCall]
      BY <1>0, <1>2, <2>1 DEF Reply, TypeOK
    <3> QED BY <1>1, <3>1
  <2>2. CASE find[n].client \in Node
    <3>1. PICK c \in Node : c = find[n].client
      BY <2>2
    <3>2. WorksFor(n, c) /\ pc[c] # "crashed"
      BY <1>2, <3>1 DEF WorksFor, Answered, Ring, Sound, Healthy
    <3>3. call[c].to = n /\ call[c].phase = "accepted" /\ call[c].arg = find[n].target
      BY <3>2 DEF CallInv, Bookkeeping, ServedIsWaiting
    <3>4. c # n
      BY <3>3 DEF CallInv, Bookkeeping, Callees
    <3>5. call'[c] = [call[c] EXCEPT !.phase = "replied", !.node = s, !.list = NoList]
      BY <1>0, <1>2, <3>1, <3>2, <3>4 DEF Reply, TypeOK
    <3>6. call'[c].node = s /\ call'[c].arg = find[n].target
      BY <1>0, <3>3, <3>5 DEF TypeOK, Calls
    <3>7. call'[n].phase = "none" /\ \A y \in Node \ {n, c} : call'[y] = call[y]
      BY <1>0, <1>2, <3>1, <3>4, NoCallFields DEF Reply, TypeOK
    <3> QED BY <3>6, <3>7
  <2> QED BY <2>1, <2>2
<1> QED BY <1>1, <1>2 DEF Return

\* In the ideal ring what searches answer and fixFingers enters is right, also
\* the fingers one answer fills at once (handleFindSuccessorRPC and fixFingers,
\* chord.c:312-385, 853-905): the half of FingersConverge that needs no fairness.
THEOREM FingersAreRepaired ==
  ASSUME StartsGoOut PROVE Spec => RepairsAreRight
<1> DEFINE Repaired == Ideal /\ AnswersAreRight /\ kills' = 0 /\ Members' = Members =>
                         AnswersAreRight' /\ FilledRight
<1>1. CallInv /\ RingInv /\ RingInv' /\ AllAim /\ [Next]_vars => [Repaired]_vars
  <2> SUFFICES ASSUME CallInv, RingInv, RingInv', AllAim, [Next]_vars, vars' # vars,
                       Ideal, AnswersAreRight, kills' = 0, Members' = Members
               PROVE  AnswersAreRight' /\ FilledRight
    OBVIOUS
  <2>1. Ring /\ Ring' /\ TypeOK
    BY KillsGrow DEF RingInv, CallInv
  <2>2. PICK n \in Node, c \in Node :
          \/ Continue(n) \/ StabilizeTimer(n) \/ FixFingers(n)
          \/ CheckPredecessor(n) \/ Serve(n, c) \/ Join(n, c)
          \/ \E key \in Key[n] : Lookup(n, key)
    BY KillsGrow
  <2>3. ASSUME NEW t PROVE Owner(t)' = Owner(t)
    BY DEF Owner
  <2>4. CASE ~FindHere(n) /\ ~Found(n)
    <3>1. /\ UNCHANGED finger
          /\ \A x \in Node : call'[x].phase = "replied" /\ call'[x].rpc = "find_successor" =>
               call'[x] = call[x]
      BY <2>1, <2>2, <2>4, OnlyReturns
    <3>2. AnswersAreRight'
      <4> SUFFICES ASSUME NEW x \in Node, call'[x].phase = "replied",
                          call'[x].rpc = "find_successor", call'[x].arg \notin Node
                   PROVE  call'[x].node = Owner(call[x].arg)'
        BY DEF AnswersAreRight
      <4>1. call'[x] = call[x]
        BY <3>1
      <4>2. call[x].node = Owner(call[x].arg)
        BY <4>1 DEF AnswersAreRight
      <4> QED BY <2>3, <4>1, <4>2 DEF Owner
    <3> QED BY <3>1, <3>2 DEF FilledRight
  <2>5. CASE FindHere(n) \/ Found(n)
    <3>1. PICK s : Return(n, s) /\ (find[n].target \notin Node => s = Owner(find[n].target))
      <4>1. CASE find[n].target \in Node
        BY <2>5, <4>1 DEF FindHere, Found
      <4>2. CASE find[n].target \notin Node
        BY <2>1, <2>5, <4>2, IdealReturn
      <4> QED BY <4>1, <4>2
    <3>2. pc[n] = "find" \/ Answered(n, "findWait")
      BY <2>5 DEF FindHere, Found
    <3>3. AnswersAreRight'
      <4> SUFFICES ASSUME NEW x \in Node, call'[x].phase = "replied",
                          call'[x].rpc = "find_successor", call'[x].arg \notin Node
                   PROVE  call'[x].node = Owner(call[x].arg)'
        BY DEF AnswersAreRight
      <4>1. call'[x] = call[x] \/ (call'[x].node = s /\ call'[x].arg = find[n].target)
        BY <2>1, <3>1, <3>2, ReturnTells
      <4>2. call'[x].node = Owner(call'[x].arg)
        BY <3>1, <4>1 DEF AnswersAreRight
      <4> QED BY <4>2 DEF Owner
    <3>4. FilledRight
      <4>1. CASE UNCHANGED finger
        BY <4>1 DEF FilledRight
      <4>2. CASE find[n].for = "fix" /\ FillFingers(n, s)
        <5>1. AimsAtFinger(n) /\ n \in Members
          BY <3>2, MemberPlaces DEF AllAim, Answered
        <5>2. s = Owner(find[n].target)
          BY <3>1, <4>2, <5>1 DEF AimsAtFinger, StartsGoOut
        <5>3. \A k \in Fingers :
                finger'[n][k] = finger[n][k] \/ finger'[n][k] = Owner(FingerStart[n][k])
          BY <2>1, <4>2, <5>1, <5>2, IdealFill
        <5>4. \A x \in Node \ {n} : finger'[x] = finger[x]
          BY <2>1, <4>2 DEF FillFingers, TypeOK
        <5> QED BY <5>3, <5>4 DEF FilledRight
      <4> QED BY <3>1, <4>1, <4>2 DEF Return
    <3> QED BY <3>3, <3>4
  <2> QED BY <2>4, <2>5
<1>2. RepairsAreRight <=> [][Repaired]_vars
  BY DEF RepairsAreRight
<1> HIDE DEF Repaired
<1> QED BY <1>1, <1>2, AimsInit, AimsNext, CallInvHolds, RingInvHolds, PTL DEF Spec
=============================================================================
