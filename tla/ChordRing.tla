------------------------------ MODULE ChordRing ------------------------------
(***************************************************************************)
(* The ring of Chord while nobody has died, proved for every set of nodes, *)
(* every length of the successor list, any number of fingers and any       *)
(* finger starts.  RingInv is inductive given CallInv.  Its heart is that  *)
(* tables and answers only ever hold nodes whose join is complete          *)
(* (members), and that no successor ever lies beyond the creator of the    *)
(* ring: whoever follows successors comes to the creator within one turn.  *)
(***************************************************************************)
EXTENDS ChordCalls, FiniteSetTheorems, WellFoundedInduction

USE DEF NodeOrEmpty, Slots, Fingers

\* s lies on the way from n to the creator of the ring, or is the creator.
Toward(n, s) == s = Creator \/ Between(s, n, Creator)

Healthy(n) == pc[n] \notin {"hung", "crashed", "scan", "retry"}

\* Tables hold members: a successor list from the moment its node has joined,
\* its first entry from the moment it is known.
ListKnown(n) ==
  /\ n \in Members => \A i \in Slots : list[n][i] \in Members
  /\ pc[n] = "joinList" => list[n][0] \in Members

TablesKnown(n) ==
  /\ prede[n] \in Members \cup {Empty}
  /\ \A k \in Fingers : finger[n][k] \in Members \cup {Empty}

\* So do answers.
AnswerKnown(n) ==
  call[n].phase = "replied" =>
    /\ call[n].rpc = "find_successor" => call[n].node \in Members
    /\ call[n].rpc = "get_successor_list" => \A i \in Slots : call[n].list[i] \in Members
    /\ call[n].rpc = "get_predecessor" => call[n].node \in Members \cup {Empty}

\* Calls go to another process that has been started.
CalleeStarted(n) ==
  call[n].phase # "none" => call[n].to # n /\ pc[call[n].to] # "off"

\* stabilize never comes past the first entry of its list, and takes its
\* successor's predecessor only if it lies before that entry.
StabilizesFirst(n) ==
  /\ pc[n] \in {"stPred", "stList"} => at[n].i = 0
  /\ pc[n] = "stList" => at[n].p \in Members \cup {Empty}
  /\ pc[n] = "stList2" => at[n].p \in Members /\ Between(at[n].p, n, list[n][0])

AsksForTarget(n) ==
  /\ pc[n] = "joinFind" => call[n].arg = n
  /\ pc[n] = "findWait" => call[n].arg = find[n].target

EdgeToward(n) == n \in Members \/ pc[n] = "joinList" => Toward(n, list[n][0])

\* An answer about an identifier that is nobody's, or that of a node still to
\* join, does not lie beyond the creator.  (An answer about a member may: the
\* node before it answers with itself.)
AnswerToward(n) ==
  call[n].phase = "replied" /\ call[n].rpc = "find_successor" /\ call[n].arg \notin Members
    => Toward(call[n].arg, call[n].node)

Sound(n) ==
  /\ Healthy(n) /\ ListKnown(n) /\ TablesKnown(n) /\ AnswerKnown(n) /\ CalleeStarted(n)
  /\ StabilizesFirst(n) /\ AsksForTarget(n) /\ EdgeToward(n) /\ AnswerToward(n)

Ring == Creator \in Members /\ \A n \in Node : Sound(n)

RingInv == kills = 0 => Ring

-----------------------------------------------------------------------------
(* Identifiers *)

LEMMA NodesAreNumbers ==
  /\ Node \subseteq Nat /\ Empty \notin Node /\ Empty \in Nat /\ Creator \in Node
  /\ Members \subseteq Node /\ 0 \in Slots
BY NodeAssumption DEF Empty, Members

\* What lies between a node and its successor is not beyond the creator.
LEMMA CloserIsToward ==
  ASSUME NEW n \in Nat, NEW s \in Nat, NEW p \in Nat, Toward(n, s), Between(p, n, s)
  PROVE  Toward(n, p)
BY NodesAreNumbers DEF Toward, Between

\* Nor is the successor of an identifier between a node and its own.
LEMMA OwnerIsToward ==
  ASSUME NEW n \in Nat, NEW s \in Nat, NEW t \in Nat, Toward(n, s), Between(t, n, s)
  PROVE  Toward(t, s)
BY NodesAreNumbers DEF Toward, Between

LEMMA AloneIsCreator ==
  ASSUME NEW n \in Nat, Toward(n, n) PROVE n = Creator
BY NodesAreNumbers DEF Toward, Between

LEMMA BetweenIsAnother2 ==
  ASSUME NEW n \in Nat, NEW s \in Nat, NEW p \in Nat, Between(p, n, s)
  PROVE  p # n
BY DEF Between

-----------------------------------------------------------------------------
(* What does not change *)

\* Nobody but the nodes in S is touched.
Untouched(S) ==
  \A x \in Node \ S :
    /\ pc'[x] = pc[x] /\ list'[x] = list[x] /\ prede'[x] = prede[x]
    /\ finger'[x] = finger[x] /\ call'[x] = call[x] /\ at'[x] = at[x]
    /\ find'[x] = find[x]

\* Members stay members, and started processes started.
Grows ==
  /\ Members \subseteq Members'
  /\ \A x \in Node : pc[x] # "off" => pc'[x] # "off"

LEMMA GrowsByOne ==
  ASSUME NEW n \in Node, \A x \in Node \ {n} : pc'[x] = pc[x],
         n \in Members => n \in Members', pc[n] # "off" => pc'[n] # "off"
  PROVE  Grows
BY DEF Grows, Members

LEMMA SoundElsewhere ==
  ASSUME TypeOK, Grows, NEW S, Untouched(S), NEW x \in Node \ S, Sound(x),
         call[x].phase # "none" => call[x].to \in Node
  PROVE  Sound(x)'
<1> USE DEF Sound, Untouched, Grows
<1>1. x \in Members <=> x \in Members'
  BY DEF Members
<1>2. Healthy(x)' /\ ListKnown(x)' /\ TablesKnown(x)'
  BY <1>1 DEF Healthy, ListKnown, TablesKnown
<1>3. AnswerKnown(x)' /\ CalleeStarted(x)'
  BY DEF AnswerKnown, CalleeStarted
<1>4. StabilizesFirst(x)' /\ AsksForTarget(x)'
  BY DEF StabilizesFirst, AsksForTarget
<1>5. EdgeToward(x)' /\ AnswerToward(x)'
  BY <1>1 DEF EdgeToward, AnswerToward, Toward
<1> QED BY <1>2, <1>3, <1>4, <1>5

LEMMA RingElsewhere ==
  ASSUME CallInv, Ring, Grows, NEW S \in SUBSET Node, Untouched(S), \A x \in S : Sound(x)'
  PROVE  Ring'
<1>1. ASSUME NEW x \in Node \ S PROVE Sound(x)'
  <2>1. call[x].phase # "none" => call[x].to \in Node
    BY DEF CallInv, Bookkeeping, Callees
  <2> QED BY <2>1, SoundElsewhere DEF Ring, CallInv
<1> QED BY <1>1 DEF Ring, Grows

-----------------------------------------------------------------------------
(* Kinds of steps *)

LEMMA MemberPlaces ==
  ASSUME NEW n \in Node
  PROVE  /\ n \in Members <=> pc[n] \notin {"off", "joinFind", "joinList", "crashed"}
         /\ (n \in Members)' <=> pc'[n] \notin {"off", "joinFind", "joinList", "crashed"}
BY DEF Members

\* n sends a call.
LEMMA SendSound ==
  ASSUME CallInv, Ring, NEW n \in Node, NEW m \in Node \ {n}, pc[m] # "off",
         NEW rpc, NEW arg, NEW where \in Waiting, Ask(n, m, rpc, arg, where),
         n \in Members => where \notin {"joinFind", "joinList"},
         Untouched({n}), prede'[n] = prede[n], finger'[n] = finger[n],
         Grows => /\ ListKnown(n)' /\ EdgeToward(n)'
                  /\ StabilizesFirst(n)' /\ AsksForTarget(n)'
  PROVE  Ring'
<1>1. /\ pc'[n] = where /\ call'[n].to = m /\ call'[n].phase = "queued"
      /\ \A x \in Node \ {n} : pc'[x] = pc[x]
  BY AskFields DEF CallInv
<1>2. where \notin {"off", "hung", "crashed", "scan", "retry"}
  BY WaitingValues
<1>3. Grows
  BY <1>1, <1>2, GrowsByOne, MemberPlaces
<1>4. Healthy(n)' /\ AnswerKnown(n)' /\ AnswerToward(n)'
  BY <1>1, <1>2 DEF Healthy, AnswerKnown, AnswerToward
<1>5. CalleeStarted(n)'
  BY <1>1 DEF CalleeStarted
<1>6. TablesKnown(n)'
  BY <1>3 DEF TablesKnown, Grows, Ring, Sound
<1>7. Sound(n)'
  BY <1>3, <1>4, <1>5, <1>6 DEF Sound
<1> QED BY <1>3, <1>7, RingElsewhere

\* n, which has no call, or only an answer it has read, goes to its loop or
\* starts a search, with tables that hold members.
LEMMA LoopSound ==
  ASSUME CallInv, Ring, NEW n \in Node, pc[n] # "off",
         pc'[n] \in {"idle", "find"}, call'[n].phase = "none",
         Untouched({n}),
         \A i \in Slots : list'[n][i] \in Members \cup {n}, Toward(n, list'[n][0]),
         prede'[n] \in Members \cup {Empty},
         \A k \in Fingers : finger'[n][k] \in Members \cup {Empty}
  PROVE  Ring'
<1>1. Grows /\ (n \in Members)'
  BY GrowsByOne, MemberPlaces DEF Untouched
<1>2. Healthy(n)' /\ AnswerKnown(n)' /\ AnswerToward(n)' /\ CalleeStarted(n)'
  BY DEF Healthy, AnswerKnown, AnswerToward, CalleeStarted
<1>3. ListKnown(n)' /\ TablesKnown(n)'
  BY <1>1 DEF ListKnown, TablesKnown, Grows
<1>4. StabilizesFirst(n)' /\ AsksForTarget(n)'
  BY DEF StabilizesFirst, AsksForTarget
<1>5. EdgeToward(n)'
  BY DEF EdgeToward, Toward
<1>6. Sound(n)'
  BY <1>2, <1>3, <1>4, <1>5 DEF Sound
<1> QED BY <1>1, <1>6, RingElsewhere

\* What a member at the top of its loop, or in a search, may rely on.
LEMMA MemberTables ==
  ASSUME CallInv, Ring, NEW n \in Node,
         pc[n] \notin {"off", "joinFind", "joinList"}
  PROVE  /\ n \in Members
         /\ \A i \in Slots : list[n][i] \in Members
         /\ Toward(n, list[n][0])
         /\ prede[n] \in Members \cup {Empty}
         /\ \A k \in Fingers : finger[n][k] \in Members \cup {Empty}
<1>1. Sound(n)
  BY DEF Ring
<1>2. n \in Members
  BY <1>1, MemberPlaces DEF Sound, Healthy
<1> QED BY <1>1, <1>2 DEF Sound, ListKnown, TablesKnown, EdgeToward

LEMMA MembersConnect ==
  ASSUME NEW m \in Members PROVE Connects(m)
BY DEF Members, Connects

\* n, in its loop after the step, answers c, which reads members.
LEMMA AnswerSound ==
  ASSUME CallInv, Ring, NEW n \in Node, NEW c \in Node \ {n}, NEW v, NEW l,
         Reply(n, c, v, l), pc[n] \notin {"off", "joinFind", "joinList"}, pc'[n] = "idle",
         \A x \in Node \ {n} : pc'[x] = pc[x],
         UNCHANGED <<list, finger, at>>,
         prede'[n] \in Members \cup {Empty},
         \A x \in Node \ {n} : prede'[x] = prede[x] /\ find'[x] = find[x],
         call[c].to = n,
         call[c].rpc = "find_successor" =>
           v \in Members /\ (call[c].arg \notin Members => Toward(call[c].arg, v)),
         call[c].rpc = "get_successor_list" => \A i \in Slots : l[i] \in Members,
         call[c].rpc = "get_predecessor" => v \in Members \cup {Empty}
  PROVE  Ring'
<1>0. Sound(n) /\ Sound(c) /\ TypeOK
  BY DEF Ring, CallInv
<1>1. /\ call'[n] = NoCall
      /\ \A x \in Node \ {n, c} : call'[x] = call[x]
      /\ call'[c].to = call[c].to /\ call'[c].rpc = call[c].rpc
      /\ call'[c].phase = "replied" /\ call'[c].node = v /\ call'[c].list = l
  BY <1>0, ReplyFields DEF Sound, Healthy
<1>2. call'[c].arg = call[c].arg
  <2>1. call'[c] = [call[c] EXCEPT !.phase = "replied", !.node = v, !.list = l]
    BY <1>0 DEF Reply, TypeOK, Sound, Healthy
  <2>2. call[c] \in Calls
    BY <1>0 DEF TypeOK
  <2> QED BY <2>1, <2>2 DEF Calls
<1>3. Grows
  BY GrowsByOne, MemberPlaces
<1>4. n \in Members /\ ListKnown(n) /\ TablesKnown(n) /\ EdgeToward(n)
  BY <1>0, MemberTables DEF Sound
<1>5. Sound(n)'
  <2>1. Healthy(n)' /\ AnswerKnown(n)' /\ AnswerToward(n)' /\ CalleeStarted(n)'
    BY <1>1, NoCallFields DEF Healthy, AnswerKnown, AnswerToward, CalleeStarted
  <2>2. ListKnown(n)' /\ TablesKnown(n)'
    BY <1>3, <1>4 DEF ListKnown, TablesKnown, Grows
  <2>3. StabilizesFirst(n)' /\ AsksForTarget(n)'
    BY DEF StabilizesFirst, AsksForTarget
  <2>4. EdgeToward(n)'
    BY <1>4 DEF EdgeToward, Toward
  <2> QED BY <2>1, <2>2, <2>3, <2>4 DEF Sound
<1>6. Sound(c)'
  <2>1. c \in Members <=> (c \in Members)'
    BY MemberPlaces
  <2>2. Healthy(c)' /\ ListKnown(c)' /\ TablesKnown(c)'
    BY <1>0, <1>3, <2>1 DEF Sound, Healthy, ListKnown, TablesKnown, Grows
  <2>3. AnswerKnown(c)'
    BY <1>1, <1>3 DEF AnswerKnown, Grows
  <2>4. CalleeStarted(c)'
    BY <1>1 DEF CalleeStarted
  <2>5. StabilizesFirst(c)' /\ AsksForTarget(c)'
    BY <1>0, <1>2, <1>3 DEF Sound, StabilizesFirst, AsksForTarget, Grows
  <2>6. EdgeToward(c)'
    BY <1>0, <2>1 DEF Sound, EdgeToward, Toward
  <2>7. AnswerToward(c)'
    BY <1>1, <1>2, <1>3 DEF AnswerToward, Toward, Grows
  <2> QED BY <2>2, <2>3, <2>4, <2>5, <2>6, <2>7 DEF Sound
<1>7. Untouched({n, c})
  BY <1>1 DEF Untouched
<1> QED BY <1>3, <1>5, <1>6, <1>7, RingElsewhere

\* The answer to a search is given: to c, to fixFingers or to the user.
LEMMA ReturnSound ==
  ASSUME CallInv, Ring, NEW n \in Node, NEW s \in Members, Return(n, s),
         pc[n] = "find" \/ Answered(n, "findWait"),
         find[n].target \notin Members => Toward(find[n].target, s)
  PROVE  Ring'
<1>0. pc[n] \notin {"off", "joinFind", "joinList"} /\ TypeOK
  BY DEF Answered, CallInv
<1>1. /\ pc'[n] = "idle" /\ \A x \in Node \ {n} : pc'[x] = pc[x] /\ find'[x] = find[x]
      /\ UNCHANGED <<prede, list, at>>
  BY <1>0 DEF Return, TypeOK
<1>2. /\ \A i \in Slots : list[n][i] \in Members
      /\ Toward(n, list[n][0]) /\ prede[n] \in Members \cup {Empty}
      /\ \A k \in Fingers : finger[n][k] \in Members \cup {Empty}
  BY <1>0, MemberTables
<1>3. CASE find[n].for = "serve" /\ find[n].client \in Node
  <2> DEFINE c == find[n].client
  <2>1. WorksFor(n, c)
    BY <1>3 DEF WorksFor, Answered
  <2>2. pc[c] # "crashed"
    BY <1>3 DEF Ring, Sound, Healthy
  <2>3. /\ call[c].to = n /\ call[c].phase = "accepted"
        /\ call[c].rpc = "find_successor" /\ call[c].arg = find[n].target
    BY <1>3, <2>1, <2>2 DEF CallInv, Bookkeeping, ServedIsWaiting
  <2>4. c # n
    BY <2>3 DEF CallInv, Bookkeeping, Callees
  <2>5. Reply(n, c, s, NoList) /\ UNCHANGED finger
    BY <1>3 DEF Return
  <2> HIDE DEF c
  <2>6. c \in Node \ {n}
    BY <1>3, <2>4 DEF c
  <2> QED BY <1>0, <1>1, <1>2, <2>3, <2>5, <2>6, AnswerSound
<1>4. CASE find[n].for # "serve" \/ find[n].client \notin Node
  <2>1. call' = [call EXCEPT ![n] = NoCall]
    <3>1. CASE find[n].for # "serve"
      BY <3>1 DEF Return
    <3>2. CASE find[n].client \notin Node /\ Reply(n, find[n].client, s, NoList)
      BY <1>0, <3>2 DEF Reply, TypeOK
    <3> QED BY <1>4, <3>1, <3>2 DEF Return
  <2>2. call'[n].phase = "none" /\ \A x \in Node \ {n} : call'[x] = call[x]
    BY <1>0, <2>1, NoCallFields DEF TypeOK
  <2>3. /\ \A x \in Node \ {n} : finger'[x] = finger[x]
        /\ \A k \in Fingers : finger'[n][k] \in Members \cup {Empty}
    <3>1. CASE UNCHANGED finger
      BY <1>2, <3>1
    <3>2. CASE FillFingers(n, s)
      BY <1>0, <1>2, <3>2 DEF FillFingers, TypeOK
    <3> QED BY <3>1, <3>2 DEF Return
  <2>4. Untouched({n})
    BY <1>1, <2>2, <2>3 DEF Untouched
  <2> QED BY <1>0, <1>1, <1>2, <2>2, <2>3, <2>4, LoopSound
<1> QED BY <1>3, <1>4

\* A search that knows no node nearer to its target owns it, or the target is
\* its successor itself.
LEMMA FindHereOwns ==
  ASSUME CallInv, Ring, NEW n \in Node, FindHere(n)
  PROVE  \/ Owns(n, find[n].target) /\ Return(n, list[n][0])
         \/ find[n].target = list[n][0] /\ Return(n, n)
<1> DEFINE s == list[n][0]
           t == find[n].target
<1>1. pc[n] = "find" /\ n \in Members /\ s \in Members /\ 0 \in Slots
  BY MemberTables, NodesAreNumbers DEF FindHere
<1>2. n \in Nat /\ s \in Nat /\ t \in Nat /\ s # Empty
  BY <1>1, NodesAreNumbers DEF CallInv, TypeOK
<1>3. ASSUME ~Owns(n, t), ClosestPreceding(n, Self) PROVE t = s
  <2>1. Hits(list[n], n, t) = {}
    BY <1>3 DEF ClosestPreceding, IsClosestPreceding, Self, InList, InFinger
  <2>2. 0 \in DOMAIN list[n]
    BY <1>1 DEF CallInv, TypeOK
  <2>3. ~Between(s, n, t)
    BY <1>2, <2>1, <2>2 DEF Hits
  <2>4. ~Between(t, n, s) /\ n # s
    BY <1>3 DEF Owns
  <2> HIDE DEF s, t
  <2> QED BY <1>2, <2>3, <2>4 DEF Between
<1> QED BY <1>3 DEF FindHere

\* So its answer is not beyond the creator.
LEMMA FindHereSound ==
  ASSUME CallInv, Ring, NEW n \in Node, FindHere(n)
  PROVE  Ring'
<1> DEFINE s == list[n][0]
           t == find[n].target
<1>1. pc[n] = "find" /\ n \in Members /\ s \in Members /\ Toward(n, s)
  BY MemberTables, NodesAreNumbers DEF FindHere
<1>2. n \in Nat /\ s \in Nat /\ t \in Nat
  BY <1>1, NodesAreNumbers DEF CallInv, TypeOK
<1>3. CASE Owns(n, t) /\ Return(n, s)
  <2>1. Toward(t, s)
    <3>1. CASE Between(t, n, s)
      BY <1>1, <1>2, <3>1, OwnerIsToward
    <3>2. CASE n = s
      BY <1>1, <1>2, <3>2, AloneIsCreator DEF Toward
    <3> QED BY <1>3, <3>1, <3>2 DEF Owns
  <2> QED BY <1>1, <1>3, <2>1, ReturnSound
<1>4. CASE t = s /\ Return(n, n)
  BY <1>1, <1>4, ReturnSound
<1> QED BY <1>3, <1>4, FindHereOwns

LEMMA FoundSound ==
  ASSUME CallInv, Ring, NEW n \in Node, Found(n)
  PROVE  Ring'
<1>1. pc[n] = "findWait" /\ call[n].phase = "replied" /\ Return(n, call[n].node)
  BY DEF Found, Answered
<1>2. call[n].rpc = "find_successor"
  BY <1>1, WaitsForValues, WaitingPlaces DEF CallInv, Bookkeeping, BlockedInItsCall
<1>3. call[n].arg = find[n].target /\ AnswerKnown(n) /\ AnswerToward(n)
  BY <1>1 DEF Ring, Sound, AsksForTarget
<1>4. call[n].node \in Members
      /\ (find[n].target \notin Members => Toward(find[n].target, call[n].node))
  BY <1>1, <1>2, <1>3 DEF AnswerKnown, AnswerToward
<1> QED BY <1>1, <1>4, ReturnSound DEF Answered

\* The place closetPrecedingNode finds holds a node between n and the target.
LEMMA CloserPlace ==
  ASSUME NEW n, NEW place \in Places \ {Self}, ClosestPreceding(n, place),
         TypeOK, n \in Node
  PROVE  LET m == At(place, n, list[n], finger[n])
         IN  /\ m # Empty /\ Between(m, n, find[n].target)
             /\ \/ \E i \in Slots : m = list[n][i]
                \/ \E k \in Fingers : m = finger[n][k]
<1> DEFINE L == Hits(list[n], n, find[n].target)
           F == Hits(finger[n], n, find[n].target)
<1>0. DOMAIN list[n] = Slots /\ DOMAIN finger[n] = Fingers
  BY DEF TypeOK
<1>1. \/ \E i \in L : place = InList(i)
      \/ \E k \in F : place = InFinger(k)
  BY DEF ClosestPreceding, IsClosestPreceding
<1>2. CASE \E i \in L : place = InList(i)
  <2>1. PICK i \in L : place = InList(i)
    BY <1>2
  <2>2. At(place, n, list[n], finger[n]) = list[n][i]
    BY <2>1 DEF At, InList
  <2> QED BY <1>0, <2>1, <2>2 DEF Hits
<1>3. CASE \E k \in F : place = InFinger(k)
  <2>1. PICK k \in F : place = InFinger(k)
    BY <1>3
  <2>2. At(place, n, list[n], finger[n]) = finger[n][k]
    BY <2>1 DEF At, InFinger
  <2> QED BY <1>0, <2>1, <2>2 DEF Hits
<1> QED BY <1>1, <1>2, <1>3

-----------------------------------------------------------------------------
(* The actions *)

LEMMA FindElsewhereSound ==
  ASSUME CallInv, Ring, NEW n \in Node, FindElsewhere(n)
  PROVE  Ring'
<1>1. PICK place \in Places \ {Self} : ClosestPreceding(n, place) /\ Forward(n, place)
  BY DEF FindElsewhere
<1> DEFINE m == At(place, n, list[n], finger[n])
<1>2. /\ pc[n] = "find" /\ UNCHANGED <<prede, next, find, at, lookup, kills>>
      /\ TypeOK
  BY DEF FindElsewhere, CallInv
<1>3. m # Empty /\ Between(m, n, find[n].target) /\ m \in Members
  BY <1>1, <1>2, CloserPlace, MemberTables
<1>4. n \in Nat /\ m \in Nat /\ find[n].target \in Nat /\ m \in Node
  BY <1>2, <1>3, NodesAreNumbers DEF TypeOK
<1>5. m # n /\ Connects(m)
  BY <1>3, <1>4, BetweenIsAnother2, MembersConnect
<1>6. Ask(n, m, "find_successor", find[n].target, "findWait") /\ UNCHANGED <<list, finger>>
  BY <1>1, <1>5 DEF Forward
<1> HIDE DEF m
<1>7. /\ pc'[n] = "findWait" /\ call'[n].arg = find[n].target
      /\ \A x \in Node \ {n} : pc'[x] = pc[x] /\ call'[x] = call[x]
  BY <1>2, <1>6, AskFields
<1>8. Untouched({n})
  BY <1>2, <1>6, <1>7 DEF Untouched
<1>9. /\ \A i \in Slots : list[n][i] \in Members
      /\ Toward(n, list[n][0])
  BY <1>2, MemberTables
<1>10. Grows => /\ ListKnown(n)' /\ EdgeToward(n)'
                /\ StabilizesFirst(n)' /\ AsksForTarget(n)'
  BY <1>2, <1>6, <1>7, <1>9
  DEF Grows, ListKnown, EdgeToward, Toward, StabilizesFirst, AsksForTarget
<1>11. "findWait" \in Waiting /\ m \in Node \ {n} /\ pc[m] # "off"
  BY <1>4, <1>5, WaitingPlaces DEF Connects
<1> QED BY <1>2, <1>6, <1>8, <1>10, <1>11, SendSound

LEMMA JoinSound ==
  ASSUME CallInv, Ring, NEW n \in Node, NEW b \in Node, Join(n, b)
  PROVE  Ring'
<1>1. /\ pc[n] = "off" /\ pc[b] # "off" /\ b # n
      /\ Ask(n, b, "find_successor", n, "joinFind")
      /\ UNCHANGED <<prede, list, finger, next, find, at, lookup, kills>>
  BY DEF Join, Connects
<1>2. /\ pc'[n] = "joinFind" /\ call'[n].arg = n
      /\ \A x \in Node \ {n} : pc'[x] = pc[x] /\ call'[x] = call[x]
  BY <1>1, AskFields DEF CallInv
<1>3. Untouched({n}) /\ n \notin Members /\ (n \notin Members)'
  BY <1>1, <1>2, MemberPlaces DEF Untouched
<1>4. /\ ListKnown(n)' /\ EdgeToward(n)' /\ StabilizesFirst(n)' /\ AsksForTarget(n)'
  BY <1>2, <1>3 DEF ListKnown, EdgeToward, StabilizesFirst, AsksForTarget
<1>5. "joinFind" \in Waiting
  BY WaitingValues
<1> QED BY <1>1, <1>3, <1>4, <1>5, SendSound

LEMMA JoinFoundSound ==
  ASSUME CallInv, Ring, NEW n \in Node, JoinFound(n)
  PROVE  Ring'
<1> DEFINE s == call[n].node
<1>1. /\ pc[n] = "joinFind" /\ call[n].phase = "replied" /\ n \notin Members
      /\ list' = [list EXCEPT ![n][0] = s]
      /\ UNCHANGED <<prede, finger, next, find, at, lookup, kills>>
  BY MemberPlaces DEF JoinFound, Answered
<1>2. call[n].rpc = "find_successor"
  BY <1>1, WaitsForValues, WaitingValues DEF CallInv, Bookkeeping, BlockedInItsCall
<1>3. s \in Members /\ Toward(n, s)
  BY <1>1, <1>2 DEF Ring, Sound, AsksForTarget, AnswerKnown, AnswerToward
<1>4. Connects(s) /\ s \in Node \ {n} /\ pc[s] # "off" /\ "joinList" \in Waiting
  BY <1>1, <1>3, MembersConnect, NodesAreNumbers, WaitingValues DEF Connects
<1>5. Ask(n, s, "get_successor_list", 0, "joinList")
  BY <1>4 DEF JoinFound
<1>6. /\ list'[n][0] = s /\ \A x \in Node \ {n} : list'[x] = list[x]
  BY <1>1, NodesAreNumbers DEF CallInv, TypeOK
<1> HIDE DEF s
<1>7. /\ pc'[n] = "joinList"
      /\ \A x \in Node \ {n} : pc'[x] = pc[x] /\ call'[x] = call[x]
  BY <1>5, AskFields DEF CallInv
<1>8. Untouched({n}) /\ (n \notin Members)'
  BY <1>1, <1>6, <1>7, MemberPlaces DEF Untouched
<1>9. Grows => /\ ListKnown(n)' /\ EdgeToward(n)'
               /\ StabilizesFirst(n)' /\ AsksForTarget(n)'
  BY <1>3, <1>6, <1>7, <1>8
  DEF Grows, ListKnown, EdgeToward, Toward, StabilizesFirst, AsksForTarget
<1> QED BY <1>1, <1>4, <1>5, <1>8, <1>9, SendSound

LEMMA AdoptSlots ==
  ASSUME NEW s, NEW l, NEW V, s \in V, \A i \in Slots : l[i] \in V
  PROVE  Adopt(s, l)[0] = s /\ \A i \in Slots : Adopt(s, l)[i] \in V
BY NodesAreNumbers, NodeAssumption DEF Adopt

LEMMA JoinDoneSound ==
  ASSUME CallInv, Ring, NEW n \in Node, JoinDone(n)
  PROVE  Ring'
<1> DEFINE new == Adopt(list[n][0], call[n].list)
<1>1. /\ pc[n] = "joinList" /\ call[n].phase = "replied"
      /\ list' = [list EXCEPT ![n] = new]
      /\ pc' = [pc EXCEPT ![n] = "idle"] /\ call' = [call EXCEPT ![n] = NoCall]
      /\ UNCHANGED <<prede, finger, next, find, at, lookup, kills>>
  BY DEF JoinDone, Answered
<1>2. call[n].rpc = "get_successor_list"
  BY <1>1, WaitsForValues, WaitingValues DEF CallInv, Bookkeeping, BlockedInItsCall
<1>3. /\ list[n][0] \in Members /\ Toward(n, list[n][0])
      /\ \A i \in Slots : call[n].list[i] \in Members
      /\ prede[n] \in Members \cup {Empty}
      /\ \A k \in Fingers : finger[n][k] \in Members \cup {Empty}
  BY <1>1, <1>2 DEF Ring, Sound, ListKnown, EdgeToward, AnswerKnown, TablesKnown
<1>4. new[0] = list[n][0] /\ \A i \in Slots : new[i] \in Members
  BY <1>3, AdoptSlots
<1> HIDE DEF new
<1>5. /\ list'[n] = new /\ pc'[n] = "idle" /\ call'[n].phase = "none"
      /\ Untouched({n})
  BY <1>1, NoCallFields DEF CallInv, TypeOK, Untouched
<1> QED BY <1>1, <1>3, <1>4, <1>5, LoopSound

LEMMA GotPredecessorSound ==
  ASSUME CallInv, Ring, NEW n \in Node, GotPredecessor(n)
  PROVE  Ring'
<1> DEFINE s == list[n][0]
<1>1. /\ pc[n] = "stPred" /\ call[n].phase = "replied"
      /\ at' = [at EXCEPT ![n] = [i |-> at[n].i, p |-> call[n].node]]
      /\ UNCHANGED <<prede, list, finger, next, find, lookup, kills>>
  BY DEF GotPredecessor, Answered
<1>2. call[n].rpc = "get_predecessor"
  BY <1>1, WaitsForValues, WaitingValues DEF CallInv, Bookkeeping, BlockedInItsCall
<1>3. at[n].i = 0 /\ call[n].node \in Members \cup {Empty} /\ call[n].to # n
  BY <1>1, <1>2 DEF Ring, Sound, StabilizesFirst, AnswerKnown, CalleeStarted
<1>4. n \in Members /\ Toward(n, s) /\ \A i \in Slots : list[n][i] \in Members
  BY <1>1, MemberTables
<1>5. s = call[n].to
  BY <1>1, <1>3 DEF CallInv, StabilizeLinks
<1>6. Connects(s) /\ s \in Node \ {n} /\ pc[s] # "off" /\ "stList" \in Waiting
  BY <1>3, <1>4, <1>5, MembersConnect, NodesAreNumbers, WaitingValues DEF Connects
<1>7. Ask(n, s, "get_successor_list", 0, "stList")
  BY <1>3, <1>6 DEF GotPredecessor
<1> HIDE DEF s
<1>8. /\ pc'[n] = "stList" /\ at'[n].i = 0 /\ at'[n].p = call[n].node
      /\ \A x \in Node \ {n} : pc'[x] = pc[x] /\ call'[x] = call[x] /\ at'[x] = at[x]
  BY <1>1, <1>3, <1>7, AskFields DEF CallInv, TypeOK
<1>9. Untouched({n})
  BY <1>1, <1>8 DEF Untouched
<1>10. Grows => /\ ListKnown(n)' /\ EdgeToward(n)'
                /\ StabilizesFirst(n)' /\ AsksForTarget(n)'
  BY <1>1, <1>3, <1>4, <1>8
  DEF s, Grows, ListKnown, EdgeToward, Toward, StabilizesFirst, AsksForTarget
<1> QED BY <1>1, <1>6, <1>7, <1>9, <1>10, SendSound

\* n adopts a list whose first entry s is its successor or a nearer node, and
\* goes on to m.
LEMMA AdoptSound ==
  ASSUME CallInv, Ring, NEW n \in Node, NEW s \in Members, NEW m \in Members,
         NEW where \in {"stList2", "stNotify"}, NEW rpc,
         pc[n] \notin {"off", "joinFind", "joinList"}, m # n,
         call[n].phase = "replied", call[n].rpc = "get_successor_list",
         list' = [list EXCEPT ![n] = Adopt(s, call[n].list)],
         Ask(n, m, rpc, 0, where),
         Toward(n, s), where = "stList2" => m = at[n].p /\ Between(m, n, s),
         UNCHANGED <<prede, finger, next, find, at, lookup, kills>>
  PROVE  Ring'
<1> DEFINE new == Adopt(s, call[n].list)
<1>1. \A i \in Slots : call[n].list[i] \in Members
  BY DEF Ring, Sound, AnswerKnown
<1>2. new[0] = s /\ \A i \in Slots : new[i] \in Members
  BY <1>1, AdoptSlots
<1> HIDE DEF new
<1>3. /\ list'[n] = new /\ \A x \in Node \ {n} : list'[x] = list[x]
  BY DEF CallInv, TypeOK, new
<1>4. /\ pc'[n] = where
      /\ \A x \in Node \ {n} : pc'[x] = pc[x] /\ call'[x] = call[x]
  BY AskFields DEF CallInv
<1>5. Untouched({n})
  BY <1>3, <1>4 DEF Untouched
<1>6. Grows => /\ ListKnown(n)' /\ EdgeToward(n)'
               /\ StabilizesFirst(n)' /\ AsksForTarget(n)'
  <2> SUFFICES ASSUME Grows
               PROVE  /\ ListKnown(n)' /\ EdgeToward(n)'
                      /\ StabilizesFirst(n)' /\ AsksForTarget(n)'
    OBVIOUS
  <2>1. ListKnown(n)'
    BY <1>2, <1>3, <1>4 DEF Grows, ListKnown
  <2>2. EdgeToward(n)'
    BY <1>2, <1>3 DEF EdgeToward, Toward
  <2>3. StabilizesFirst(n)'
    BY <1>2, <1>3, <1>4 DEF Grows, StabilizesFirst
  <2> QED BY <1>4, <2>1, <2>2, <2>3 DEF AsksForTarget
<1>7. where \in Waiting /\ m \in Node \ {n} /\ pc[m] # "off"
  BY WaitingValues, NodesAreNumbers, MembersConnect DEF Connects
<1> QED BY <1>4, <1>5, <1>6, <1>7, SendSound

LEMMA GotListSound ==
  ASSUME CallInv, Ring, NEW n \in Node, GotList(n)
  PROVE  Ring'
<1> DEFINE s == list[n][0]
           p == at[n].p
           new == Adopt(s, call[n].list)
<1>1. /\ pc[n] = "stList" /\ call[n].phase = "replied"
      /\ UNCHANGED <<prede, finger, next, find, at, lookup, kills>>
  BY DEF GotList, Answered
<1>2. call[n].rpc = "get_successor_list"
  BY <1>1, WaitsForValues, WaitingValues DEF CallInv, Bookkeeping, BlockedInItsCall
<1>3. at[n].i = 0 /\ p \in Members \cup {Empty} /\ call[n].to # n
      /\ \A i \in Slots : call[n].list[i] \in Members
  BY <1>1, <1>2 DEF Ring, Sound, StabilizesFirst, AnswerKnown, CalleeStarted
<1>4. n \in Members /\ Toward(n, s) /\ s \in Members
  BY <1>1, MemberTables, NodesAreNumbers
<1>5. s # n
  BY <1>1, <1>3 DEF CallInv, StabilizeLinks
<1>6. new[0] = s
  BY <1>3, <1>4, AdoptSlots
<1>7. list' = [list EXCEPT ![n] = new]
  BY <1>3 DEF GotList
<1>8. CASE /\ p # Empty /\ Between(p, n, s)
           /\ Ask(n, p, "get_successor_list", 0, "stList2")
  <2>1. p \in Members /\ p # n
    <3>1. n \in Nat /\ p \in Nat /\ s \in Nat
      BY <1>3, <1>4, NodesAreNumbers
    <3> QED BY <1>3, <1>8, <3>1, BetweenIsAnother2
  <2> HIDE DEF s, p
  <2> QED BY <1>1, <1>2, <1>4, <1>7, <1>8, <2>1, AdoptSound DEF p
<1>9. CASE Notify(n, s)
  <2>1. Ask(n, s, "notify", 0, "stNotify")
    BY <1>4, <1>9, MembersConnect DEF Notify
  <2> QED BY <1>1, <1>2, <1>4, <1>5, <1>7, <2>1, AdoptSound
<1>10. \/ /\ p # Empty /\ Between(p, n, new[0])
          /\ Ask(n, p, "get_successor_list", 0, "stList2")
       \/ Notify(n, new[0])
  BY <1>3 DEF GotList
<1> HIDE DEF new
<1> QED BY <1>6, <1>8, <1>9, <1>10

LEMMA GotListOfPredecessorSound ==
  ASSUME CallInv, Ring, NEW n \in Node, GotListOfPredecessor(n)
  PROVE  Ring'
<1> DEFINE p == at[n].p
<1>1. /\ pc[n] = "stList2" /\ call[n].phase = "replied"
      /\ list' = [list EXCEPT ![n] = Adopt(p, call[n].list)]
      /\ Notify(n, p)
      /\ UNCHANGED <<prede, finger, next, find, at, lookup, kills>>
  BY DEF GotListOfPredecessor, Answered
<1>2. call[n].rpc = "get_successor_list"
  BY <1>1, WaitsForValues, WaitingValues DEF CallInv, Bookkeeping, BlockedInItsCall
<1>3. p \in Members /\ Between(p, n, list[n][0])
  BY <1>1 DEF Ring, Sound, StabilizesFirst
<1>4. p # n
  BY <1>1 DEF CallInv, StabilizeLinks
<1>5. Toward(n, p)
  <2>1. Toward(n, list[n][0]) /\ list[n][0] \in Members
    BY <1>1, MemberTables, NodesAreNumbers
  <2>2. n \in Nat /\ p \in Nat /\ list[n][0] \in Nat
    BY <1>3, <2>1, NodesAreNumbers
  <2> QED BY <1>3, <2>1, <2>2, CloserIsToward
<1>6. Ask(n, p, "notify", 0, "stNotify")
  BY <1>1, <1>3, MembersConnect DEF Notify
<1> QED BY <1>1, <1>2, <1>3, <1>4, <1>5, <1>6, AdoptSound

LEMMA StabilizeSound ==
  ASSUME CallInv, Ring, NEW n \in Node, Stabilize(n)
  PROVE  Ring'
<1> DEFINE s == list[n][0]
<1>1. pc[n] = "idle" /\ s # n /\ UNCHANGED <<prede, next, find, lookup, kills>>
  BY DEF Stabilize
<1>2. Toward(n, s) /\ s \in Members /\ \A i \in Slots : list[n][i] \in Members
  BY <1>1, MemberTables, NodesAreNumbers
<1>3. Connects(s) /\ s \in Node \ {n} /\ pc[s] # "off" /\ "stPred" \in Waiting
  BY <1>1, <1>2, MembersConnect, NodesAreNumbers, WaitingValues DEF Connects
<1>4. /\ Ask(n, s, "get_predecessor", 0, "stPred")
      /\ at' = [at EXCEPT ![n] = [i |-> 0, p |-> Empty]]
      /\ UNCHANGED <<list, finger>>
  BY <1>3, NodeAssumption DEF Stabilize, TryPredecessor
<1> HIDE DEF s
<1>5. /\ pc'[n] = "stPred" /\ at'[n].i = 0
      /\ \A x \in Node \ {n} : pc'[x] = pc[x] /\ call'[x] = call[x] /\ at'[x] = at[x]
  BY <1>4, AskFields DEF CallInv, TypeOK
<1>6. Untouched({n})
  BY <1>1, <1>4, <1>5 DEF Untouched
<1>7. Grows => /\ ListKnown(n)' /\ EdgeToward(n)'
               /\ StabilizesFirst(n)' /\ AsksForTarget(n)'
  BY <1>2, <1>4, <1>5
  DEF s, Grows, ListKnown, EdgeToward, Toward, StabilizesFirst, AsksForTarget
<1> QED BY <1>1, <1>3, <1>4, <1>6, <1>7, SendSound

LEMMA CheckPredecessorSound ==
  ASSUME CallInv, Ring, NEW n \in Node, CheckPredecessor(n)
  PROVE  Ring'
<1>1. pc[n] = "idle" /\ prede[n] # Empty
      /\ UNCHANGED <<list, finger, next, find, at, lookup, kills>>
  BY DEF CheckPredecessor
<1>2. prede[n] \in Members /\ Toward(n, list[n][0]) /\ \A i \in Slots : list[n][i] \in Members
  BY <1>1, MemberTables
<1>3. Connects(prede[n]) /\ prede[n] \in Node \ {n} /\ pc[prede[n]] # "off"
      /\ "check" \in Waiting
  BY <1>2, MembersConnect, NodesAreNumbers, WaitingValues
  DEF Connects, CallInv, PredecessorIsAnother
<1>4. Ask(n, prede[n], "check_predecessor", 0, "check") /\ UNCHANGED prede
  BY <1>3 DEF CheckPredecessor
<1>5. /\ pc'[n] = "check"
      /\ \A x \in Node \ {n} : pc'[x] = pc[x] /\ call'[x] = call[x]
  BY <1>4, AskFields DEF CallInv
<1>6. Untouched({n})
  BY <1>1, <1>4, <1>5 DEF Untouched
<1>7. Grows => /\ ListKnown(n)' /\ EdgeToward(n)'
               /\ StabilizesFirst(n)' /\ AsksForTarget(n)'
  BY <1>1, <1>2, <1>5
  DEF Grows, ListKnown, EdgeToward, Toward, StabilizesFirst, AsksForTarget
<1> QED BY <1>1, <1>3, <1>4, <1>6, <1>7, SendSound

LEMMA ServeFindSound ==
  ASSUME CallInv, Ring, NEW n \in Node, NEW c \in Node, ServeFindSuccessor(n, c)
  PROVE  Ring'
<1>1. /\ pc[n] = "idle" /\ call[c].to = n /\ call[c].phase = "queued"
      /\ EnterFind(n, "serve", c, call[c].arg)
      /\ call' = [call EXCEPT ![c].phase = "accepted"]
      /\ UNCHANGED <<prede, list, finger, next, at, lookup, kills>>
  BY DEF ServeFindSuccessor, Accept
<1>2. c # n /\ call[n].phase = "none"
  BY <1>1, WaitingPlaces DEF CallInv, Bookkeeping, BlockedInItsCall
<1>3. /\ pc'[n] = "find" /\ \A x \in Node \ {n} : pc'[x] = pc[x] /\ find'[x] = find[x]
  BY <1>1 DEF EnterFind, CallInv, TypeOK
<1>4. /\ call'[c].to = n /\ call'[c].phase = "accepted" /\ call'[c].arg = call[c].arg
      /\ \A x \in Node \ {c} : call'[x] = call[x]
  <2>1. call'[c] = [call[c] EXCEPT !.phase = "accepted"] /\ call[c] \in Calls
    BY <1>1 DEF CallInv, TypeOK
  <2>2. \A x \in Node \ {c} : call'[x] = call[x]
    BY <1>1 DEF CallInv, TypeOK
  <2> QED BY <1>1, <2>1, <2>2 DEF Calls
<1>5. Grows /\ (n \in Members)'
  BY <1>1, <1>3, GrowsByOne, MemberPlaces
<1>6. Sound(n)'
  <2>1. Healthy(n)' /\ AnswerKnown(n)' /\ AnswerToward(n)' /\ CalleeStarted(n)'
    BY <1>2, <1>3, <1>4 DEF Healthy, AnswerKnown, AnswerToward, CalleeStarted
  <2>2. ListKnown(n)' /\ TablesKnown(n)' /\ EdgeToward(n)'
    BY <1>1, <1>3, <1>5, MemberTables DEF ListKnown, TablesKnown, EdgeToward, Toward, Grows
  <2>3. StabilizesFirst(n)' /\ AsksForTarget(n)'
    BY <1>3 DEF StabilizesFirst, AsksForTarget
  <2> QED BY <2>1, <2>2, <2>3 DEF Sound
<1>7. Sound(c)'
  <2>0. Sound(c) /\ pc'[c] = pc[c] /\ list'[c] = list[c] /\ find'[c] = find[c]
    BY <1>1, <1>2, <1>3 DEF Ring
  <2>1. c \in Members <=> (c \in Members)'
    BY <2>0, MemberPlaces
  <2>2. Healthy(c)' /\ ListKnown(c)' /\ TablesKnown(c)'
    BY <1>1, <1>5, <2>0, <2>1 DEF Sound, Healthy, ListKnown, TablesKnown, Grows
  <2>3. AnswerKnown(c)' /\ AnswerToward(c)' /\ CalleeStarted(c)'
    BY <1>2, <1>3, <1>4 DEF AnswerKnown, AnswerToward, CalleeStarted
  <2>4. StabilizesFirst(c)' /\ AsksForTarget(c)'
    BY <1>1, <1>4, <1>5, <2>0 DEF Sound, StabilizesFirst, AsksForTarget, Grows
  <2>5. EdgeToward(c)'
    BY <2>0, <2>1 DEF Sound, EdgeToward, Toward
  <2> QED BY <2>2, <2>3, <2>4, <2>5 DEF Sound
<1>8. Untouched({n, c})
  BY <1>1, <1>3, <1>4 DEF Untouched
<1> QED BY <1>5, <1>6, <1>7, <1>8, RingElsewhere

LEMMA ServeSound ==
  ASSUME CallInv, Ring, NEW n \in Node, NEW c \in Node, Serve(n, c)
  PROVE  Ring'
<1>1. CASE ServeFindSuccessor(n, c)
  BY <1>1, ServeFindSound
<1>2. ASSUME NEW rpc, NEW v, NEW l, Accept(n, c, rpc), Reply(n, c, v, l),
             UNCHANGED <<pc, list, finger, next, find, at, lookup, kills>>,
             \A x \in Node \ {n} : prede'[x] = prede[x],
             prede'[n] \in Members \cup {Empty},
             rpc \in {"get_successor_list", "get_predecessor", "notify", "check_predecessor"},
             rpc = "get_successor_list" => l = list[n],
             rpc = "get_predecessor" => v = prede[n]
      PROVE  Ring'
  <2>1. /\ pc[n] = "idle" /\ call[c].to = n /\ call[c].phase = "queued"
        /\ call[c].rpc = rpc
    BY <1>2 DEF Accept
  <2>2. c # n
    BY <2>1, WaitingPlaces DEF CallInv, Bookkeeping, BlockedInItsCall
  <2>3. /\ \A i \in Slots : list[n][i] \in Members
        /\ prede[n] \in Members \cup {Empty}
    BY <2>1, MemberTables
  <2>4. c \in Node \ {n} /\ pc'[n] = "idle"
    BY <1>2, <2>1, <2>2
  <2> QED BY <1>2, <2>1, <2>3, <2>4, AnswerSound
<1>3. CASE ServeGetSuccessorList(n, c)
  <2>1. pc[n] = "idle" /\ UNCHANGED prede
    BY <1>3 DEF ServeGetSuccessorList, Accept
  <2>2. prede[n] \in Members \cup {Empty}
    BY <2>1, MemberTables
  <2> QED BY <1>2, <1>3, <2>1, <2>2 DEF ServeGetSuccessorList
<1>4. CASE ServeGetPredecessor(n, c) \/ ServeCheckPredecessor(n, c)
  <2>1. pc[n] = "idle" /\ UNCHANGED prede
    BY <1>4 DEF ServeGetPredecessor, ServeCheckPredecessor, Accept
  <2>2. prede[n] \in Members \cup {Empty}
    BY <2>1, MemberTables
  <2> QED BY <1>2, <1>4, <2>1, <2>2 DEF ServeGetPredecessor, ServeCheckPredecessor
<1>5. CASE ServeNotify(n, c)
  <2>1. /\ pc[n] = "idle" /\ call[c].phase = "queued" /\ call[c].rpc = "notify"
        /\ prede' = IF Improves(n, c) THEN [prede EXCEPT ![n] = c] ELSE prede
    BY <1>5 DEF ServeNotify, Accept
  <2>2. pc[c] = "stNotify"
    BY <2>1, WaitsForValues, WaitingValues
    DEF CallInv, Bookkeeping, BlockedInItsCall, Ring, Sound, Healthy
  <2>3. c \in Members /\ prede[n] \in Members \cup {Empty}
    BY <2>1, <2>2, MemberPlaces, MemberTables
  <2>4. prede'[n] \in Members \cup {Empty} /\ \A x \in Node \ {n} : prede'[x] = prede[x]
    BY <2>1, <2>3 DEF CallInv, TypeOK
  <2> QED BY <1>2, <1>5, <2>4 DEF ServeNotify
<1> QED BY <1>1, <1>3, <1>4, <1>5 DEF Serve

\* Steps that return to the loop, or enter a search, without an answer of use.
LEMMA QuietSound ==
  ASSUME CallInv, Ring, NEW n \in Node,
         \/ Notified(n) \/ PredecessorChecked(n) \/ StabilizeAlone(n) \/ FixFingers(n)
         \/ \E key \in Key[n] : Lookup(n, key)
  PROVE  Ring'
<1>1. /\ pc[n] \notin {"off", "joinFind", "joinList"}
      /\ UNCHANGED <<prede, finger>>
  BY DEF Notified, PredecessorChecked, StabilizeAlone, FixFingers, Lookup, Answered
<1>2. /\ n \in Members /\ \A i \in Slots : list[n][i] \in Members
      /\ Toward(n, list[n][0])
      /\ prede[n] \in Members \cup {Empty}
      /\ \A k \in Fingers : finger[n][k] \in Members \cup {Empty}
  BY <1>1, MemberTables
<1>3. CASE Notified(n) \/ PredecessorChecked(n)
  <2>1. pc'[n] = "idle" /\ call'[n].phase = "none" /\ Untouched({n}) /\ UNCHANGED list
    BY <1>3, NoCallFields DEF Notified, PredecessorChecked, CallInv, TypeOK, Untouched
  <2> QED BY <1>1, <1>2, <2>1, LoopSound
<1>4. CASE FixFingers(n) \/ \E key \in Key[n] : Lookup(n, key)
  <2>1. pc[n] = "idle" /\ pc'[n] = "find" /\ Untouched({n}) /\ UNCHANGED <<call, list>>
    BY <1>4 DEF FixFingers, Lookup, EnterFind, CallInv, TypeOK, Untouched
  <2>2. call'[n].phase = "none"
    BY <2>1, WaitingPlaces DEF CallInv, Bookkeeping, BlockedInItsCall
  <2> QED BY <1>1, <1>2, <2>1, <2>2, LoopSound
<1>5. CASE StabilizeAlone(n)
  <2> DEFINE new == Adopt(prede[n], list[n])
  <2>1. /\ pc[n] = "idle" /\ list[n][0] = n /\ prede[n] # Empty
        /\ Between(prede[n], n, list[n][0])
        /\ list' = [list EXCEPT ![n] = new]
        /\ UNCHANGED <<pc, call, at, find>>
    BY <1>5 DEF StabilizeAlone
  <2>2. call'[n].phase = "none"
    BY <2>1, WaitingPlaces DEF CallInv, Bookkeeping, BlockedInItsCall
  <2>3. new[0] = prede[n] /\ \A i \in Slots : new[i] \in Members
    BY <1>2, <2>1, AdoptSlots
  <2>4. Toward(n, prede[n])
    <3>1. n \in Nat /\ prede[n] \in Nat /\ list[n][0] \in Nat
      BY <1>2, <2>1, NodesAreNumbers
    <3> QED BY <1>2, <2>1, <3>1, CloserIsToward
  <2> HIDE DEF new
  <2>5. list'[n] = new /\ Untouched({n})
    BY <1>1, <2>1 DEF CallInv, TypeOK, Untouched
  <2>6. Toward(n, list'[n][0]) /\ \A i \in Slots : list'[n][i] \in Members \cup {n}
    BY <2>3, <2>4, <2>5
  <2>7. pc'[n] \in {"idle", "find"}
    BY <2>1
  <2> QED BY <1>1, <1>2, <2>2, <2>5, <2>6, <2>7, LoopSound
<1> QED BY <1>3, <1>4, <1>5

\* What only happens after a failure does not happen.
LEMMA NoFailureStep ==
  ASSUME CallInv, Ring, NEW n \in Node
  PROVE  ~StabilizeNext(n) /\ ~FindAgain(n) /\ ~CalleeGone(n)
<1>1. Healthy(n) /\ CalleeStarted(n)
  BY DEF Ring, Sound
<1>2. ~StabilizeNext(n) /\ ~FindAgain(n)
  BY <1>1 DEF Healthy, StabilizeNext, FindAgain
<1>3. call[n].phase # "none" => Connects(call[n].to)
  BY <1>1 DEF CalleeStarted, Connects, CallInv, Bookkeeping, Callees, Ring, Sound, Healthy
<1> QED BY <1>2, <1>3 DEF CalleeGone

LEMMA RingAction ==
  ASSUME CallInv, Ring, NEW n \in Node, NEW c \in Node,
         \/ Continue(n) \/ StabilizeTimer(n) \/ FixFingers(n)
         \/ CheckPredecessor(n) \/ Serve(n, c) \/ Join(n, c)
         \/ \E key \in Key[n] : Lookup(n, key)
  PROVE  Ring'
<1>1. CASE JoinFound(n) \/ JoinDone(n)
  BY <1>1, JoinFoundSound, JoinDoneSound
<1>2. CASE GotPredecessor(n) \/ GotList(n) \/ GotListOfPredecessor(n) \/ Stabilize(n)
  BY <1>2, GotPredecessorSound, GotListSound, GotListOfPredecessorSound, StabilizeSound
<1>3. CASE FindHere(n) \/ FindElsewhere(n) \/ Found(n)
  BY <1>3, FindHereSound, FindElsewhereSound, FoundSound
<1>4. CASE \/ Notified(n) \/ PredecessorChecked(n) \/ StabilizeAlone(n) \/ FixFingers(n)
           \/ \E key \in Key[n] : Lookup(n, key)
  BY <1>4, QuietSound
<1>5. CASE CheckPredecessor(n) \/ Serve(n, c) \/ Join(n, c)
  BY <1>5, CheckPredecessorSound, ServeSound, JoinSound
<1> QED BY <1>1, <1>2, <1>3, <1>4, <1>5, NoFailureStep DEF Continue, StabilizeTimer

-----------------------------------------------------------------------------
(* The invariant *)

LEMMA RingInit == Init => RingInv
<1> SUFFICES ASSUME Init PROVE Ring
  BY DEF RingInv
<1>1. /\ \A x \in Node : /\ pc[x] = IF x = Creator THEN "idle" ELSE "off"
                         /\ call[x] = NoCall /\ prede[x] = Empty
                         /\ finger[x] = IF x = Creator THEN [k \in Fingers |-> x] ELSE NoFinger
      /\ list[Creator] = [i \in Slots |-> Creator]
  BY NodesAreNumbers DEF Init
<1>2. Members = {Creator}
  BY <1>1, NodesAreNumbers DEF Members
<1>3. ASSUME NEW x \in Node PROVE Sound(x)
  <2>1. Healthy(x) /\ AnswerKnown(x) /\ AnswerToward(x) /\ CalleeStarted(x)
    BY <1>1, NoCallFields DEF Healthy, AnswerKnown, AnswerToward, CalleeStarted
  <2>2. ListKnown(x) /\ EdgeToward(x)
    <3>1. pc[x] # "joinList" /\ (x \in Members <=> x = Creator)
      BY <1>1, <1>2
    <3>2. \A i \in Slots : list[Creator][i] = Creator
      BY <1>1
    <3> QED BY <1>2, <3>1, <3>2, NodesAreNumbers DEF ListKnown, EdgeToward, Toward
  <2>3. TablesKnown(x)
    <3>1. prede[x] = Empty
      BY <1>1
    <3>2. ASSUME NEW k \in Fingers PROVE finger[x][k] \in {Creator, Empty}
      <4>1. CASE x = Creator
        BY <1>1, <4>1
      <4>2. CASE x # Creator
        <5>1. finger[x] = NoFinger
          BY <1>1, <4>2
        <5> QED BY <5>1 DEF NoFinger
      <4> QED BY <4>1, <4>2
    <3> QED BY <1>2, <3>1, <3>2 DEF TablesKnown
  <2>4. StabilizesFirst(x) /\ AsksForTarget(x)
    BY <1>1 DEF StabilizesFirst, AsksForTarget
  <2> QED BY <2>1, <2>2, <2>3, <2>4 DEF Sound
<1> QED BY <1>2, <1>3 DEF Ring

LEMMA RingStutters == Ring /\ UNCHANGED vars => Ring'
BY DEF vars, Ring, Members, Sound, Healthy, ListKnown, TablesKnown, AnswerKnown,
       CalleeStarted, StabilizesFirst, AsksForTarget, EdgeToward, Toward, AnswerToward

\* Only Kill counts a failure.
LEMMA KillsGrow ==
  ASSUME CallInv, [Next]_vars
  PROVE  /\ kills \in Nat /\ kills <= kills'
         /\ kills' = 0 =>
              \/ UNCHANGED vars
              \/ \E n, c \in Node :
                   \/ Continue(n) \/ StabilizeTimer(n) \/ FixFingers(n)
                   \/ CheckPredecessor(n) \/ Serve(n, c) \/ Join(n, c)
                   \/ \E key \in Key[n] : Lookup(n, key)
<1>1. kills \in Nat
  BY NodeAssumption DEF CallInv, TypeOK
<1>2. CASE UNCHANGED vars
  BY <1>1, <1>2 DEF vars
<1>3. CASE \E n \in Node : Kill(n)
  BY <1>1, <1>3 DEF Kill
<1>4. ASSUME NEW n \in Node, NEW c \in Node,
             \/ Continue(n) \/ StabilizeTimer(n) \/ FixFingers(n)
             \/ CheckPredecessor(n) \/ Serve(n, c) \/ Join(n, c)
             \/ \E key \in Key[n] : Lookup(n, key)
      PROVE  kills' = kills
  <2>1. CASE Continue(n)
    BY <2>1
    DEF Continue, JoinFound, JoinDone, StabilizeNext, GotPredecessor, GotList,
        GotListOfPredecessor, Notified, FindHere, FindElsewhere, FindAgain, Found,
        Return, PredecessorChecked, CalleeGone
  <2>2. CASE StabilizeTimer(n) \/ FixFingers(n) \/ CheckPredecessor(n)
    BY <2>2 DEF StabilizeTimer, StabilizeAlone, Stabilize, FixFingers, CheckPredecessor
  <2>3. CASE Serve(n, c)
    BY <2>3 DEF Serve, ServeFindSuccessor, ServeGetSuccessorList, ServeGetPredecessor,
                ServeNotify, ServeCheckPredecessor
  <2>4. CASE Join(n, c) \/ \E key \in Key[n] : Lookup(n, key)
    BY <2>4 DEF Join, Lookup
  <2> QED BY <1>4, <2>1, <2>2, <2>3, <2>4
<1>5. CASE \E n, c \in Node :
             \/ Continue(n) \/ StabilizeTimer(n) \/ FixFingers(n)
             \/ CheckPredecessor(n) \/ Serve(n, c) \/ Join(n, c)
             \/ \E key \in Key[n] : Lookup(n, key)
  BY <1>1, <1>4, <1>5
<1> QED BY <1>2, <1>3, <1>5 DEF Next

LEMMA RingNext == CallInv /\ RingInv /\ [Next]_vars => RingInv'
<1> SUFFICES ASSUME CallInv, RingInv, [Next]_vars, kills' = 0 PROVE Ring'
  BY DEF RingInv
<1>1. Ring
  BY KillsGrow DEF RingInv
<1> QED BY <1>1, KillsGrow, RingStutters, RingAction

\* As long as nobody has died: whatever a table or an answer holds has
\* completed its join, nobody is stuck, calls go to other processes, and no
\* successor lies beyond the creator of the ring.
THEOREM RingInvHolds == Spec => []RingInv
BY RingInit, RingNext, CallInvHolds, PTL DEF Spec

-----------------------------------------------------------------------------
(* What it means for calls and failures *)

\* While nobody is killed, no process dies, spins or meets a dead node by
\* itself: the sockets the code does not check (chord.c:732, 787, 1001) and
\* the zeroed slots of its tables never hurt.
THEOREM NoFailureByItself == Spec => []NoSpontaneousFailure
<1>1. RingInv => NoSpontaneousFailure
  BY DEF RingInv, Ring, Sound, Healthy, NoSpontaneousFailure
<1> QED BY <1>1, RingInvHolds, PTL

\* While nobody is killed, no node connects to itself and waits for its own
\* answer for ever (sendFindSuccessorRPC and stabilize, chord.c:332-372, 697-760).
THEOREM NeverCallsItself == Spec => []NoSelfCall
<1>1. CallInv /\ RingInv => NoSelfCall
  <2> SUFFICES ASSUME CallInv, Ring, NEW n \in Node PROVE call[n].to # n
    BY DEF RingInv, NoSelfCall
  <2>1. CalleeStarted(n)
    BY DEF Ring, Sound
  <2> QED BY <2>1 DEF CalleeStarted, CallInv, Bookkeeping, Callees
<1> QED BY <1>1, CallInvHolds, RingInvHolds, PTL

-----------------------------------------------------------------------------
(* Searches that are passed on *)

LEMMA ReplyKeepsArg ==
  ASSUME TypeOK, NEW n \in Node, NEW c \in Node \ {n}, NEW v, NEW l,
         Reply(n, c, v, l), pc[c] # "crashed"
  PROVE  call'[c].arg = call[c].arg
<1>1. call'[c] = [call[c] EXCEPT !.phase = "replied", !.node = v, !.list = l]
  BY DEF Reply, TypeOK
<1>2. call[c] \in Calls
  BY DEF TypeOK
<1> QED BY <1>1, <1>2 DEF Calls

\* x goes on waiting for the same answer of the same node.
StillWaits(x) ==
  pc[x] = "findWait" /\ call'[x].to = call[x].to /\ call'[x].arg = call[x].arg

\* n answers c and is not waiting afterwards.
LEMMA AnswerKeepsWaits ==
  ASSUME CallInv, NEW n \in Node, NEW c, NEW v, NEW l, Reply(n, c, v, l),
         pc'[n] # "findWait", c # n, \A x \in Node \ {n} : pc'[x] = pc[x],
         NEW x \in Node, pc'[x] = "findWait"
  PROVE  StillWaits(x)
<1>0. TypeOK /\ x # n /\ pc[x] = "findWait"
  BY DEF CallInv
<1>1. CASE x = c
  BY <1>0, <1>1, ReplyFields, ReplyKeepsArg DEF StillWaits
<1>2. CASE x # c
  <2>1. call'[x] = call[x]
    BY <1>0, <1>2 DEF Reply, TypeOK
  <2> QED BY <1>0, <2>1 DEF StillWaits
<1> QED BY <1>1, <1>2

\* Only the two steps that pass a search on make a node wait for an answer to it.
LEMMA NewWaits ==
  ASSUME CallInv, NEW n \in Node, NEW c \in Node,
         \/ Continue(n) \/ StabilizeTimer(n) \/ FixFingers(n)
         \/ CheckPredecessor(n) \/ Serve(n, c) \/ Join(n, c)
         \/ (\E key \in Key[n] : Lookup(n, key)) \/ Kill(n),
         NEW x \in Node, pc'[x] = "findWait"
  PROVE  StillWaits(x) \/ (x = n /\ (FindElsewhere(n) \/ FindAgain(n)))
<1>0. TypeOK
  BY DEF CallInv
<1>1. ASSUME NEW where, where # "findWait", NEW k,
             pc' = [pc EXCEPT ![n] = where],
             call' = [call EXCEPT ![n] = k] \/ UNCHANGED call
      PROVE  StillWaits(x)
  BY <1>0, <1>1 DEF TypeOK, StillWaits
<1>2. CASE UNCHANGED <<pc, call>>
  BY <1>2 DEF StillWaits
<1>3. ASSUME NEW m, NEW rpc, NEW arg, NEW where, Ask(n, m, rpc, arg, where), where # "findWait"
      PROVE  StillWaits(x)
  BY <1>1, <1>3 DEF Ask
<1>4. ASSUME Die(n) PROVE StillWaits(x)
  BY <1>1, <1>4 DEF Die
<1>5. ASSUME NEW i, TryPredecessor(n, i) PROVE StillWaits(x)
  BY <1>1, <1>3, <1>4, <1>5 DEF TryPredecessor
<1>6. CASE JoinFound(n) \/ JoinDone(n) \/ GotPredecessor(n) \/ GotList(n)
           \/ GotListOfPredecessor(n)
  BY <1>1, <1>3, <1>4, <1>6
  DEF JoinFound, JoinDone, GotPredecessor, GotList, GotListOfPredecessor, Notify
<1>7. CASE StabilizeNext(n) \/ Stabilize(n)
  BY <1>5, <1>7 DEF StabilizeNext, Stabilize
<1>8. CASE Notified(n) \/ PredecessorChecked(n) \/ CalleeGone(n) \/ Kill(n)
  BY <1>1, <1>4, <1>8 DEF Notified, PredecessorChecked, CalleeGone, Kill
<1>9. CASE StabilizeAlone(n)
  BY <1>2, <1>9 DEF StabilizeAlone
<1>10. CASE FixFingers(n) \/ \E key \in Key[n] : Lookup(n, key)
  BY <1>1, <1>10 DEF FixFingers, Lookup, EnterFind
<1>11. CASE CheckPredecessor(n) \/ Join(n, c)
  BY <1>2, <1>3, <1>11 DEF CheckPredecessor, Join
<1>12. ASSUME NEW s, Return(n, s), pc[n] \in {"find", "findWait"} PROVE StillWaits(x)
  <2>1. pc' = [pc EXCEPT ![n] = "idle"]
    BY <1>12 DEF Return
  <2>2. CASE call' = [call EXCEPT ![n] = NoCall]
    BY <1>1, <2>1, <2>2
  <2>3. CASE find[n].for = "serve" /\ Reply(n, find[n].client, s, NoList)
    <3>1. CASE find[n].client \in Node
      <4>1. WorksFor(n, find[n].client)
        BY <1>12, <2>3 DEF WorksFor
      <4>2. find[n].client # n
        BY <1>12, <3>1, <4>1, WaitingPlaces
        DEF CallInv, Bookkeeping, ServedIsWaiting, Callees
      <4>3. pc'[n] # "findWait" /\ \A y \in Node \ {n} : pc'[y] = pc[y]
        BY <1>0, <2>1 DEF TypeOK
      <4> QED BY <2>3, <4>2, <4>3, AnswerKeepsWaits
    <3>2. CASE find[n].client \notin Node
      <4>1. call' = [call EXCEPT ![n] = NoCall]
        BY <1>0, <2>3, <3>2 DEF Reply, TypeOK
      <4> QED BY <2>2, <4>1
    <3> QED BY <3>1, <3>2
  <2> QED BY <1>12, <2>2, <2>3 DEF Return
<1>13. CASE FindHere(n) \/ Found(n)
  BY <1>12, <1>13 DEF FindHere, Found, Answered
<1>14. CASE Serve(n, c)
  <2>1. pc[n] = "idle" /\ call[c].phase = "queued"
    BY <1>14 DEF Serve, ServeFindSuccessor, ServeGetSuccessorList,
                 ServeGetPredecessor, ServeNotify, ServeCheckPredecessor, Accept
  <2>2. c # n
    BY <2>1, WaitingPlaces DEF CallInv, Bookkeeping, BlockedInItsCall
  <2>3. CASE ServeFindSuccessor(n, c)
    <3>1. /\ call' = [call EXCEPT ![c].phase = "accepted"]
          /\ pc' = [pc EXCEPT ![n] = "find"]
      BY <2>3 DEF ServeFindSuccessor, EnterFind
    <3>2. call'[x].to = call[x].to /\ call'[x].arg = call[x].arg
      <4>1. call[x] \in Calls
        BY <1>0 DEF TypeOK
      <4>2. call'[x] = IF x = c THEN [call[x] EXCEPT !.phase = "accepted"] ELSE call[x]
        BY <1>0, <3>1 DEF TypeOK
      <4> QED BY <4>1, <4>2 DEF Calls
    <3> QED BY <1>0, <3>1, <3>2 DEF TypeOK, StillWaits
  <2>4. ASSUME NEW v, NEW l, Reply(n, c, v, l), UNCHANGED pc PROVE StillWaits(x)
    BY <2>1, <2>2, <2>4, AnswerKeepsWaits
  <2> QED BY <1>14, <2>3, <2>4
      DEF Serve, ServeGetSuccessorList, ServeGetPredecessor, ServeNotify,
          ServeCheckPredecessor
<1>15. CASE FindElsewhere(n) \/ FindAgain(n)
  <2>1. PICK place : Forward(n, place)
    BY <1>15 DEF FindElsewhere, FindAgain
  <2>2. x # n => pc'[x] = pc[x] /\ call'[x] = call[x]
    BY <1>0, <2>1 DEF Forward, Ask, TypeOK
  <2> QED BY <1>15, <2>2 DEF StillWaits
<1> QED BY <1>6, <1>7, <1>8, <1>9, <1>10, <1>11, <1>13, <1>14, <1>15
    DEF Continue, StabilizeTimer

LEMMA KillsAreNumbers ==
  ASSUME CallInv, [Next]_vars
  PROVE  kills \in Nat /\ kills' \in Nat /\ kills <= kills'
<1>1. CallInv'
  BY CallInvNext
<1>2. kills \in 0..MaxKills /\ kills' \in 0..MaxKills
  BY <1>1 DEF CallInv, TypeOK
<1>3. kills <= kills'
  BY KillsGrow
<1> QED BY <1>2, <1>3, NodeAssumption

\* Passing a search on.
LEMMA ForwardApproaches ==
  ASSUME CallInv, RingInv, [Next]_vars, NEW n \in Node,
         FindElsewhere(n) \/ FindAgain(n), pc'[n] = "findWait"
  PROVE  Between(call'[n].to, n, call'[n].arg) \/ (call'[n].to = n /\ kills' > 0)
<1>1. PICK place \in Places : /\ ClosestPreceding(n, place) /\ Forward(n, place)
                              /\ place = Self => FindAgain(n)
  BY DEF FindElsewhere, FindAgain
<1> DEFINE m == At(place, n, list[n], finger[n])
<1>2. pc[n] \in {"find", "retry"} /\ TypeOK
  BY DEF FindElsewhere, FindAgain, CallInv
<1>3. Ask(n, m, "find_successor", find[n].target, "findWait")
  BY <1>1, <1>2 DEF Forward, TypeOK
<1> HIDE DEF m
<1>4. call'[n].to = m /\ call'[n].arg = find[n].target
  BY <1>2, <1>3, AskFields
<1>5. CASE place # Self
  BY <1>1, <1>2, <1>4, <1>5, CloserPlace DEF m
<1>6. CASE place = Self
  <2>1. m = n
    BY <1>6 DEF m, At, Self
  <2>2. pc[n] = "retry"
    BY <1>1, <1>6 DEF FindAgain
  <2>3. kills # 0
    BY <2>2 DEF RingInv, Ring, Sound, Healthy
  <2>4. kills' > 0
    BY <2>3, KillsAreNumbers
  <2> QED BY <1>4, <2>1, <2>4
<1> QED BY <1>5, <1>6

\* A find_successor is only passed on to a node strictly between the asking
\* node and the target, except that after a failure a node may call itself.
FindApproaches ==
  \A n \in Node : pc[n] = "findWait" =>
    \/ Between(call[n].to, n, call[n].arg)
    \/ call[n].to = n /\ kills > 0

\* A search that waits was passed on in that way (chord.c:332-372); nothing that
\* happens while it waits changes whom it has asked.
LEMMA SearchesApproach == Spec => []FindApproaches
<1>1. Init => FindApproaches
  BY NodesAreNumbers DEF Init, FindApproaches
<1>2. CallInv /\ RingInv /\ FindApproaches /\ [Next]_vars => FindApproaches'
  <2> SUFFICES ASSUME CallInv, RingInv, FindApproaches, [Next]_vars,
                      NEW x \in Node, pc'[x] = "findWait"
               PROVE  \/ Between(call'[x].to, x, call'[x].arg)
                      \/ call'[x].to = x /\ kills' > 0
    BY DEF FindApproaches
  <2>0. kills \in Nat /\ kills' \in Nat /\ kills <= kills'
    BY KillsAreNumbers
  <2>1. StillWaits(x) \/ FindElsewhere(x) \/ FindAgain(x)
    <3>1. CASE UNCHANGED vars
      BY <3>1 DEF vars, StillWaits
    <3>2. CASE Next
      <4>1. PICK n \in Node, c \in Node :
              \/ Continue(n) \/ StabilizeTimer(n) \/ FixFingers(n)
              \/ CheckPredecessor(n) \/ Serve(n, c) \/ Join(n, c)
              \/ (\E key \in Key[n] : Lookup(n, key)) \/ Kill(n)
        BY <3>2 DEF Next
      <4> QED BY <4>1, NewWaits
    <3> QED BY <3>1, <3>2
  <2>2. CASE StillWaits(x)
    BY <2>0, <2>2 DEF StillWaits, FindApproaches
  <2> QED BY <2>1, <2>2, ForwardApproaches
<1> QED BY <1>1, <1>2, CallInvHolds, RingInvHolds, PTL DEF Spec

-----------------------------------------------------------------------------
(* What stabilize and notify do to the ring *)

\* A search passed on, or stabilize's first call, finds its callee alive.
LEMMA NothingCleared ==
  ASSUME CallInv, Ring, NEW n \in Node, FindElsewhere(n) \/ Stabilize(n)
  PROVE  UNCHANGED list
<1>1. pc[n] \in {"idle", "find"} /\ TypeOK
  BY DEF FindElsewhere, Stabilize, CallInv
<1>2. /\ \A i \in Slots : list[n][i] \in Members
      /\ \A k \in Fingers : finger[n][k] \in Members \cup {Empty}
  BY <1>1, MemberTables
<1>3. CASE FindElsewhere(n)
  <2>1. PICK place \in Places \ {Self} : ClosestPreceding(n, place) /\ Forward(n, place)
    BY <1>3 DEF FindElsewhere
  <2>2. Connects(At(place, n, list[n], finger[n]))
    BY <1>1, <1>2, <2>1, CloserPlace, MembersConnect
  <2> QED BY <2>1, <2>2 DEF Forward
<1>4. CASE Stabilize(n)
  <2>1. Connects(list[n][0])
    BY <1>2, MembersConnect, NodesAreNumbers
  <2> QED BY <1>4, <2>1, NodeAssumption DEF Stabilize, TryPredecessor
<1> QED BY <1>3, <1>4

\* Only two steps give a member a new successor.
LEMMA NewSuccessor ==
  ASSUME CallInv, Ring, NEW n \in Node, NEW c \in Node,
         \/ Continue(n) \/ StabilizeTimer(n) \/ FixFingers(n)
         \/ CheckPredecessor(n) \/ Serve(n, c) \/ Join(n, c)
         \/ \E key \in Key[n] : Lookup(n, key),
         NEW x \in Members, list'[x][0] # list[x][0]
  PROVE  /\ x = n /\ Between(list'[x][0], x, list[x][0])
         /\ \/ StabilizeAlone(n) /\ list[n][0] = n /\ list'[n][0] = prede[n]
            \/ GotListOfPredecessor(n) /\ list'[n][0] = at[n].p
<1>0. TypeOK /\ 0 \in Slots /\ x \in Node
  BY NodesAreNumbers DEF CallInv
<1>1. CASE JoinFound(n) \/ JoinDone(n)
  <2>1. n \notin Members
    BY <1>1, MemberPlaces DEF JoinFound, JoinDone, Answered
  <2> QED BY <1>0, <1>1, <2>1 DEF JoinFound, JoinDone, TypeOK
<1>2. CASE GotList(n)
  <2>1. pc[n] = "stList" /\ at[n].i = 0
    BY <1>2 DEF GotList, Answered, Ring, Sound, StabilizesFirst
  <2>2. list' = [list EXCEPT ![n] = Adopt(list[n][0], call[n].list)]
    BY <1>2, <2>1 DEF GotList
  <2>3. Adopt(list[n][0], call[n].list)[0] = list[n][0]
    BY <1>0 DEF Adopt
  <2> QED BY <1>0, <2>2, <2>3 DEF TypeOK
<1>3. CASE GotListOfPredecessor(n)
  <2>1. Between(at[n].p, n, list[n][0])
    BY <1>3 DEF GotListOfPredecessor, Answered, Ring, Sound, StabilizesFirst
  <2>2. list' = [list EXCEPT ![n] = Adopt(at[n].p, call[n].list)]
    BY <1>3 DEF GotListOfPredecessor
  <2>3. Adopt(at[n].p, call[n].list)[0] = at[n].p
    BY <1>0 DEF Adopt
  <2> QED BY <1>0, <1>3, <2>1, <2>2, <2>3 DEF TypeOK
<1>4. CASE StabilizeAlone(n)
  <2>1. Between(prede[n], n, list[n][0]) /\ list[n][0] = n
        /\ list' = [list EXCEPT ![n] = Adopt(prede[n], list[n])]
    BY <1>4 DEF StabilizeAlone
  <2>2. Adopt(prede[n], list[n])[0] = prede[n]
    BY <1>0 DEF Adopt
  <2> QED BY <1>0, <1>4, <2>1, <2>2 DEF TypeOK
<1>5. CASE FindElsewhere(n) \/ Stabilize(n)
  BY <1>5, NothingCleared
<1>6. CASE \/ GotPredecessor(n) \/ Notified(n) \/ PredecessorChecked(n)
           \/ FindHere(n) \/ Found(n)
  BY <1>6 DEF GotPredecessor, Notified, PredecessorChecked, FindHere, Found, Return
<1>7. CASE \/ FixFingers(n) \/ CheckPredecessor(n) \/ Join(n, c)
           \/ \E key \in Key[n] : Lookup(n, key)
  BY <1>7 DEF FixFingers, CheckPredecessor, Join, Lookup
<1>8. CASE Serve(n, c)
  BY <1>8 DEF Serve, ServeFindSuccessor, ServeGetSuccessorList, ServeGetPredecessor,
              ServeNotify, ServeCheckPredecessor
<1> QED BY <1>1, <1>2, <1>3, <1>4, <1>5, <1>6, <1>7, <1>8, NoFailureStep
    DEF Continue, StabilizeTimer

LEMMA SuccessorMoves ==
  ASSUME CallInv, Ring, NEW n \in Node, NEW c \in Node,
         \/ Continue(n) \/ StabilizeTimer(n) \/ FixFingers(n)
         \/ CheckPredecessor(n) \/ Serve(n, c) \/ Join(n, c)
         \/ \E key \in Key[n] : Lookup(n, key),
         NEW x \in Members, list'[x][0] # list[x][0]
  PROVE  Between(list'[x][0], x, list[x][0])
BY NewSuccessor

LEMMA PredecessorMoves ==
  ASSUME CallInv, Ring, NEW n \in Node, NEW c \in Node,
         \/ Continue(n) \/ StabilizeTimer(n) \/ FixFingers(n)
         \/ CheckPredecessor(n) \/ Serve(n, c) \/ Join(n, c)
         \/ \E key \in Key[n] : Lookup(n, key),
         NEW x \in Node, prede[x] # Empty, prede'[x] # prede[x]
  PROVE  prede'[x] # Empty /\ Between(prede'[x], prede[x], x)
<1>0. TypeOK
  BY DEF CallInv
<1>1. CASE Continue(n)
  BY <1>1
  DEF Continue, JoinFound, JoinDone, StabilizeNext, GotPredecessor, GotList,
      GotListOfPredecessor, Notified, FindHere, FindElsewhere, FindAgain, Found,
      Return, PredecessorChecked, CalleeGone
<1>2. CASE StabilizeTimer(n) \/ FixFingers(n)
  BY <1>2 DEF StabilizeTimer, StabilizeAlone, Stabilize, FixFingers
<1>3. CASE CheckPredecessor(n)
  <2>1. prede[n] \in Members
    BY <1>3, MemberTables DEF CheckPredecessor
  <2> QED BY <1>3, <2>1, MembersConnect DEF CheckPredecessor
<1>4. CASE ServeNotify(n, c)
  <2>1. prede' = IF Improves(n, c) THEN [prede EXCEPT ![n] = c] ELSE prede
    BY <1>4 DEF ServeNotify
  <2> QED BY <1>0, <2>1, EmptyIsNoNode DEF Improves, TypeOK
<1>5. CASE Serve(n, c) /\ ~ServeNotify(n, c)
  BY <1>5 DEF Serve, ServeFindSuccessor, ServeGetSuccessorList, ServeGetPredecessor,
              ServeCheckPredecessor
<1>6. CASE Join(n, c) \/ \E key \in Key[n] : Lookup(n, key)
  BY <1>6 DEF Join, Lookup
<1> QED BY <1>1, <1>2, <1>3, <1>4, <1>5, <1>6

\* Stabilizing only moves the successor closer, whatever answers were stale
\* when they were used (stabilize, chord.c:697-793): an answer that has been
\* overtaken by a later join never undoes what stabilize knew before.
THEOREM SuccessorComesCloser == Spec => SuccessorOnlyCloser
<1> DEFINE Closer ==
      \A n \in Node : n \in Members /\ kills' = 0 /\ list'[n][0] # list[n][0] =>
        Between(list'[n][0], n, list[n][0])
<1>1. CallInv /\ RingInv /\ [Next]_vars => [Closer]_vars
  <2> SUFFICES ASSUME CallInv, RingInv, [Next]_vars, vars' # vars,
                      NEW x \in Members, kills' = 0, list'[x][0] # list[x][0]
               PROVE  Between(list'[x][0], x, list[x][0])
    BY DEF Members
  <2>1. Ring
    BY KillsGrow DEF RingInv
  <2> QED BY <2>1, KillsGrow, SuccessorMoves
<1>2. SuccessorOnlyCloser <=> [][Closer]_vars
  BY DEF SuccessorOnlyCloser
<1> HIDE DEF Closer
<1> QED BY <1>1, <1>2, CallInvHolds, RingInvHolds, PTL DEF Spec

-----------------------------------------------------------------------------
(* Sets that grow step by step, as Reached and Workers do.  Induction over  *)
(* the steps is the least-element principle of the library's WFMin.          *)

LEMMA LeastNumber ==
  ASSUME NEW T \in SUBSET Nat, T # {}
  PROVE  \E k \in T : \A j \in T : k <= j
<1> DEFINE D == {0..k : k \in T}
<1>1. D \subseteq FiniteSubsetsOf(Nat)
  <2> SUFFICES ASSUME NEW k \in T PROVE 0..k \in FiniteSubsetsOf(Nat)
    OBVIOUS
  <2>1. IsFiniteSet(0..k)
    BY FS_Interval
  <2> QED BY <2>1 DEF FiniteSubsetsOf
<1>2. D # {}
  OBVIOUS
<1>3. \E x \in D : \A y \in D : ~ (<<y, x>> \in StrictSubsetOrdering(Nat))
  <2> HIDE DEF D
  <2> QED BY <1>1, <1>2, WFMin, FS_StrictSubsetOrderingWellFounded
<1>4. PICK k \in T : \A j \in T : ~ (<<0..j, 0..k>> \in StrictSubsetOrdering(Nat))
  BY <1>3
<1>5. ASSUME NEW j \in T, j < k PROVE FALSE
  <2>1. k \in 0..k /\ k \notin 0..j
    BY <1>5
  <2>2. 0..j \subseteq 0..k /\ 0..j # 0..k /\ 0..k \subseteq Nat
    BY <1>5, <2>1
  <2>3. <<0..j, 0..k>> \in StrictSubsetOrdering(Nat)
    BY <2>2 DEF StrictSubsetOrdering
  <2> QED BY <2>3, <1>4
<1> QED BY <1>5

\* Induction up to N, for a set of numbers.
LEMMA UpTo ==
  ASSUME NEW N \in Nat, NEW P, 0 \in P, \A k \in 0..N : k # 0 /\ k - 1 \in P => k \in P
  PROVE  \A k \in 0..N : k \in P
<1> DEFINE T == {k \in 0..N : k \notin P}
<1> SUFFICES ASSUME T # {} PROVE FALSE
  OBVIOUS
<1>1. T \in SUBSET Nat
  OBVIOUS
<1>2. PICK k \in T : \A j \in T : k <= j
  <2> HIDE DEF T
  <2> QED BY <1>1, LeastNumber
<1>3. k # 0 /\ k - 1 \in 0..N
  OBVIOUS
<1>4. k - 1 \notin T
  BY <1>1, <1>2
<1> QED BY <1>3, <1>4

\* A minimal member of a family of finite sets.
LEMMA MinimalSet ==
  ASSUME NEW S, NEW D, D \subseteq FiniteSubsetsOf(S), D # {}
  PROVE  \E X \in D : \A Y \in D : ~(Y \subseteq X /\ Y # X)
<1>1. PICK X \in D : \A Y \in D : ~ (<<Y, X>> \in StrictSubsetOrdering(S))
  BY WFMin, FS_StrictSubsetOrderingWellFounded
<1>2. ASSUME NEW Y \in D, Y \subseteq X, Y # X PROVE FALSE
  <2>1. X \subseteq S
    BY DEF FiniteSubsetsOf
  <2>2. <<Y, X>> \in StrictSubsetOrdering(S)
    BY <1>2, <2>1 DEF StrictSubsetOrdering
  <2> QED BY <1>1, <2>2
<1> QED BY <1>2

\* step[0] is base, and each further set adds what G makes of the one before.
Steps(step, N, base, G) ==
  step = [k \in 0..N |-> IF k = 0 THEN base ELSE step[k-1] \cup G[step[k-1]]]

\* G makes subsets of V out of subsets of V.
Inside(G, V) == \A S \in SUBSET V : G[S] \subseteq V

LEMMA StepsExist ==
  ASSUME NEW N \in Nat, NEW base, NEW G
  PROVE  \E step : Steps(step, N, base, G)
<1> DEFINE P == {n \in Nat : \E step : Steps(step, n, base, G)}
<1>1. 0 \in P
  <2>1. Steps([k \in 0..0 |-> base], 0, base, G)
    BY DEF Steps
  <2> QED BY <2>1
<1>2. ASSUME NEW n \in 0..N, n # 0, n - 1 \in P PROVE n \in P
  <2>1. PICK f : Steps(f, n - 1, base, G)
    BY <1>2
  <2> DEFINE g == [k \in 0..n |-> IF k = n THEN f[n-1] \cup G[f[n-1]] ELSE f[k]]
  <2>2. ASSUME NEW k \in 0..n
        PROVE  g[k] = IF k = 0 THEN base ELSE g[k-1] \cup G[g[k-1]]
    <3>1. CASE k = n
      BY <1>2, <3>1
    <3>2. CASE k # n
      <4>1. k \in 0..n-1
        BY <3>2
      <4>2. f[k] = IF k = 0 THEN base ELSE f[k-1] \cup G[f[k-1]]
        BY <2>1, <4>1 DEF Steps
      <4>3. k # 0 => k - 1 \in 0..n /\ k - 1 # n
        BY <3>2
      <4> QED BY <3>2, <4>2, <4>3
    <3> QED BY <3>1, <3>2
  <2>3. Steps(g, n, base, G)
    BY <2>2 DEF Steps
  <2> QED BY <2>3
<1> HIDE DEF P
<1>3. N \in P
  BY <1>1, <1>2, UpTo
<1> QED BY <1>3 DEF P

\* Every step is a part of any set that is closed under G.
LEMMA StepsLeast ==
  ASSUME NEW N \in Nat, NEW base, NEW G, NEW step, Steps(step, N, base, G), NEW C,
         base \subseteq C, Inside(G, C)
  PROVE  \A k \in 0..N : step[k] \subseteq C
<1> DEFINE P == {k \in 0..N : step[k] \subseteq C}
<1>1. \A k \in 0..N : step[k] = IF k = 0 THEN base ELSE step[k-1] \cup G[step[k-1]]
  BY DEF Steps
<1>2. 0 \in P
  <2>1. 0 \in 0..N
    OBVIOUS
  <2>2. step[0] = base
    BY <1>1, <2>1
  <2> QED BY <2>1, <2>2
<1>3. ASSUME NEW k \in 0..N, k # 0, k - 1 \in P PROVE k \in P
  BY <1>1, <1>3 DEF Inside
<1> HIDE DEF P
<1>4. \A k \in 0..N : k \in P
  BY <1>2, <1>3, UpTo
<1> QED BY <1>4 DEF P

\* As many steps as there are elements, but one, are enough to close the set.
LEMMA StepsClose ==
  ASSUME NEW V, IsFiniteSet(V), NEW base \in SUBSET V, base # {},
         NEW G, Inside(G, V),
         NEW N \in Nat, Cardinality(V) <= N + 1,
         NEW step, Steps(step, N, base, G)
  PROVE  step[N] \subseteq V /\ base \subseteq step[N] /\ G[step[N]] \subseteq step[N]
<1> DEFINE Closed(S) == G[S] \subseteq S
           P == {k \in 0..N : /\ step[k] \subseteq V /\ base \subseteq step[k]
                              /\ Closed(step[k]) \/ Cardinality(step[k]) >= k + 1}
<1>1. \A k \in 0..N : step[k] = IF k = 0 THEN base ELSE step[k-1] \cup G[step[k-1]]
  BY DEF Steps
<1>2. \A S \in SUBSET V : IsFiniteSet(S) /\ Cardinality(S) \in Nat
  BY FS_Subset, FS_CardinalityType
<1>3. 0 \in P
  <2>1. Cardinality(base) # 0
    BY <1>2, FS_EmptySet
  <2>2. Cardinality(base) >= 0 + 1 /\ 0 \in 0..N
    BY <1>2, <2>1
  <2>3. step[0] = base
    BY <1>1, <2>2
  <2> QED BY <2>2, <2>3
<1>4. ASSUME NEW k \in 0..N, k # 0, k - 1 \in P PROVE k \in P
  <2> DEFINE S == step[k-1]
  <2>1. S \subseteq V /\ base \subseteq S /\ (Closed(S) \/ Cardinality(S) >= k)
    BY <1>4
  <2>2. step[k] = S \cup G[S]
    BY <1>1, <1>4
  <2> HIDE DEF S
  <2>3. step[k] \subseteq V /\ base \subseteq step[k] /\ S \subseteq step[k]
    BY <2>1, <2>2 DEF Inside
  <2>4. CASE Closed(S)
    <3>1. step[k] = S
      BY <2>2, <2>4
    <3> QED BY <2>1, <2>4, <3>1
  <2>5. CASE ~Closed(S)
    <3>1. S # step[k]
      BY <2>2, <2>5
    <3>2. Cardinality(S) < Cardinality(step[k])
      BY <1>2, <2>1, <2>3, <3>1, FS_Subset
    <3>3. Cardinality(step[k]) >= k + 1
      BY <1>2, <2>1, <2>3, <2>5, <3>2
    <3> QED BY <2>3, <3>3
  <2> QED BY <2>4, <2>5
<1>5. N \in P
  <2> HIDE DEF P
  <2> QED BY <1>3, <1>4, UpTo
<1>6. CASE ~Closed(step[N])
  <2>1. step[N] \subseteq V /\ Cardinality(step[N]) >= Cardinality(V)
    BY <1>2, <1>5, <1>6
  <2>2. step[N] = V
    BY <1>2, <2>1, FS_Subset
  <2> QED BY <1>6, <2>2 DEF Inside
<1> QED BY <1>5, <1>6

-----------------------------------------------------------------------------
(* The nodes reached by following successors *)

\* The successors of the members of S.
Successors == [S \in SUBSET NodeOrEmpty |-> {list[m][0] : m \in S \cap Members}]

LEMMA SuccessorsInside ==
  ASSUME TypeOK
  PROVE  /\ \A m \in Node : list[m][0] \in NodeOrEmpty
         /\ \A S \in SUBSET NodeOrEmpty :
              /\ Successors[S] = {list[m][0] : m \in S \cap Members}
              /\ Successors[S] \subseteq NodeOrEmpty
<1>1. ASSUME NEW m \in Node PROVE list[m][0] \in NodeOrEmpty
  <2>1. list[m] \in [Slots -> NodeOrEmpty]
    BY DEF TypeOK
  <2> QED BY <2>1, NodesAreNumbers
<1>2. ASSUME NEW S \in SUBSET NodeOrEmpty
      PROVE  /\ Successors[S] = {list[m][0] : m \in S \cap Members}
             /\ Successors[S] \subseteq NodeOrEmpty
  <2>1. Successors[S] = {list[m][0] : m \in S \cap Members}
    BY DEF Successors
  <2> QED BY <1>1, <2>1, NodesAreNumbers
<1> QED BY <1>1, <1>2

LEMMA ReachedSteps ==
  ASSUME TypeOK, NEW n \in Node
  PROVE  \E step : /\ Steps(step, Cardinality(Node), {list[n][0]}, Successors)
                   /\ Reached(n) = step[Cardinality(Node)]
<1> DEFINE N == Cardinality(Node)
           base == {list[n][0]}
           Is(f) == f = [k \in 0..N |->
                           IF k = 0 THEN base
                           ELSE f[k-1] \cup {list[m][0] : m \in f[k-1] \cap Members}]
           step == CHOOSE f : Is(f)
<1>0. N \in Nat /\ base \subseteq NodeOrEmpty
  BY SuccessorsInside, FS_CardinalityType, NodeAssumption
<1>1. \E f : Is(f)
  <2>1. PICK f : Steps(f, N, base, Successors)
    BY <1>0, StepsExist
  <2>2. \A k \in 0..N : f[k] \subseteq NodeOrEmpty
    <3>1. \A S \in SUBSET NodeOrEmpty : Successors[S] \subseteq NodeOrEmpty
      BY SuccessorsInside
    <3> DEFINE V == NodeOrEmpty
    <3>2. base \subseteq V /\ Inside(Successors, V)
      BY <1>0, <3>1 DEF Inside
    <3> HIDE DEF N, base, V
    <3>3. \A k \in 0..N : f[k] \subseteq V
      BY <1>0, <2>1, <3>2, StepsLeast
    <3> QED BY <3>3 DEF V
  <2>3. ASSUME NEW k \in 0..N, k # 0
        PROVE  Successors[f[k-1]] = {list[m][0] : m \in f[k-1] \cap Members}
    <3>1. k - 1 \in 0..N
      BY <1>0, <2>3
    <3> QED BY <2>2, <3>1, SuccessorsInside
  <2>4. f = [k \in 0..N |-> IF k = 0 THEN base ELSE f[k-1] \cup Successors[f[k-1]]]
    BY <2>1 DEF Steps
  <2>5. Is(f)
    BY <2>3, <2>4
  <2> QED BY <2>5
<1>2. Is(step)
  BY <1>1
<1>3. Reached(n) = step[N]
  BY DEF Reached
<1> HIDE DEF step, N, base
<1>4. \A k \in 0..N : step[k] = IF k = 0 THEN base
                                ELSE step[k-1] \cup {list[m][0] : m \in step[k-1] \cap Members}
  BY <1>2
<1>5. \A k \in 0..N : step[k] \subseteq NodeOrEmpty
  <2> DEFINE P == {k \in 0..N : step[k] \subseteq NodeOrEmpty}
  <2>1. 0 \in P
    <3>1. 0 \in 0..N
      BY <1>0
    <3>2. step[0] = base
      BY <1>4, <3>1
    <3> QED BY <1>0, <3>1, <3>2
  <2>2. ASSUME NEW k \in 0..N, k # 0, k - 1 \in P PROVE k \in P
    <3>1. step[k] = step[k-1] \cup {list[m][0] : m \in step[k-1] \cap Members}
      BY <1>4, <2>2
    <3>2. Members \subseteq Node
      BY NodesAreNumbers
    <3> QED BY <2>2, <3>1, <3>2, SuccessorsInside
  <2> HIDE DEF P
  <2>3. \A k \in 0..N : k \in P
    BY <1>0, <2>1, <2>2, UpTo
  <2> QED BY <2>3 DEF P
<1>6. ASSUME NEW k \in 0..N, k # 0
      PROVE  Successors[step[k-1]] = {list[m][0] : m \in step[k-1] \cap Members}
  <2>1. k - 1 \in 0..N
    BY <1>0, <1>6
  <2> QED BY <1>5, <2>1, SuccessorsInside
<1>7. Steps(step, N, base, Successors)
  <2>1. step = [k \in 0..N |->
                  IF k = 0 THEN base
                  ELSE step[k-1] \cup {list[m][0] : m \in step[k-1] \cap Members}]
    BY <1>2
  <2> QED BY <1>6, <2>1 DEF Steps
<1> QED BY <1>3, <1>7 DEF N, base

\* Reached(n) holds n's successor, and the successors of its members.
LEMMA ReachedClosed ==
  ASSUME TypeOK, NEW n \in Node
  PROVE  /\ list[n][0] \in Reached(n)
         /\ \A m \in Members : m \in Reached(n) => list[m][0] \in Reached(n)
<1> DEFINE N == Cardinality(Node)
<1>1. \E step : Steps(step, N, {list[n][0]}, Successors) /\ Reached(n) = step[N]
  BY ReachedSteps
<1>2. IsFiniteSet(NodeOrEmpty) /\ Cardinality(NodeOrEmpty) <= N + 1 /\ N \in Nat
  <2>1. IsFiniteSet(Node) /\ N \in Nat
    BY FS_CardinalityType, NodeAssumption
  <2>2. IsFiniteSet(Node \cup {Empty}) /\ Cardinality(Node \cup {Empty}) = N + 1
    BY <2>1, FS_AddElement, NodesAreNumbers
  <2> QED BY <2>1, <2>2
<1>3. {list[n][0]} \in SUBSET NodeOrEmpty /\ {list[n][0]} # {}
  BY SuccessorsInside
<1> HIDE DEF N
<1>4. /\ Reached(n) \subseteq NodeOrEmpty /\ {list[n][0]} \subseteq Reached(n)
      /\ Successors[Reached(n)] \subseteq Reached(n)
  <2> DEFINE V == NodeOrEmpty
             base == {list[n][0]}
  <2>1. IsFiniteSet(V) /\ Cardinality(V) <= N + 1 /\ base \in SUBSET V /\ base # {}
    BY <1>2, <1>3
  <2>2. Inside(Successors, V)
    BY SuccessorsInside DEF Inside
  <2>3. PICK step : Steps(step, N, base, Successors) /\ Reached(n) = step[N]
    BY <1>1
  <2>4. N \in Nat /\ IsFiniteSet(V) /\ Cardinality(V) <= N + 1
    BY <1>2
  <2> HIDE DEF V, base
  <2>5. step[N] \subseteq V /\ base \subseteq step[N] /\ Successors[step[N]] \subseteq step[N]
    BY <2>1, <2>2, <2>3, <2>4, StepsClose
  <2> QED BY <2>3, <2>5 DEF V, base
<1>5. Successors[Reached(n)] = {list[m][0] : m \in Reached(n) \cap Members}
  BY <1>4, SuccessorsInside
<1> QED BY <1>4, <1>5

\* It holds nothing else.
LEMMA ReachedLeast ==
  ASSUME TypeOK, NEW n \in Node, NEW C, list[n][0] \in C,
         \A m \in Members : m \in C => list[m][0] \in C
  PROVE  Reached(n) \subseteq C
<1> DEFINE N == Cardinality(Node)
           D == C \cap NodeOrEmpty
<1>1. PICK step : Steps(step, N, {list[n][0]}, Successors) /\ Reached(n) = step[N]
  BY ReachedSteps
<1>2. N \in Nat
  BY FS_CardinalityType, NodeAssumption
<1>3. {list[n][0]} \subseteq D
  BY SuccessorsInside
<1>4. Inside(Successors, D)
  BY NodesAreNumbers, SuccessorsInside DEF Inside
<1> HIDE DEF N, D
<1>5. \A k \in 0..N : step[k] \subseteq D
  BY <1>1, <1>2, <1>3, <1>4, StepsLeast
<1> QED BY <1>1, <1>2, <1>5 DEF D

-----------------------------------------------------------------------------
(* One ring, in order *)

LEMMA SuccessorIsMember ==
  ASSUME Ring, NEW x \in Members
  PROVE  list[x][0] \in Members /\ Toward(x, list[x][0])
BY NodesAreNumbers DEF Ring, Sound, ListKnown, EdgeToward

LEMMA ReachedAreMembers ==
  ASSUME TypeOK, Ring, NEW x \in Members
  PROVE  Reached(x) \subseteq Members
BY ReachedLeast, SuccessorIsMember, NodesAreNumbers

\* What a node reaches is its successor and what that reaches.
LEMMA ReachedFromSuccessor ==
  ASSUME TypeOK, Ring, NEW x \in Members
  PROVE  Reached(x) \subseteq {list[x][0]} \cup Reached(list[x][0])
<1> DEFINE s == list[x][0]
<1>1. s \in Members /\ s \in Node /\ x \in Node
  BY SuccessorIsMember, NodesAreNumbers
<1>2. ASSUME NEW m \in Members, m \in {s} \cup Reached(s)
      PROVE  list[m][0] \in {s} \cup Reached(s)
  BY <1>1, <1>2, ReachedClosed
<1> HIDE DEF s
<1> QED BY <1>1, <1>2, ReachedLeast DEF s

\* What a node reaches, everybody reaches who reaches that node.
LEMMA ReachedOnwards ==
  ASSUME TypeOK, Ring, NEW x \in Members, NEW y \in Members, y \in Reached(x)
  PROVE  Reached(y) \subseteq Reached(x)
BY ReachedClosed, ReachedLeast, NodesAreNumbers

\* Along the way to c.
LEMMA BetweenOnwards ==
  ASSUME NEW y \in Nat, NEW s \in Nat, NEW z \in Nat, NEW c \in Nat,
         Between(s, y, c), Between(z, s, c)
  PROVE  Between(z, y, c)
BY DEF Between

LEMMA FiniteMembers ==
  ASSUME NEW S \in SUBSET Node PROVE S \in FiniteSubsetsOf(Node)
BY FS_Subset, NodeAssumption DEF FiniteSubsetsOf

\* Whoever follows successors from x comes to s without having passed it.
Onto(x, s) ==
  \E A \in SUBSET Members :
    /\ x \in A
    /\ \A a \in A : list[a][0] = s \/ (list[a][0] \in A /\ Between(list[a][0], a, s))

\* Every step of such a path comes closer to s.
LEMMA OntoReaches ==
  ASSUME TypeOK, Ring, NEW x \in Members, NEW s \in Node, Onto(x, s)
  PROVE  s \in Reached(x)
<1>1. PICK A \in SUBSET Members :
        /\ x \in A
        /\ \A a \in A : list[a][0] = s \/ (list[a][0] \in A /\ Between(list[a][0], a, s))
  BY DEF Onto
<1> SUFFICES ASSUME s \notin Reached(x) PROVE FALSE
  OBVIOUS
<1> DEFINE B == {x} \cup (A \cap Reached(x))
           Ahead(y) == {z \in Members : Between(z, y, s)}
           D == {Ahead(y) : y \in B}
<1>0. B \subseteq Members /\ Members \subseteq Node /\ Node \subseteq Nat /\ x \in B /\ x \in Node
  BY <1>1, NodesAreNumbers
<1>1a. ASSUME NEW y \in B
       PROVE  list[y][0] \in B /\ Between(list[y][0], y, s)
  <2>1. list[y][0] \in Reached(x)
    BY <1>0, ReachedClosed
  <2> QED BY <1>1, <2>1
<1>2. D \subseteq FiniteSubsetsOf(Node) /\ D # {}
  <2> HIDE DEF B
  <2>1. \A y \in B : Ahead(y) \in SUBSET Node
    BY <1>0
  <2> HIDE DEF Ahead
  <2> QED BY <1>0, <2>1, FiniteMembers
<1>3. \E X \in D : \A Y \in D : ~(Y \subseteq X /\ Y # X)
  <2> HIDE DEF D
  <2> QED BY <1>2, MinimalSet
<1>4. PICK y \in B : \A z \in B : ~(Ahead(z) \subseteq Ahead(y) /\ Ahead(z) # Ahead(y))
  <2>1. PICK X \in D : \A Y \in D : ~(Y \subseteq X /\ Y # X)
    BY <1>3
  <2>2. PICK y \in B : X = Ahead(y)
    BY <2>1
  <2>3. \A z \in B : Ahead(z) \in D
    OBVIOUS
  <2> HIDE DEF D, Ahead, B
  <2> QED BY <2>1, <2>2, <2>3
<1> DEFINE t == list[y][0]
<1>5. t \in B /\ Between(t, y, s)
  BY <1>1a
<1>6. t \in Ahead(y) /\ t \notin Ahead(t) /\ Ahead(t) \subseteq Ahead(y)
  <2>1. t \in Nat /\ y \in Nat /\ s \in Nat /\ Members \subseteq Nat /\ t \in Members
    BY <1>0, <1>5
  <2>2. ASSUME NEW z \in Nat, Between(z, t, s) PROVE Between(z, y, s)
    BY <1>5, <2>1, <2>2, BetweenOnwards
  <2>3. ~Between(t, t, s)
    BY <2>1, BetweenIsAnother
  <2> HIDE DEF t, B
  <2> QED BY <1>5, <2>1, <2>2, <2>3
<1> QED BY <1>4, <1>5, <1>6

\* No successor lies beyond the creator.
LEMMA ReachesCreator ==
  ASSUME TypeOK, Ring, NEW x \in Members
  PROVE  Creator \in Reached(x)
<1>1. \A a \in Members : /\ list[a][0] \in Members
                         /\ list[a][0] = Creator \/ Between(list[a][0], a, Creator)
  BY SuccessorIsMember DEF Toward
<1>2. Onto(x, Creator)
  BY <1>1 DEF Onto
<1> QED BY <1>2, OntoReaches, NodesAreNumbers

\* Everything on a circle of successors can be reached from the creator.
LEMMA CreatorReachesRing ==
  ASSUME TypeOK, Ring, NEW r \in OnRing
  PROVE  r \in Reached(Creator)
<1> DEFINE C == {x \in Members : r \in Reached(x)}
<1>1. r \in Members /\ r \in Reached(r) /\ Creator \in Members /\ Members \subseteq Node
  BY NodesAreNumbers DEF OnRing, Ring
<1>2. ASSUME NEW x \in C PROVE list[x][0] \in C
  <2>1. x \in Members /\ r \in Reached(x) /\ list[x][0] \in Members
    BY SuccessorIsMember
  <2>2. r = list[x][0] \/ r \in Reached(list[x][0])
    BY <2>1, ReachedFromSuccessor
  <2> QED BY <1>1, <2>1, <2>2
<1>3. r \in C
  BY <1>1
<1> HIDE DEF C
<1>4. Reached(r) \subseteq C
  BY <1>1, <1>2, <1>3, ReachedLeast
<1>5. Creator \in Reached(r)
  BY <1>1, ReachesCreator
<1> QED BY <1>4, <1>5 DEF C

LEMMA RingIsReached ==
  ASSUME TypeOK, Ring
  PROVE  /\ Creator \in OnRing
         /\ OnRing = Reached(Creator)
<1>1. Creator \in Members /\ Creator \in Reached(Creator)
  BY ReachesCreator DEF Ring
<1>2. ASSUME NEW y \in Reached(Creator) PROVE y \in OnRing
  <2>1. y \in Members /\ Creator \in Reached(y)
    BY <1>1, ReachedAreMembers, ReachesCreator
  <2>2. y \in Reached(y)
    BY <1>1, <2>1, ReachedOnwards
  <2> QED BY <2>1, <2>2 DEF OnRing
<1> QED BY <1>1, <1>2, CreatorReachesRing DEF OnRing

\* The members that follow their successors end up in one and the same circle,
\* however joins and stabilizations overlap (chord.c:697-793, 990-1013).
THEOREM RingIsOne == Spec => []OneRing
<1>1. CallInv /\ RingInv => OneRing
  <2> SUFFICES ASSUME CallInv, Ring
               PROVE  OnRing # {} /\ \A n \in Members : OnRing \subseteq Reached(n)
    BY DEF RingInv, OneRing
  <2>1. TypeOK /\ OnRing = Reached(Creator) /\ OnRing # {} /\ Creator \in Members
    BY RingIsReached DEF CallInv, Ring
  <2>2. ASSUME NEW n \in Members PROVE OnRing \subseteq Reached(n)
    BY <2>1, ReachesCreator, ReachedOnwards
  <2> QED BY <2>1, <2>2
<1> QED BY <1>1, CallInvHolds, RingInvHolds, PTL

\* Who jumps into the gap between n and its successor from outside skips n, and
\* is farther from the creator.
LEMMA SkipsEarlier ==
  ASSUME NEW n \in Nat, NEW s \in Nat, NEW x \in Nat, NEW t \in Nat,
         Toward(n, s), Toward(x, t), x # n, ~Between(x, n, s), Between(t, n, s)
  PROVE  Between(n, x, t) /\ Between(n, x, Creator)
BY NodesAreNumbers DEF Toward, Between

\* Nobody on the circle is skipped: of those that would skip somebody, take the
\* nearest after the creator.  Nothing on the circle enters the gap it leaves,
\* and yet somebody on the circle lies there.
LEMMA NobodySkipped ==
  ASSUME TypeOK, Ring
  PROVE  \A n, m \in OnRing : m = n \/ ~Between(m, n, list[n][0])
<1> DEFINE Skips(n) == \E m \in OnRing : m # n /\ Between(m, n, list[n][0])
           Before(n) == {z \in Members : Between(n, z, Creator)}
           D == {Before(n) : n \in {k \in OnRing : Skips(k)}}
<1> SUFFICES ASSUME \E n \in OnRing : Skips(n) PROVE FALSE
  OBVIOUS
<1>0. /\ OnRing \subseteq Members /\ Members \subseteq Node /\ Node \subseteq Nat
      /\ Creator \in OnRing /\ OnRing = Reached(Creator)
  BY RingIsReached, NodesAreNumbers DEF OnRing
<1>1. D \subseteq FiniteSubsetsOf(Node) /\ D # {}
  BY <1>0, FiniteMembers
<1>2. \E X \in D : \A Y \in D : ~(Y \subseteq X /\ Y # X)
  <2> HIDE DEF D
  <2> QED BY <1>1, MinimalSet
<1>3. PICK n \in OnRing :
        /\ Skips(n)
        /\ \A k \in OnRing : Skips(k) => ~(Before(k) \subseteq Before(n) /\ Before(k) # Before(n))
  <2>1. PICK X \in D : \A Y \in D : ~(Y \subseteq X /\ Y # X)
    BY <1>2
  <2>2. PICK n \in OnRing : Skips(n) /\ X = Before(n)
    BY <2>1
  <2>3. \A k \in OnRing : Skips(k) => Before(k) \in D
    OBVIOUS
  <2> HIDE DEF D, Before, Skips
  <2> QED BY <2>1, <2>2, <2>3
<1> DEFINE s == list[n][0]
           A == {z \in OnRing : ~Between(z, n, s)}
<1>4. PICK m \in OnRing : m # n /\ Between(m, n, s)
  BY <1>3
<1>5. /\ n \in Nat /\ s \in Nat /\ Toward(n, s) /\ Creator \in Nat
      /\ \A x \in OnRing : x \in Nat /\ list[x][0] \in Nat /\ Toward(x, list[x][0])
  BY <1>0, SuccessorIsMember
<1>6. \A x \in OnRing : list[x][0] \in OnRing
  BY <1>0, ReachedClosed
<1> HIDE DEF s
<1>7. ASSUME NEW x \in A PROVE list[x][0] \in A
  <2> SUFFICES ASSUME Between(list[x][0], n, s) PROVE FALSE
    BY <1>6
  <2>1. x \in OnRing /\ ~Between(x, n, s)
    OBVIOUS
  <2>2. CASE x = n
    BY <1>5, <2>2 DEF Between, s
  <2>3. CASE x # n
    <3>1. Between(n, x, list[x][0]) /\ Between(n, x, Creator)
      BY <1>5, <2>1, <2>3, SkipsEarlier
    <3>2. Skips(x)
      BY <2>3, <3>1
    <3>3. Before(x) \subseteq Before(n)
      BY <1>0, <1>5, <2>1, <3>1, BetweenOnwards
    <3>4. x \in Before(n) /\ x \notin Before(x)
      BY <1>0, <1>5, <2>1, <3>1 DEF Between
    <3> QED BY <1>3, <2>1, <3>2, <3>3, <3>4
  <2> QED BY <2>2, <2>3
<1>8. Creator \in A
  BY <1>0, <1>5 DEF Toward, Between
<1>9. Reached(Creator) \subseteq A
  <2>1. Creator \in Node /\ list[Creator][0] \in A
    BY <1>0, <1>7, <1>8
  <2> HIDE DEF A
  <2> QED BY <1>7, <2>1, ReachedLeast
<1> QED BY <1>0, <1>4, <1>9

\* The circle goes round the identifiers once: no interleaving of joins, stale
\* answers and notifications makes the ring skip a node that is on it
\* (between, chord.c:241-257; stabilize, 697-793).
THEOREM RingIsOrdered == Spec => []RingOrdered
<1>1. CallInv /\ RingInv => RingOrdered
  BY NobodySkipped DEF CallInv, RingInv, RingOrdered
<1> QED BY <1>1, CallInvHolds, RingInvHolds, PTL

-----------------------------------------------------------------------------
(* The ideal ring *)

\* In the ideal ring all members are on the circle.
IdealIsWhole == kills = 0 /\ Ideal => OnRing = Members

\* The ideal ring stays as it is until somebody completes a join or dies.
IdealStays == [][Ideal /\ kills' = 0 /\ Members' = Members => Ideal']_vars

\* x lies before m, s does not lie beyond it.
LEMMA StaysBefore ==
  ASSUME NEW x \in Nat, NEW s \in Nat, NEW m \in Nat,
         Toward(x, s), m = x \/ ~Between(m, x, s), m # s,
         (x = Creator /\ m # Creator) \/ Between(m, x, Creator)
  PROVE  s # Creator /\ Between(m, s, Creator)
BY NodesAreNumbers DEF Toward, Between

\* Once stabilize has settled, nobody who has joined is left aside, and so
\* every member's lookups are among those that skip nobody (chord.c:697-806,
\* 1038-1073).
THEOREM NobodyLeftAside == Spec => []IdealIsWhole
<1>1. CallInv /\ RingInv => IdealIsWhole
  <2> SUFFICES ASSUME CallInv, Ring, Ideal, NEW m \in Members, m \notin OnRing
               PROVE  FALSE
    BY DEF RingInv, IdealIsWhole, OnRing
  <2> DEFINE A == {x \in Members : x # Creator /\ Between(m, x, Creator)}
  <2>1. /\ TypeOK /\ Creator \in OnRing /\ OnRing = Reached(Creator)
        /\ OnRing \subseteq Members /\ Members \subseteq Nat /\ Creator \in Node
    BY RingIsReached, NodesAreNumbers DEF CallInv, OnRing
  <2>2. ASSUME NEW x \in OnRing, x = Creator \/ x \in A
        PROVE  list[x][0] \in A
    <3>1. list[x][0] \in OnRing /\ Toward(x, list[x][0])
      BY <2>1, ReachedClosed, SuccessorIsMember
    <3>2. m = x \/ ~Between(m, x, list[x][0])
      BY <2>1 DEF Ideal
    <3>3. m # list[x][0] /\ m # Creator
      BY <2>1, <3>1
    <3>4. (x = Creator /\ m # Creator) \/ Between(m, x, Creator)
      BY <2>2, <3>3
    <3> QED BY <2>1, <3>1, <3>2, <3>3, <3>4, StaysBefore
  <2> DEFINE B == A \cap OnRing
  <2>3. list[Creator][0] \in B /\ \A x \in B : list[x][0] \in B
    BY <2>1, <2>2, ReachedClosed
  <2>4. Creator \notin B /\ B \subseteq Members
    OBVIOUS
  <2> HIDE DEF B
  <2>5. Reached(Creator) \subseteq B
    BY <2>1, <2>3, <2>4, ReachedLeast
  <2> QED BY <2>1, <2>4, <2>5
<1> QED BY <1>1, CallInvHolds, RingInvHolds, PTL

\* Answers that are still under way, and notifications and checks made again
\* and again, do not disturb a ring that has settled (stabilize, notify and
\* checkPredecessor, chord.c:463-487, 697-833).
THEOREM IdealRingStays == Spec => IdealStays
<1> DEFINE Stays == Ideal /\ kills' = 0 /\ Members' = Members => Ideal'
<1>1. CallInv /\ RingInv /\ RingInv' /\ [Next]_vars => [Stays]_vars
  <2> SUFFICES ASSUME CallInv, RingInv, RingInv', [Next]_vars, vars' # vars,
                      Ideal, kills' = 0, Members' = Members
               PROVE  Ideal'
    OBVIOUS
  <2>1. Ring /\ Ring' /\ Members \subseteq Node /\ Node \subseteq Nat /\ TypeOK
    BY KillsGrow, NodesAreNumbers DEF RingInv, CallInv
  <2>2. PICK n \in Node, c \in Node :
          \/ Continue(n) \/ StabilizeTimer(n) \/ FixFingers(n)
          \/ CheckPredecessor(n) \/ Serve(n, c) \/ Join(n, c)
          \/ \E key \in Key[n] : Lookup(n, key)
    BY KillsGrow
  <2>3. ASSUME NEW x \in Members PROVE list'[x][0] = list[x][0]
    <3> SUFFICES ASSUME list'[x][0] # list[x][0] PROVE FALSE
      OBVIOUS
    <3>1. Between(list'[x][0], x, list[x][0])
      BY <2>1, <2>2, SuccessorMoves
    <3>2. list'[x][0] \in Members
      <4>1. (x \in Members)' /\ Sound(x)'
        BY <2>1 DEF Ring
      <4> QED BY <4>1, NodesAreNumbers DEF Sound, ListKnown
    <3>3. list'[x][0] = x
      BY <3>1, <3>2 DEF Ideal
    <3>4. x \in Nat /\ list[x][0] \in Nat
      BY <2>1, SuccessorIsMember
    <3> QED BY <3>1, <3>3, <3>4, BetweenIsAnother
  <2>4. ASSUME NEW k \in Members, NEW m \in Members, list[k][0] = m, m # k
        PROVE  prede'[m] = k
    <3> SUFFICES ASSUME prede'[m] # k PROVE FALSE
      OBVIOUS
    <3>1. prede[m] = k /\ k # Empty /\ m \in Node
      BY <2>1, <2>4, NodesAreNumbers DEF Ideal
    <3>2. prede'[m] # Empty /\ Between(prede'[m], k, m)
      BY <2>1, <2>2, <3>1, PredecessorMoves
    <3>3. prede'[m] \in Members
      BY <2>1, <3>1, <3>2 DEF Ring, Sound, TablesKnown
    <3>4. prede'[m] = k
      BY <2>4, <3>2, <3>3 DEF Ideal
    <3> QED BY <3>4
  <2> QED BY <2>3, <2>4 DEF Ideal
<1>2. IdealStays <=> [][Stays]_vars
  BY DEF IdealStays
<1> HIDE DEF Stays
<1> QED BY <1>1, <1>2, CallInvHolds, RingInvHolds, PTL DEF Spec

-----------------------------------------------------------------------------
(* Whom a blocked process waits for, also after failures *)

\* A process that is called has been started.
CalleesStarted == \A n \in Node : call[n].to \in Node => pc[call[n].to] # "off"

\* Nobody goes back to before its start, and a new callee is one that can be
\* connected to.
LEMMA StartedKeeps ==
  ASSUME CalleesStarted,
         \A x \in Node : pc'[x] = "off" => pc[x] = "off",
         \A x \in Node : call'[x].to \in {call[x].to, Empty} \/ Connects(call'[x].to)
  PROVE  CalleesStarted'
BY EmptyIsNoNode DEF CalleesStarted, Connects

LEMMA StartedAsk ==
  ASSUME TypeOK, CalleesStarted, NEW n \in Node, NEW m, Connects(m), NEW rpc, NEW arg,
         NEW where \in Waiting, Ask(n, m, rpc, arg, where)
  PROVE  CalleesStarted'
<1>1. where # "off"
  BY WaitingPlaces
<1> QED BY <1>1, AskFields, StartedKeeps

LEMMA StartedDie ==
  ASSUME TypeOK, CalleesStarted, NEW n \in Node, Die(n)
  PROVE  CalleesStarted'
BY DieFields, NoCallFields, StartedKeeps

\* Most steps move pc to a place inside the program and call nobody.
LEMMA StartedMove ==
  ASSUME TypeOK, CalleesStarted, NEW n \in Node, NEW where, where # "off",
         pc' = [pc EXCEPT ![n] = where] \/ UNCHANGED pc,
         \A x \in Node : call'[x].to \in {call[x].to, Empty}
  PROVE  CalleesStarted'
BY StartedKeeps DEF TypeOK

LEMMA StartedReply ==
  ASSUME TypeOK, CalleesStarted, NEW n \in Node, NEW c, NEW v, NEW l, Reply(n, c, v, l),
         pc' = [pc EXCEPT ![n] = "idle"] \/ UNCHANGED pc
  PROVE  CalleesStarted'
<1>1. ASSUME NEW k \in Calls
      PROVE  [k EXCEPT !.phase = "replied", !.node = v, !.list = l].to = k.to
  BY <1>1 DEF Calls
<1>2. ASSUME NEW x \in Node PROVE call'[x].to \in {call[x].to, Empty}
  <2>1. call[x] \in Calls /\ NoCall.to = Empty
    BY NoCallFields DEF TypeOK
  <2>2. \/ call'[x] = NoCall \/ call'[x] = call[x]
        \/ call'[x] = [call[x] EXCEPT !.phase = "replied", !.node = v, !.list = l]
        \/ x = n /\ call'[x] = [NoCall EXCEPT !.phase = "replied", !.node = v, !.list = l]
    BY DEF Reply, TypeOK
  <2> QED BY <1>1, <2>1, <2>2, NoCallType
<1> QED BY <1>2, StartedMove

LEMMA StartedReturn ==
  ASSUME TypeOK, CalleesStarted, NEW n \in Node, NEW s, Return(n, s)
  PROVE  CalleesStarted'
<1>1. pc' = [pc EXCEPT ![n] = "idle"]
  BY DEF Return
<1>2. CASE Reply(n, find[n].client, s, NoList)
  BY <1>1, <1>2, StartedReply
<1>3. CASE call' = [call EXCEPT ![n] = NoCall]
  <2>1. \A x \in Node : call'[x].to \in {call[x].to, Empty}
    BY <1>3, NoCallFields DEF TypeOK
  <2> QED BY <1>1, <2>1, StartedMove
<1> QED BY <1>2, <1>3 DEF Return

LEMMA StartedForward ==
  ASSUME TypeOK, CalleesStarted, NEW n \in Node, NEW place, Forward(n, place)
  PROVE  CalleesStarted'
<1> DEFINE m == At(place, n, list[n], finger[n])
<1>1. CASE Connects(m) /\ Ask(n, m, "find_successor", find[n].target, "findWait")
  BY <1>1, WaitingPlaces, StartedAsk
<1>2. CASE pc' = [pc EXCEPT ![n] = "retry"] /\ UNCHANGED call
  BY <1>2, StartedMove
<1> QED BY <1>1, <1>2 DEF Forward

LEMMA StartedTry ==
  ASSUME TypeOK, CalleesStarted, NEW n \in Node, NEW i, TryPredecessor(n, i)
  PROVE  CalleesStarted'
<1>1. CASE Connects(list[n][i]) /\ Ask(n, list[n][i], "get_predecessor", 0, "stPred")
  <2>1. "stPred" \in Waiting
    BY WaitingValues
  <2> QED BY <1>1, <2>1, StartedAsk
<1>2. CASE pc' = [pc EXCEPT ![n] = "scan"] /\ UNCHANGED call
  BY <1>2, StartedMove
<1>3. CASE Die(n)
  BY <1>3, StartedDie
<1>4. CASE pc' = [pc EXCEPT ![n] = "hung"] /\ UNCHANGED call
  BY <1>4, StartedMove
<1> QED BY <1>1, <1>2, <1>3, <1>4 DEF TryPredecessor

LEMMA StartedAction ==
  ASSUME TypeOK, CalleesStarted, NEW n \in Node, NEW c \in Node,
         \/ Continue(n) \/ StabilizeTimer(n) \/ FixFingers(n)
         \/ CheckPredecessor(n) \/ Serve(n, c) \/ Join(n, c)
         \/ (\E key \in Key[n] : Lookup(n, key)) \/ Kill(n)
  PROVE  CalleesStarted'
<1>e. {"joinFind", "joinList", "stPred", "stList", "stList2", "stNotify", "check"}
        \subseteq Waiting
  BY WaitingValues
<1>1. CASE JoinFound(n)
  BY <1>1, <1>e, StartedAsk, StartedDie DEF JoinFound
<1>2. CASE JoinDone(n) \/ Notified(n) \/ PredecessorChecked(n)
  <2>1. pc' = [pc EXCEPT ![n] = "idle"] /\ call' = [call EXCEPT ![n] = NoCall]
    BY <1>2 DEF JoinDone, Notified, PredecessorChecked
  <2>2. \A x \in Node : call'[x].to \in {call[x].to, Empty}
    BY <2>1, NoCallFields DEF TypeOK
  <2> QED BY <2>1, <2>2, StartedMove
<1>3. CASE StabilizeNext(n) \/ Stabilize(n)
  BY <1>3, StartedTry DEF StabilizeNext, Stabilize
<1>4. CASE GotPredecessor(n)
  BY <1>4, <1>e, StartedAsk, StartedDie DEF GotPredecessor
<1>5. CASE GotList(n)
  <2> DEFINE new == Adopt(list[n][at[n].i], call[n].list)
  <2>1. CASE Connects(at[n].p) /\ Ask(n, at[n].p, "get_successor_list", 0, "stList2")
    BY <1>e, <2>1, StartedAsk
  <2>2. CASE Notify(n, new[0])
    BY <1>e, <2>2, StartedAsk, StartedDie DEF Notify
  <2> QED BY <1>5, <2>1, <2>2 DEF GotList
<1>6. CASE GotListOfPredecessor(n)
  BY <1>6, <1>e, StartedAsk, StartedDie DEF GotListOfPredecessor, Notify
<1>7. CASE FindHere(n) \/ Found(n)
  BY <1>7, StartedReturn DEF FindHere, Found
<1>8. CASE FindElsewhere(n) \/ FindAgain(n)
  BY <1>8, StartedForward DEF FindElsewhere, FindAgain
<1>9. CASE CalleeGone(n)
  <2>1. CASE pc' = [pc EXCEPT ![n] = "hung"] /\ call' = [call EXCEPT ![n] = NoCall]
    <3>1. \A x \in Node : call'[x].to \in {call[x].to, Empty}
      BY <2>1, NoCallFields DEF TypeOK
    <3> QED BY <2>1, <3>1, StartedMove
  <2> QED BY <1>9, <2>1, StartedDie DEF CalleeGone
<1>10. CASE StabilizeAlone(n)
  BY <1>10, StartedMove DEF StabilizeAlone
<1>11. CASE FixFingers(n) \/ \E key \in Key[n] : Lookup(n, key)
  <2>1. pc' = [pc EXCEPT ![n] = "find"] /\ UNCHANGED call
    BY <1>11 DEF FixFingers, Lookup, EnterFind
  <2> QED BY <2>1, StartedMove
<1>12. CASE CheckPredecessor(n)
  <2>1. CASE Connects(prede[n]) /\ Ask(n, prede[n], "check_predecessor", 0, "check")
    BY <1>e, <2>1, StartedAsk
  <2>2. CASE UNCHANGED <<pc, call>>
    BY <2>2, StartedMove
  <2> QED BY <1>12, <2>1, <2>2 DEF CheckPredecessor
<1>13. CASE ServeFindSuccessor(n, c)
  <2>1. pc' = [pc EXCEPT ![n] = "find"] /\ call' = [call EXCEPT ![c].phase = "accepted"]
    BY <1>13 DEF ServeFindSuccessor, EnterFind
  <2>2. ASSUME NEW k \in Calls PROVE [k EXCEPT !.phase = "accepted"].to = k.to
    BY <2>2 DEF Calls
  <2>3. \A x \in Node : call'[x].to = call[x].to
    BY <2>1, <2>2 DEF TypeOK
  <2> QED BY <2>1, <2>3, StartedMove
<1>14. CASE \/ ServeGetSuccessorList(n, c) \/ ServeGetPredecessor(n, c)
            \/ ServeNotify(n, c) \/ ServeCheckPredecessor(n, c)
  BY <1>14, StartedReply
  DEF ServeGetSuccessorList, ServeGetPredecessor, ServeNotify, ServeCheckPredecessor
<1>15. CASE Join(n, c)
  BY <1>15, <1>e, StartedAsk DEF Join
<1>16. CASE Kill(n)
  BY <1>16, StartedDie DEF Kill
<1> QED BY <1>1, <1>2, <1>3, <1>4, <1>5, <1>6, <1>7, <1>8, <1>9, <1>10, <1>11, <1>12,
           <1>13, <1>14, <1>15, <1>16 DEF Continue, StabilizeTimer, Serve

\* Whoever is called has been started, by the connection made to it.
LEMMA StartedHolds == Spec => []CalleesStarted
<1>1. Init => CalleesStarted
  <2> SUFFICES ASSUME Init, NEW n \in Node PROVE call[n].to \notin Node
    BY DEF CalleesStarted
  <2>1. call[n] = NoCall
    BY DEF Init
  <2> QED BY <2>1, NoCallFields, EmptyIsNoNode
<1>2. CallInv /\ CalleesStarted /\ [Next]_vars => CalleesStarted'
  <2> SUFFICES ASSUME CallInv, CalleesStarted, [Next]_vars PROVE CalleesStarted'
    OBVIOUS
  <2>1. CASE UNCHANGED vars
    <3>1. pc' = pc /\ call' = call
      BY <2>1 DEF vars
    <3> QED BY <3>1 DEF CalleesStarted
  <2>2. CASE Next
    <3>1. PICK n \in Node : \E c \in Node :
            \/ Continue(n) \/ StabilizeTimer(n) \/ FixFingers(n)
            \/ CheckPredecessor(n) \/ Serve(n, c) \/ Join(n, c)
            \/ (\E key \in Key[n] : Lookup(n, key)) \/ Kill(n)
      BY <2>2 DEF Next
    <3> QED BY <3>1, StartedAction DEF CallInv
  <2> QED BY <2>1, <2>2
<1> QED BY <1>1, <1>2, CallInvHolds, PTL DEF Spec

\* The callees of those in S that are blocked.
Called == [S \in SUBSET Node |-> {call[m].to : m \in {k \in S : Blocked(k)}}]

LEMMA BlockedCalls ==
  ASSUME CallInv, NEW k \in Node, Blocked(k)
  PROVE  call[k].to \in Node
BY DEF CallInv, Bookkeeping, Callees, Blocked

LEMMA CalledInside == CallInv => Inside(Called, Node)
<1> SUFFICES ASSUME CallInv, NEW S \in SUBSET Node PROVE Called[S] \subseteq Node
  BY DEF Inside
<1> QED BY BlockedCalls DEF Called

\* WaitChain(n) is what Cardinality(Node) such steps make of n's callee.
LEMMA ChainSteps ==
  ASSUME CallInv, NEW n \in Node, Blocked(n)
  PROVE  \E step : Steps(step, Cardinality(Node), {call[n].to}, Called)
                   /\ WaitChain(n) = step[Cardinality(Node)]
<1> DEFINE N == Cardinality(Node)
           callee(S) == {call[m].to : m \in {k \in S \cap Node : Blocked(k)}}
           base == callee({n})
           Is(f) == f = [k \in 0..N |-> IF k = 0 THEN base ELSE f[k-1] \cup callee(f[k-1])]
           step == CHOOSE f : Is(f)
<1>0. N \in Nat /\ base = {call[n].to} /\ base \subseteq Node
  BY FS_CardinalityType, NodeAssumption, BlockedCalls
<1>1. \E f : Is(f)
  <2>1. PICK f : Steps(f, N, base, Called)
    BY <1>0, StepsExist
  <2>2. \A k \in 0..N : f[k] \subseteq Node
    <3> HIDE DEF N, base
    <3> QED BY <1>0, <2>1, CalledInside, StepsLeast
  <2>3. ASSUME NEW k \in 0..N, k # 0 PROVE Called[f[k-1]] = callee(f[k-1])
    <3>1. k - 1 \in 0..N
      BY <1>0, <2>3
    <3>2. f[k-1] \in SUBSET Node /\ f[k-1] \cap Node = f[k-1]
      BY <2>2, <3>1
    <3> QED BY <3>2 DEF Called
  <2>4. f = [k \in 0..N |-> IF k = 0 THEN base ELSE f[k-1] \cup Called[f[k-1]]]
    BY <2>1 DEF Steps
  <2> HIDE DEF callee, base
  <2>5. Is(f)
    BY <2>3, <2>4
  <2> QED BY <2>5
<1>2. Is(step)
  BY <1>1
<1>3. WaitChain(n) = step[N]
  BY DEF WaitChain
<1>4. \A S : callee(S) \subseteq Node
  BY BlockedCalls
<1> HIDE DEF step, N, base
<1>5. \A k \in 0..N : step[k] = IF k = 0 THEN base ELSE step[k-1] \cup callee(step[k-1])
  BY <1>2
<1>6. \A k \in 0..N : step[k] \subseteq Node
  <2> HIDE DEF callee
  <2> DEFINE P == {k \in 0..N : step[k] \subseteq Node}
  <2>1. 0 \in P
    <3>1. 0 \in 0..N
      BY <1>0
    <3>2. step[0] = base
      BY <1>5, <3>1
    <3> QED BY <1>0, <3>1, <3>2
  <2>2. ASSUME NEW k \in 0..N, k # 0, k - 1 \in P PROVE k \in P
    <3>1. step[k] = step[k-1] \cup callee(step[k-1])
      BY <1>5, <2>2
    <3> QED BY <1>4, <2>2, <3>1
  <2> HIDE DEF P
  <2>3. \A k \in 0..N : k \in P
    BY <1>0, <2>1, <2>2, UpTo
  <2> QED BY <2>3 DEF P
<1>7. ASSUME NEW k \in 0..N, k # 0 PROVE Called[step[k-1]] = callee(step[k-1])
  <2>1. k - 1 \in 0..N
    BY <1>0, <1>7
  <2>2. step[k-1] \in SUBSET Node /\ step[k-1] \cap Node = step[k-1]
    BY <1>6, <2>1
  <2> QED BY <2>2 DEF Called
<1>8. Steps(step, N, base, Called)
  <2> HIDE DEF callee
  <2>1. step = [k \in 0..N |-> IF k = 0 THEN base ELSE step[k-1] \cup callee(step[k-1])]
    BY <1>2
  <2> QED BY <1>7, <2>1 DEF Steps
<1> QED BY <1>0, <1>3, <1>8 DEF N

\* WaitChain(n) is the least set that n's callee is in and, with a blocked
\* process, its callee.
LEMMA ChainClosed ==
  ASSUME CallInv, NEW n \in Node, Blocked(n)
  PROVE  /\ call[n].to \in WaitChain(n) /\ WaitChain(n) \subseteq Node
         /\ \A m \in WaitChain(n) : Blocked(m) => call[m].to \in WaitChain(n)
<1> DEFINE N == Cardinality(Node)
           base == {call[n].to}
<1>1. PICK step : Steps(step, N, base, Called) /\ WaitChain(n) = step[N]
  BY ChainSteps
<1>2. IsFiniteSet(Node) /\ N \in Nat /\ Cardinality(Node) <= N + 1
  BY FS_CardinalityType, NodeAssumption
<1>3. base \in SUBSET Node /\ base # {} /\ call[n].to \in base
  BY BlockedCalls
<1> HIDE DEF N, base
<1>4. step[N] \subseteq Node /\ base \subseteq step[N] /\ Called[step[N]] \subseteq step[N]
  BY <1>1, <1>2, <1>3, CalledInside, StepsClose
<1>5. WaitChain(n) \in SUBSET Node /\ call[n].to \in WaitChain(n)
      /\ Called[WaitChain(n)] \subseteq WaitChain(n)
  BY <1>1, <1>3, <1>4
<1> QED BY <1>5 DEF Called

LEMMA ChainLeast ==
  ASSUME CallInv, NEW n \in Node, Blocked(n), NEW C \in SUBSET Node, call[n].to \in C,
         \A m \in C : Blocked(m) => call[m].to \in C
  PROVE  WaitChain(n) \subseteq C
<1> DEFINE N == Cardinality(Node)
           base == {call[n].to}
<1>1. PICK step : Steps(step, N, base, Called) /\ WaitChain(n) = step[N]
  BY ChainSteps
<1>2. N \in Nat /\ base \subseteq C
  BY FS_CardinalityType, NodeAssumption
<1>3. Inside(Called, C)
  <2> SUFFICES ASSUME NEW S \in SUBSET C PROVE Called[S] \subseteq C
    BY DEF Inside
  <2> QED BY DEF Called
<1> HIDE DEF N, base
<1>4. \A k \in 0..N : step[k] \subseteq C
  BY <1>1, <1>2, <1>3, StepsLeast
<1> QED BY <1>1, <1>2, <1>4

\* A chain without a circle has an end.
LEMMA ChainEnds ==
  ASSUME CallInv, NEW n \in Node, Blocked(n)
  PROVE  \E m \in WaitChain(n) : ~Blocked(m) \/ m \in WaitChain(m)
<1> SUFFICES ASSUME \A m \in WaitChain(n) : Blocked(m) /\ m \notin WaitChain(m)
             PROVE  FALSE
  OBVIOUS
<1> DEFINE chains == {WaitChain(m) : m \in WaitChain(n)}
<1>1. WaitChain(n) \subseteq Node /\ call[n].to \in WaitChain(n)
      /\ \A m \in WaitChain(n) : call[m].to \in WaitChain(n)
  BY ChainClosed
<1>2. chains \subseteq FiniteSubsetsOf(Node)
  <2> SUFFICES ASSUME NEW m \in WaitChain(n) PROVE WaitChain(m) \in FiniteSubsetsOf(Node)
    OBVIOUS
  <2>1. WaitChain(m) \subseteq Node
    BY <1>1, ChainClosed
  <2>2. IsFiniteSet(WaitChain(m))
    BY <2>1, NodeAssumption, FS_Subset
  <2> QED BY <2>1, <2>2 DEF FiniteSubsetsOf
<1>3. chains # {}
  BY <1>1
<1> HIDE DEF chains
<1>4. PICK X \in chains : \A Y \in chains : ~(Y \subseteq X /\ Y # X)
  BY <1>2, <1>3, MinimalSet
<1> USE DEF chains
<1>5. PICK m \in WaitChain(n) : X = WaitChain(m)
  BY <1>4
<1>6. m \in Node /\ Blocked(m)
  BY <1>1
<1>7. /\ WaitChain(m) \subseteq Node /\ call[m].to \in WaitChain(m)
      /\ \A k \in WaitChain(m) : Blocked(k) => call[k].to \in WaitChain(m)
  BY <1>6, ChainClosed
<1> DEFINE k == call[m].to
<1>8. k \in WaitChain(n) /\ k \in Node /\ Blocked(k) /\ k \notin WaitChain(k)
  BY <1>1
<1>9. WaitChain(k) \subseteq WaitChain(m)
  BY <1>7, <1>8, ChainLeast
<1>10. WaitChain(k) \in chains /\ WaitChain(k) # WaitChain(m)
  BY <1>7, <1>8
<1> QED BY <1>4, <1>5, <1>9, <1>10

\* Where a chain ends there is somebody who can go on, or who is gone.
LEMMA EndIsReady ==
  ASSUME CallInv, CalleesStarted, NEW k \in Node, Blocked(k), ~Blocked(call[k].to)
  PROVE  Ready(call[k].to) \/ pc[call[k].to] \in {"hung", "crashed"}
<1> DEFINE m == call[k].to
<1>1. m \in Node /\ pc[m] \in PC /\ pc[m] # "off" /\ call[m] \in Calls
  BY BlockedCalls DEF CallInv, TypeOK, CalleesStarted
<1>2. CASE pc[m] \in Waiting
  <2>1. call[m].phase # "none" /\ pc[m] # "crashed"
    BY <1>1, <1>2, WaitingPlaces DEF CallInv, Bookkeeping, BlockedInItsCall
  <2>2. call[m].phase \in {"none", "queued", "accepted", "replied"}
    BY <1>1 DEF Calls
  <2>3. call[m].phase = "replied"
    BY <2>1, <2>2 DEF Blocked
  <2> QED BY <1>2, <2>3 DEF Ready
<1>3. CASE pc[m] = "idle"
  <2>1. call[k].phase \in {"queued", "accepted"}
    BY DEF Blocked
  <2>2. call[k].phase # "accepted"
    BY <1>3 DEF CallInv, Bookkeeping, AcceptedIsServed, WorksFor
  <2> QED BY <1>3, <2>1, <2>2 DEF Ready
<1>4. CASE pc[m] \in {"scan", "find", "retry"}
  BY <1>4 DEF Ready
<1> QED BY <1>1, <1>2, <1>3, <1>4 DEF PC

\* Circles are the only deadlock: follow the callees of a blocked process, and
\* you come to one that can go on, to one that is gone or spins, or back to one
\* you have met.  An undisturbed ring of any size can stop in no other way than
\* by a circle of calls (main serves nobody while it waits, chord.c:79-93,
\* 1061-1192).
THEOREM CyclesAreTheOnlyDeadlock == Spec => []OnlyCyclesBlock
<1>1. CallInv /\ CalleesStarted => OnlyCyclesBlock
  <2> SUFFICES ASSUME CallInv, CalleesStarted, NEW n \in Node, Blocked(n)
               PROVE  \E m \in WaitChain(n) :
                        Ready(m) \/ pc[m] \in {"hung", "crashed"} \/ m \in WaitChain(m)
    BY DEF OnlyCyclesBlock
  <2>1. PICK m \in WaitChain(n) : ~Blocked(m) \/ m \in WaitChain(m)
    BY ChainEnds
  <2>2. \E k \in Node : Blocked(k) /\ call[k].to = m
    <3> DEFINE C == {x \in Node : \E k \in Node : Blocked(k) /\ call[k].to = x}
    <3>1. C \in SUBSET Node /\ call[n].to \in C /\ \A x \in C : Blocked(x) => call[x].to \in C
      BY BlockedCalls
    <3> HIDE DEF C
    <3>2. WaitChain(n) \subseteq C
      BY <3>1, ChainLeast
    <3> QED BY <3>2 DEF C
  <2>3. CASE ~Blocked(m)
    BY <2>2, <2>3, EndIsReady
  <2> QED BY <2>1, <2>3
<1> QED BY <1>1, CallInvHolds, StartedHolds, PTL
=============================================================================
