------------------------------ MODULE ChordCalls ------------------------------
(***************************************************************************)
(* The bookkeeping between callers and callees of Chord, proved for every  *)
(* set of nodes, every length of the successor list, any number of         *)
(* fingers, any finger starts and any number of failures.  First every     *)
(* action is shown to keep TypeOK; then CallInv is shown to be inductive.  *)
(* It implies CallDiscipline and PredecessorIsAnother.                     *)
(***************************************************************************)
EXTENDS Chord, TLAPS

USE DEF NodeOrEmpty, Slots, Fingers

LEMMA WaitingValues ==
  /\ Waiting = {"joinFind", "joinList", "stPred", "stList", "stList2",
                "stNotify", "findWait", "check"}
  /\ {WaitsFor[w] : w \in Waiting} =
       {"find_successor", "get_successor_list", "get_predecessor", "notify",
        "check_predecessor"}
BY DEF Waiting, WaitsFor

LEMMA EmptyIsNoNode == Empty \notin Node /\ Empty \in Nat
BY NodeAssumption DEF Empty

-----------------------------------------------------------------------------
(* Types *)

LEMMA NoListType == NoList \in [Slots -> NodeOrEmpty]
BY DEF NoList

LEMMA RequestType ==
  ASSUME NEW m \in NodeOrEmpty, NEW r \in {WaitsFor[w] : w \in Waiting} \cup {"none"},
         NEW a \in Nat
  PROVE  Request(m, r, a) \in Calls
BY NoListType DEF Request, Calls

LEMMA NoCallType == NoCall \in Calls
BY RequestType, EmptyIsNoNode DEF NoCall, Calls, Request, NoList

LEMMA AdoptType ==
  ASSUME NEW s \in NodeOrEmpty, NEW l \in [Slots -> NodeOrEmpty]
  PROVE  Adopt(s, l) \in [Slots -> NodeOrEmpty]
BY NodeAssumption DEF Adopt

LEMMA ClearListType ==
  ASSUME NEW l \in [Slots -> NodeOrEmpty], NEW d, NEW place
  PROVE  ClearList(l, d, place) \in [Slots -> NodeOrEmpty]
BY DEF ClearList

LEMMA ClearFingerType ==
  ASSUME NEW f \in [Fingers -> NodeOrEmpty], NEW d, NEW place, NEW last
  PROVE  ClearFinger(f, d, place, last) \in [Fingers -> NodeOrEmpty]
BY DEF ClearFinger

LEMMA AskType ==
  ASSUME TypeOK, NEW n \in Node, NEW m \in Node, NEW a \in Nat, NEW w \in Waiting,
         NEW rpc \in {WaitsFor[x] : x \in Waiting}, Ask(n, m, rpc, a, w)
  PROVE  pc' \in [Node -> PC] /\ call' \in [Node -> Calls]
<1>1. Request(m, rpc, a) \in Calls
  BY RequestType
<1> QED BY <1>1 DEF Ask, TypeOK, PC

LEMMA DieType ==
  ASSUME TypeOK, NEW n \in Node, Die(n)
  PROVE  pc' \in [Node -> PC] /\ call' \in [Node -> Calls]
BY NoCallType DEF Die, TypeOK, PC

LEMMA ReplyType ==
  ASSUME TypeOK, NEW n \in Node, NEW c, NEW v \in NodeOrEmpty,
         NEW l \in [Slots -> NodeOrEmpty], Reply(n, c, v, l)
  PROVE  call' \in [Node -> Calls]
<1>1. ASSUME NEW k \in Calls
      PROVE  [k EXCEPT !.phase = "replied", !.node = v, !.list = l] \in Calls
  BY <1>1 DEF Calls
<1> QED BY <1>1, NoCallType DEF Reply, TypeOK

\* One turn of stabilize's loop over the list keeps the types.
LEMMA TryPredecessorType ==
  ASSUME TypeOK, NEW n \in Node, NEW i \in 0..R, TryPredecessor(n, i)
  PROVE  /\ pc' \in [Node -> PC] /\ call' \in [Node -> Calls]
         /\ list' \in [Node -> [Slots -> NodeOrEmpty]]
         /\ finger' \in [Node -> [Fingers -> NodeOrEmpty]]
         /\ at' \in [Node -> [i : 0..R, p : NodeOrEmpty]]
<1> USE NodeAssumption
<1>a. list[n] \in [Slots -> NodeOrEmpty] /\ finger[n] \in [Fingers -> NodeOrEmpty]
  BY DEF TypeOK
<1>1. CASE /\ i < R /\ Connects(list[n][i])
           /\ Ask(n, list[n][i], "get_predecessor", 0, "stPred")
           /\ at' = [at EXCEPT ![n] = [i |-> i, p |-> Empty]]
           /\ UNCHANGED <<list, finger>>
  <2>1. list[n][i] \in Node
    BY <1>1 DEF Connects
  <2>2. "stPred" \in Waiting /\ "get_predecessor" \in {WaitsFor[x] : x \in Waiting}
    BY WaitingValues
  <2>3. pc' \in [Node -> PC] /\ call' \in [Node -> Calls]
    BY <1>1, <2>1, <2>2, AskType
  <2> QED BY <1>1, <2>3 DEF TypeOK
<1>2. CASE /\ i < R /\ ~Connects(list[n][i])
           /\ list'   = [list EXCEPT ![n] = ClearList(@, list[n][i], InList(i))]
           /\ finger' = [finger EXCEPT ![n] = ClearFinger(@, list[n][i], InList(i), M)]
           /\ at' = [at EXCEPT ![n] = [i |-> i + 1, p |-> Empty]]
           /\ pc' = [pc EXCEPT ![n] = "scan"]
           /\ UNCHANGED call
  <2>1. /\ ClearList(list[n], list[n][i], InList(i)) \in [Slots -> NodeOrEmpty]
        /\ ClearFinger(finger[n], list[n][i], InList(i), M) \in [Fingers -> NodeOrEmpty]
    BY <1>a, ClearListType, ClearFingerType
  <2>2. i + 1 \in 0..R
    BY <1>2
  <2> QED BY <1>2, <2>1, <2>2 DEF TypeOK, PC
<1>3. CASE /\ i = R
           /\ \/ Die(n)
              \/ pc' = [pc EXCEPT ![n] = "hung"] /\ UNCHANGED call
           /\ UNCHANGED <<list, finger, at>>
  <2>1. CASE Die(n)
    BY <1>3, <2>1, DieType DEF TypeOK
  <2>2. CASE pc' = [pc EXCEPT ![n] = "hung"] /\ UNCHANGED call
    BY <1>3, <2>2 DEF TypeOK, PC
  <2> QED BY <1>3, <2>1, <2>2
<1> QED BY <1>1, <1>2, <1>3 DEF TryPredecessor

LEMMA CoveredType ==
  ASSUME NEW n, NEW s
  PROVE  Covered(n, s) \subseteq next[n]..M
BY DEF Covered

LEMMA ReturnType ==
  ASSUME TypeOK, NEW n \in Node, NEW s \in NodeOrEmpty, Return(n, s)
  PROVE  TypeOK'
<1> USE NodeAssumption
<1>1. pc' \in [Node -> PC]
  BY DEF Return, TypeOK, PC
<1>2. find' \in [Node -> [for : {"none", "serve", "fix", "lookup"},
                          client : NodeOrEmpty, target : Nat]]
  <2>1. NoFind \in [for : {"none", "serve", "fix", "lookup"},
                    client : NodeOrEmpty, target : Nat]
    BY EmptyIsNoNode DEF NoFind
  <2> QED BY <2>1 DEF Return, TypeOK
<1>3. CASE /\ find[n].for = "serve"
           /\ Reply(n, find[n].client, s, NoList)
           /\ UNCHANGED <<finger, next, lookup>>
  BY <1>1, <1>2, <1>3, ReplyType, NoListType DEF Return, TypeOK
<1>4. CASE /\ find[n].for = "fix"
           /\ FillFingers(n, s)
           /\ call' = [call EXCEPT ![n] = NoCall]
           /\ UNCHANGED lookup
  <2>1. [k \in Fingers |-> IF k \in Covered(n, s) THEN s ELSE finger[n][k]]
          \in [Fingers -> NodeOrEmpty]
    <3>1. finger[n] \in [Fingers -> NodeOrEmpty]
      BY DEF TypeOK
    <3> QED BY <3>1
  <2>2. finger' \in [Node -> [Fingers -> NodeOrEmpty]]
    BY <1>4, <2>1 DEF FillFingers, TypeOK
  <2>3. next' \in [Node -> 0..M]
    <3>1. PICK last \in Covered(n, s) : next' = [next EXCEPT ![n] = last]
      BY <1>4 DEF FillFingers
    <3>2. last \in 0..M
      <4>1. last \in next[n]..M
        BY CoveredType
      <4>2. next[n] \in 0..M
        BY DEF TypeOK
      <4> QED BY <4>1, <4>2, NodeAssumption DEF NodeAssumption
    <3> QED BY <3>1, <3>2 DEF TypeOK
  <2>4. call' \in [Node -> Calls]
    BY <1>4, NoCallType DEF TypeOK
  <2> QED BY <1>1, <1>2, <1>4, <2>2, <2>3, <2>4 DEF Return, TypeOK
<1>5. CASE /\ find[n].for = "lookup"
           /\ lookup' = [lookup EXCEPT ![n] =
                        [key |-> find[n].target, node |-> s, seen |-> lookup[n].seen]]
           /\ call' = [call EXCEPT ![n] = NoCall]
           /\ UNCHANGED <<finger, next>>
  <2>1. call' \in [Node -> Calls]
    BY <1>5, NoCallType DEF TypeOK
  <2>2. lookup' \in [Node -> [key : Nat, node : NodeOrEmpty, seen : SUBSET Node]]
    BY <1>5 DEF TypeOK
  <2> QED BY <1>1, <1>2, <1>5, <2>1, <2>2 DEF Return, TypeOK
<1> QED BY <1>3, <1>4, <1>5 DEF Return

LEMMA ForwardType ==
  ASSUME TypeOK, NEW n \in Node, NEW place \in Places, Forward(n, place)
  PROVE  /\ pc' \in [Node -> PC] /\ call' \in [Node -> Calls]
         /\ list' \in [Node -> [Slots -> NodeOrEmpty]]
         /\ finger' \in [Node -> [Fingers -> NodeOrEmpty]]
<1> DEFINE m == At(place, n, list[n], finger[n])
<1>a. list[n] \in [Slots -> NodeOrEmpty] /\ finger[n] \in [Fingers -> NodeOrEmpty]
  BY DEF TypeOK
<1>1. CASE /\ Connects(m)
           /\ Ask(n, m, "find_successor", find[n].target, "findWait")
           /\ UNCHANGED <<list, finger>>
  <2>1. m \in Node
    BY <1>1 DEF Connects
  <2>2. "findWait" \in Waiting /\ "find_successor" \in {WaitsFor[x] : x \in Waiting}
    BY WaitingValues
  <2>3. find[n].target \in Nat
    BY DEF TypeOK
  <2>4. pc' \in [Node -> PC] /\ call' \in [Node -> Calls]
    BY <1>1, <2>1, <2>2, <2>3, AskType
  <2> QED BY <1>1, <2>4 DEF TypeOK
<1>2. CASE /\ ~Connects(m)
           /\ list'   = [list EXCEPT ![n] = ClearList(@, m, place)]
           /\ finger' = [finger EXCEPT ![n] = ClearFinger(@, m, place, M)]
           /\ pc'     = [pc EXCEPT ![n] = "retry"]
           /\ UNCHANGED call
  <2>1. /\ ClearList(list[n], m, place) \in [Slots -> NodeOrEmpty]
        /\ ClearFinger(finger[n], m, place, M) \in [Fingers -> NodeOrEmpty]
    BY <1>a, ClearListType, ClearFingerType
  <2> QED BY <1>2, <2>1 DEF TypeOK, PC
<1> QED BY <1>1, <1>2 DEF Forward

\* The slot stabilize talks about exists.  Without it the types are not kept:
\* i can also be R, one past the end.
SlotExists == \A n \in Node : pc[n] \in {"stPred", "stList"} => at[n].i < R

LEMMA NextFingerType ==
  ASSUME NEW k \in 0..M PROVE NextFinger(k) \in 1..M
<1>1. M \in Nat /\ M >= 1
  BY NodeAssumption
<1> QED BY <1>1 DEF NextFinger

LEMMA TypeInit == Init => TypeOK
<1> SUFFICES ASSUME Init PROVE TypeOK
  OBVIOUS
<1> USE NodeAssumption, EmptyIsNoNode
<1>1. /\ pc \in [Node -> PC]
      /\ prede \in [Node -> NodeOrEmpty]
  BY DEF Init, PC
<1>2. \A n \in Node : [i \in Slots |-> n] \in [Slots -> NodeOrEmpty]
  OBVIOUS
<1>3. \A n \in Node : [k \in Fingers |-> n] \in [Fingers -> NodeOrEmpty]
  OBVIOUS
<1>4. NoFinger \in [Fingers -> NodeOrEmpty]
  BY DEF NoFinger
<1>5. list \in [Node -> [Slots -> NodeOrEmpty]]
  BY <1>2, NoListType DEF Init
<1>6. finger \in [Node -> [Fingers -> NodeOrEmpty]]
  BY <1>3, <1>4 DEF Init
<1>7. call \in [Node -> Calls]
  BY NoCallType DEF Init
<1>8. /\ NoFind \in [for : {"none", "serve", "fix", "lookup"},
                     client : NodeOrEmpty, target : Nat]
      /\ NoAt \in [i : 0..R, p : NodeOrEmpty]
      /\ NoLookup \in [key : Nat, node : NodeOrEmpty, seen : SUBSET Node]
  BY DEF NoFind, NoAt, NoLookup
<1> QED BY <1>1, <1>5, <1>6, <1>7, <1>8 DEF Init, TypeOK

\* Every action of one node keeps the types.
LEMMA TypeAction ==
  ASSUME TypeOK, SlotExists, NEW n \in Node, NEW c \in Node,
         \/ Continue(n) \/ StabilizeTimer(n) \/ FixFingers(n)
         \/ CheckPredecessor(n) \/ Serve(n, c) \/ Join(n, c)
         \/ (\E key \in Key[n] : Lookup(n, key)) \/ Kill(n)
  PROVE  TypeOK'
<1> USE NodeAssumption, EmptyIsNoNode
<1>a. /\ list[n] \in [Slots -> NodeOrEmpty] /\ finger[n] \in [Fingers -> NodeOrEmpty]
      /\ call[n].node \in NodeOrEmpty /\ call[n].list \in [Slots -> NodeOrEmpty]
      /\ at[n].i \in 0..R /\ at[n].p \in NodeOrEmpty /\ prede[n] \in NodeOrEmpty
      /\ find[n].target \in Nat /\ call[c].arg \in Nat
      /\ 0 \in Slots
  <2>1. call[n] \in Calls /\ call[c] \in Calls
    BY DEF TypeOK
  <2>2. /\ list[n] \in [Slots -> NodeOrEmpty] /\ finger[n] \in [Fingers -> NodeOrEmpty]
        /\ prede[n] \in NodeOrEmpty
    BY DEF TypeOK
  <2>3. at[n].i \in 0..R /\ at[n].p \in NodeOrEmpty /\ find[n].target \in Nat
    BY DEF TypeOK
  <2>4. 0 \in Slots
    BY DEF TypeOK
  <2> QED BY <2>1, <2>2, <2>3, <2>4 DEF Calls
<1>b. NoAt \in [i : 0..R, p : NodeOrEmpty]
  BY DEF NoAt
<1>c. NoFind \in [for : {"none", "serve", "fix", "lookup"},
                  client : NodeOrEmpty, target : Nat]
  BY DEF NoFind
<1>d. \A m : Connects(m) => m \in Node
  BY DEF Connects
<1>e. /\ {"joinFind", "joinList", "stPred", "stList", "stList2", "stNotify",
          "findWait", "check"} \subseteq Waiting
      /\ {"find_successor", "get_successor_list", "get_predecessor", "notify",
          "check_predecessor"} \subseteq {WaitsFor[x] : x \in Waiting}
  BY WaitingValues
<1>f. ASSUME NEW m, Notify(n, m)
      PROVE  pc' \in [Node -> PC] /\ call' \in [Node -> Calls]
  BY <1>f, <1>d, <1>e, AskType, DieType DEF Notify
<1>1. CASE JoinFound(n)
  <2>1. pc' \in [Node -> PC] /\ call' \in [Node -> Calls]
    BY <1>1, <1>d, <1>e, AskType, DieType DEF JoinFound
  <2>2. list' \in [Node -> [Slots -> NodeOrEmpty]]
    <3>1. [list[n] EXCEPT ![0] = call[n].node] \in [Slots -> NodeOrEmpty]
      BY <1>a
    <3>2. list' = [list EXCEPT ![n] = [list[n] EXCEPT ![0] = call[n].node]]
      BY <1>1 DEF JoinFound, TypeOK
    <3> QED BY <3>1, <3>2 DEF TypeOK
  <2> QED BY <1>1, <2>1, <2>2 DEF JoinFound, TypeOK
<1>2. CASE JoinDone(n)
  <2>1. Adopt(list[n][0], call[n].list) \in [Slots -> NodeOrEmpty]
    BY <1>a, AdoptType
  <2> QED BY <1>2, <2>1, NoCallType DEF JoinDone, TypeOK, PC
<1>3. CASE StabilizeNext(n)
  BY <1>3, <1>a, TryPredecessorType DEF StabilizeNext, TypeOK
<1>4. CASE GotPredecessor(n)
  <2>1. pc' \in [Node -> PC] /\ call' \in [Node -> Calls]
    BY <1>4, <1>d, <1>e, AskType, DieType DEF GotPredecessor
  <2> QED BY <1>4, <2>1, <1>a DEF GotPredecessor, TypeOK
<1>5. CASE GotList(n)
  <2> DEFINE new == Adopt(list[n][at[n].i], call[n].list)
  <2>1. new \in [Slots -> NodeOrEmpty]
    <3>1. at[n].i \in Slots
      <4>1. at[n].i < R
        BY <1>5 DEF GotList, Answered, SlotExists
      <4>2. at[n].i \in 0..R /\ R \in Nat
        BY <1>a DEF TypeOK
      <4> HIDE DEF new
      <4> QED BY ONLY <4>1, <4>2 DEF Slots
    <3> QED BY <3>1, <1>a, AdoptType
  <2>2. pc' \in [Node -> PC] /\ call' \in [Node -> Calls]
    BY <1>5, <1>d, <1>e, <1>f, AskType DEF GotList
  <2> QED BY <1>5, <2>1, <2>2 DEF GotList, TypeOK
<1>6. CASE GotListOfPredecessor(n)
  <2>1. Adopt(at[n].p, call[n].list) \in [Slots -> NodeOrEmpty]
    BY <1>a, AdoptType
  <2>2. pc' \in [Node -> PC] /\ call' \in [Node -> Calls]
    BY <1>6, <1>f DEF GotListOfPredecessor
  <2> QED BY <1>6, <2>1, <2>2 DEF GotListOfPredecessor, TypeOK
<1>7. CASE Notified(n)
  BY <1>7, <1>b, NoCallType DEF Notified, TypeOK, PC
<1>8. CASE FindHere(n)
  BY <1>8, <1>a, ReturnType DEF FindHere
<1>9. CASE FindElsewhere(n) \/ FindAgain(n)
  <2>1. PICK place \in Places : Forward(n, place)
    BY <1>9 DEF FindElsewhere, FindAgain
  <2> QED BY <1>9, <2>1, ForwardType DEF FindElsewhere, FindAgain, TypeOK
<1>10. CASE Found(n)
  BY <1>10, <1>a, ReturnType DEF Found
<1>11. CASE PredecessorChecked(n)
  BY <1>11, NoCallType DEF PredecessorChecked, TypeOK, PC
<1>12. CASE CalleeGone(n)
  <2>1. pc' \in [Node -> PC] /\ call' \in [Node -> Calls]
    <3>1. CASE Die(n)
      BY <3>1, DieType
    <3>2. CASE /\ pc'   = [pc EXCEPT ![n] = "hung"]
               /\ call' = [call EXCEPT ![n] = NoCall]
      BY <3>2, NoCallType DEF TypeOK, PC
    <3> QED BY <1>12, <3>1, <3>2 DEF CalleeGone
  <2> QED BY <1>12, <2>1, <1>b, <1>c DEF CalleeGone, TypeOK
<1>13. CASE StabilizeAlone(n)
  <2>1. Adopt(prede[n], list[n]) \in [Slots -> NodeOrEmpty]
    BY <1>a, AdoptType
  <2> QED BY <1>13, <2>1 DEF StabilizeAlone, TypeOK
<1>14. CASE Stabilize(n)
  <2>1. 0 \in 0..R
    OBVIOUS
  <2> QED BY <1>14, <2>1, TryPredecessorType DEF Stabilize, TypeOK
<1>15. CASE FixFingers(n)
  <2>0. next[n] \in 0..M
    BY DEF TypeOK
  <2>1. NextFinger(next[n]) \in 1..M
    BY <2>0, NextFingerType
  <2>2. FingerStart[n][NextFinger(next[n])] \in Nat
    BY <2>1
  <2>3. find' \in [Node -> [for : {"none", "serve", "fix", "lookup"},
                            client : NodeOrEmpty, target : Nat]]
    BY <1>15, <2>2 DEF FixFingers, EnterFind, TypeOK
  <2>4. pc' \in [Node -> PC]
    BY <1>15 DEF FixFingers, EnterFind, TypeOK, PC
  <2>5. next' \in [Node -> 0..M]
    <3>1. NextFinger(next[n]) \in 0..M
      BY <2>1
    <3> QED BY <1>15, <3>1 DEF FixFingers, TypeOK
  <2> QED BY <1>15, <2>3, <2>4, <2>5 DEF FixFingers, TypeOK
<1>16. CASE CheckPredecessor(n)
  <2>1. CASE Connects(prede[n])
    BY <1>16, <2>1, <1>d, <1>e, AskType DEF CheckPredecessor, TypeOK
  <2>2. CASE ~Connects(prede[n])
    BY <1>16, <2>2 DEF CheckPredecessor, TypeOK
  <2> QED BY <2>1, <2>2
<1>17. CASE ServeFindSuccessor(n, c)
  <2>0. ASSUME NEW k \in Calls PROVE [k EXCEPT !.phase = "accepted"] \in Calls
    BY DEF Calls
  <2>1. [call[c] EXCEPT !.phase = "accepted"] \in Calls
    BY <2>0 DEF TypeOK
  <2>2. call' \in [Node -> Calls]
    BY <1>17, <2>1 DEF ServeFindSuccessor, TypeOK
  <2> QED BY <1>17, <2>2, <1>a DEF ServeFindSuccessor, EnterFind, TypeOK, PC
<1>18. CASE ServeGetSuccessorList(n, c)
  BY <1>18, <1>a, ReplyType DEF ServeGetSuccessorList, TypeOK
<1>19. CASE ServeGetPredecessor(n, c)
  BY <1>19, <1>a, NoListType, ReplyType DEF ServeGetPredecessor, TypeOK
<1>20. CASE ServeNotify(n, c)
  BY <1>20, NoListType, ReplyType DEF ServeNotify, TypeOK
<1>21. CASE ServeCheckPredecessor(n, c)
  BY <1>21, NoListType, ReplyType DEF ServeCheckPredecessor, TypeOK
<1>22. CASE Join(n, c)
  <2>1. pc' \in [Node -> PC] /\ call' \in [Node -> Calls]
    BY <1>22, <1>e, AskType DEF Join
  <2> QED BY <1>22, <2>1 DEF Join, TypeOK
<1>23. CASE \E key \in Key[n] : Lookup(n, key)
  <2>1. PICK key \in Key[n] : Lookup(n, key)
    BY <1>23
  <2>2. OnRing \in SUBSET Node /\ key \in Nat
    BY DEF OnRing, Members
  <2> QED BY <2>1, <2>2 DEF Lookup, EnterFind, TypeOK, PC
<1>24. CASE Kill(n)
  <2>1. pc' \in [Node -> PC] /\ call' \in [Node -> Calls]
    BY <1>24, DieType DEF Kill
  <2>2. kills' \in 0..MaxKills
    BY <1>24 DEF Kill, TypeOK
  <2> QED BY <1>24, <2>1, <2>2, <1>b, <1>c DEF Kill, TypeOK
<1> QED BY <1>1, <1>2, <1>3, <1>4, <1>5, <1>6, <1>7, <1>8, <1>9, <1>10, <1>11, <1>12, <1>13, <1>14, <1>15, <1>16, <1>17, <1>18, <1>19, <1>20, <1>21, <1>22, <1>23, <1>24
     DEF Continue, StabilizeTimer, Serve

-----------------------------------------------------------------------------
(* What the bookkeeping consists of *)

\* What a node remembers about the call it is in (stabilize, lines 706-793):
\* which entry of its list it is talking to, and whom it has been told about.
StabilizeLinks ==
  \A n \in Node :
    /\ pc[n] \in {"stPred", "stList"} =>
         at[n].i < R /\ call[n].to = list[n][at[n].i]
    /\ pc[n] = "stList2" => call[n].to = at[n].p /\ at[n].p # n
    /\ pc[n] = "stNotify" => call[n].to # n

\* Calls go to processes, and who calls itself is never served.
Callees ==
  \A n \in Node :
    /\ call[n].phase # "none" <=> call[n].to \in Node
    /\ call[n].to = n => call[n].phase = "queued"

\* The part of the invariant that is about pc, call and find alone.
Bookkeeping == BlockedInItsCall /\ AcceptedIsServed /\ ServedIsWaiting /\ Callees

\* The inductive invariant behind CallDiscipline and PredecessorIsAnother.
CallInv ==
  /\ TypeOK
  /\ Bookkeeping
  /\ StabilizeLinks
  /\ PredecessorIsAnother

-----------------------------------------------------------------------------
(* What each kind of step does to pc, call and find, point by point *)

Same(n) == \A x \in Node \ {n} : pc'[x] = pc[x] /\ call'[x] = call[x] /\ find'[x] = find[x]

Working == {"find", "retry", "findWait"}
Gone    == {"hung", "crashed"}

LEMMA WaitingPlaces ==
  /\ "find" \notin Waiting /\ "retry" \notin Waiting /\ "findWait" \in Waiting
  /\ "hung" \notin Waiting /\ "crashed" \notin Waiting
  /\ "idle" \notin Waiting /\ "scan" \notin Waiting /\ "off" \notin Waiting
BY WaitingValues

LEMMA WaitsForValues ==
  /\ WaitsFor["joinFind"] = "find_successor"
  /\ WaitsFor["joinList"] = "get_successor_list"
  /\ WaitsFor["stPred"]   = "get_predecessor"
  /\ WaitsFor["stList"]   = "get_successor_list"
  /\ WaitsFor["stList2"]  = "get_successor_list"
  /\ WaitsFor["stNotify"] = "notify"
  /\ WaitsFor["findWait"] = "find_successor"
  /\ WaitsFor["check"]    = "check_predecessor"
BY DEF WaitsFor

LEMMA RequestFields ==
  ASSUME NEW m, NEW r, NEW a
  PROVE  /\ Request(m, r, a).to = m /\ Request(m, r, a).rpc = r
         /\ Request(m, r, a).arg = a /\ Request(m, r, a).phase = "queued"
         /\ Request(m, r, a).node = Empty /\ Request(m, r, a).list = NoList
BY DEF Request

LEMMA NoCallFields ==
  /\ NoCall.to = Empty /\ NoCall.rpc = "none" /\ NoCall.phase = "none"
  /\ NoCall.node = Empty /\ NoCall.list = NoList
BY DEF NoCall, Request

\* n, which is in no unanswered call, sends a call of its own.
LEMMA AskKeeps ==
  ASSUME Bookkeeping, NEW n \in Node, Same(n), find'[n] = find[n],
         call[n].phase \in {"none", "replied"}, pc[n] \notin Gone,
         pc'[n] \in Waiting, call'[n].rpc = WaitsFor[pc'[n]],
         call'[n].to \in Node, call'[n].phase = "queued",
         pc'[n] = "findWait" <=> pc[n] \in Working
  PROVE  Bookkeeping'
<1> USE WaitingPlaces DEF Bookkeeping, Same, Working, Gone
<1>1. BlockedInItsCall'
  BY DEF BlockedInItsCall
<1>2. AcceptedIsServed'
  BY DEF AcceptedIsServed, WorksFor, Callees
<1>3. ServedIsWaiting'
  BY DEF ServedIsWaiting, WorksFor
<1>4. Callees'
  BY DEF Callees
<1> QED BY <1>1, <1>2, <1>3, <1>4

\* n goes on by itself, without a call: it never stops or starts to work for
\* somebody on the way, unless it fails.
LEMMA MoveKeeps ==
  ASSUME Bookkeeping, NEW n \in Node, Same(n), find'[n] = find[n],
         call'[n] = call[n], pc[n] \notin Waiting, pc'[n] \notin Waiting,
         pc[n] \notin Gone,
         pc'[n] \in Gone \/ (pc'[n] \in Working <=> pc[n] \in Working)
  PROVE  Bookkeeping'
<1> USE WaitingPlaces DEF Bookkeeping, Same, Working, Gone
<1>1. BlockedInItsCall'
  BY DEF BlockedInItsCall
<1>2. AcceptedIsServed'
  BY DEF AcceptedIsServed, WorksFor, Callees
<1>3. ServedIsWaiting'
  BY DEF ServedIsWaiting, WorksFor
<1>4. Callees'
  BY DEF Callees
<1> QED BY <1>1, <1>2, <1>3, <1>4

\* n has read its answer and works for nobody.
LEMMA DoneKeeps ==
  ASSUME Bookkeeping, NEW n \in Node, Same(n),
         call[n].phase # "accepted", pc[n] \notin Gone,
         ~\E c \in Node : WorksFor(n, c),
         pc'[n] = "idle", call'[n] = NoCall
  PROVE  Bookkeeping'
<1> USE WaitingPlaces, NoCallFields, EmptyIsNoNode DEF Bookkeeping, Same, Working, Gone
<1>1. BlockedInItsCall'
  BY DEF BlockedInItsCall
<1>2. AcceptedIsServed'
  BY DEF AcceptedIsServed, WorksFor, Callees
<1>3. ServedIsWaiting'
  BY DEF ServedIsWaiting, WorksFor
<1>4. Callees'
  BY DEF Callees
<1> QED BY <1>1, <1>2, <1>3, <1>4

\* n dies, with or without a request still queued somewhere.
LEMMA DieKeeps ==
  ASSUME Bookkeeping, NEW n \in Node, Same(n), pc'[n] = "crashed",
         call'[n] = NoCall \/ (call[n].phase = "queued" /\ call'[n] = call[n])
  PROVE  Bookkeeping'
<1> USE WaitingPlaces, NoCallFields, EmptyIsNoNode DEF Bookkeeping, Same, Working, Gone
<1>1. BlockedInItsCall'
  BY DEF BlockedInItsCall
<1>2. AcceptedIsServed'
  BY DEF AcceptedIsServed, WorksFor, Callees
<1>3. ServedIsWaiting'
  BY DEF ServedIsWaiting, WorksFor
<1>4. Callees'
  BY DEF Callees
<1> QED BY <1>1, <1>2, <1>3, <1>4

\* n reads a closed connection for ever; nobody was working for it.
LEMMA HangKeeps ==
  ASSUME Bookkeeping, NEW n \in Node, Same(n), pc'[n] = "hung", call'[n] = NoCall,
         ~\E m \in Node : WorksFor(m, n)
  PROVE  Bookkeeping'
<1> USE WaitingPlaces, NoCallFields, EmptyIsNoNode DEF Bookkeeping, Same, Working, Gone
<1>1. BlockedInItsCall'
  BY DEF BlockedInItsCall
<1>2. AcceptedIsServed'
  BY DEF AcceptedIsServed, WorksFor, Callees
<1>3. ServedIsWaiting'
  BY DEF ServedIsWaiting, WorksFor
<1>4. Callees'
  BY DEF Callees
<1> QED BY <1>1, <1>2, <1>3, <1>4

\* n starts a search for itself.
LEMMA SearchKeeps ==
  ASSUME Bookkeeping, NEW n \in Node, Same(n), pc[n] = "idle", pc'[n] = "find",
         find'[n].for # "serve", call'[n] = call[n]
  PROVE  Bookkeeping'
<1> USE WaitingPlaces DEF Bookkeeping, Same, Working, Gone
<1>1. BlockedInItsCall'
  BY DEF BlockedInItsCall
<1>2. AcceptedIsServed'
  BY DEF AcceptedIsServed, WorksFor, Callees
<1>3. ServedIsWaiting'
  BY DEF ServedIsWaiting, WorksFor
<1>4. Callees'
  BY DEF Callees
<1> QED BY <1>1, <1>2, <1>3, <1>4

\* n accepts c's find_successor and starts to work on it.
LEMMA AcceptKeeps ==
  ASSUME Bookkeeping, NEW n \in Node, NEW c \in Node,
         \A x \in Node \ {n} : pc'[x] = pc[x] /\ find'[x] = find[x],
         \A x \in Node \ {c} : call'[x] = call[x],
         pc[n] = "idle", pc'[n] = "find",
         call[c].to = n, call[c].phase = "queued", call[c].rpc = "find_successor",
         call'[c].to = n, call'[c].phase = "accepted",
         call'[c].rpc = "find_successor", call'[c].arg = call[c].arg,
         find'[n].for = "serve", find'[n].client = c, find'[n].target = call[c].arg
  PROVE  Bookkeeping'
<1> USE WaitingPlaces DEF Bookkeeping, Working, Gone
<1>0. c # n
  BY DEF BlockedInItsCall
<1>1. BlockedInItsCall'
  BY <1>0 DEF BlockedInItsCall
<1>2. AcceptedIsServed'
  BY <1>0 DEF AcceptedIsServed, WorksFor, Callees
<1>3. ServedIsWaiting'
  BY <1>0 DEF ServedIsWaiting, WorksFor, BlockedInItsCall
<1>4. Callees'
  BY <1>0 DEF Callees
<1> QED BY <1>1, <1>2, <1>3, <1>4

\* n answers c's call and is back in its loop; c is alive, or has died.
LEMMA AnswerKeeps ==
  ASSUME Bookkeeping, NEW n \in Node, NEW c \in Node \ {n},
         \A x \in Node \ {n} : pc'[x] = pc[x] /\ find'[x] = find[x],
         \A x \in Node \ {n, c} : call'[x] = call[x],
         call'[n] = NoCall, pc'[n] = "idle",
         pc[n] \notin Gone, call[n].phase # "accepted",
         \A x \in Node : WorksFor(n, x) => x = c,
         \/ /\ pc[c] \in Waiting /\ call[c].to = n /\ call'[c].to = n
            /\ call'[c].phase = "replied" /\ call'[c].rpc = call[c].rpc
            /\ \A m \in Node : WorksFor(m, c) => m = n
         \/ pc[c] = "crashed" /\ call'[c] = NoCall
  PROVE  Bookkeeping'
<1> USE WaitingPlaces, NoCallFields, EmptyIsNoNode DEF Bookkeeping, Working, Gone
<1>1. BlockedInItsCall'
  BY DEF BlockedInItsCall
<1>2. AcceptedIsServed'
  BY DEF AcceptedIsServed, WorksFor, Callees
<1>3. ServedIsWaiting'
  BY DEF ServedIsWaiting, WorksFor
<1>4. Callees'
  BY DEF Callees
<1> QED BY <1>1, <1>2, <1>3, <1>4

-----------------------------------------------------------------------------
(* The actions, seen point by point *)

LEMMA AskFields ==
  ASSUME TypeOK, NEW n \in Node, NEW m, NEW rpc, NEW arg, NEW where,
         Ask(n, m, rpc, arg, where)
  PROVE  /\ pc'[n] = where
         /\ call'[n].to = m /\ call'[n].rpc = rpc /\ call'[n].arg = arg
         /\ call'[n].phase = "queued"
         /\ \A x \in Node \ {n} : pc'[x] = pc[x] /\ call'[x] = call[x]
<1>1. call'[n] = Request(m, rpc, arg)
  BY DEF Ask, TypeOK
<1>2. pc'[n] = where /\ \A x \in Node \ {n} : pc'[x] = pc[x] /\ call'[x] = call[x]
  BY DEF Ask, TypeOK
<1> QED BY <1>1, <1>2, RequestFields

LEMMA DieFields ==
  ASSUME TypeOK, NEW n \in Node, Die(n)
  PROVE  /\ pc'[n] = "crashed"
         /\ call'[n] = NoCall \/ (call[n].phase = "queued" /\ call'[n] = call[n])
         /\ \A x \in Node \ {n} : pc'[x] = pc[x] /\ call'[x] = call[x]
BY DEF Die, TypeOK

LEMMA ReplyFields ==
  ASSUME TypeOK, NEW n \in Node, NEW c \in Node \ {n}, NEW v, NEW l,
         Reply(n, c, v, l)
  PROVE  /\ call'[n] = NoCall
         /\ \A x \in Node \ {n, c} : call'[x] = call[x]
         /\ pc[c] = "crashed" => call'[c] = NoCall
         /\ pc[c] # "crashed" =>
              /\ call'[c].to = call[c].to /\ call'[c].rpc = call[c].rpc
              /\ call'[c].phase = "replied" /\ call'[c].node = v /\ call'[c].list = l
<1>1. \A x \in Node \ {n, c} : call'[x] = call[x]
  BY DEF Reply, TypeOK
<1>2. call'[n] = NoCall /\ (pc[c] = "crashed" => call'[c] = NoCall)
  BY DEF Reply, TypeOK
<1>3. pc[c] # "crashed" =>
        call'[c] = [call[c] EXCEPT !.phase = "replied", !.node = v, !.list = l]
  BY DEF Reply, TypeOK
<1>4. call[c] \in Calls
  BY DEF TypeOK
<1>5. ASSUME NEW k \in Calls
      PROVE  LET e == [k EXCEPT !.phase = "replied", !.node = v, !.list = l]
             IN /\ e.to = k.to /\ e.rpc = k.rpc /\ e.phase = "replied"
                /\ e.node = v /\ e.list = l
  BY DEF Calls
<1> QED BY <1>1, <1>2, <1>3, <1>4, <1>5

\* Whoever is at the top of its loop or has its answer can send a call.
LEMMA AskStep ==
  ASSUME TypeOK, Bookkeeping, NEW n \in Node, NEW m \in Node, NEW rpc, NEW arg,
         NEW where \in Waiting, Ask(n, m, rpc, arg, where), rpc = WaitsFor[where],
         UNCHANGED find,
         pc[n] \notin Gone, pc[n] \in Waiting => call[n].phase = "replied",
         where = "findWait" <=> pc[n] \in Working
  PROVE  Bookkeeping'
<1>1. call[n].phase \in {"none", "replied"}
  BY DEF Bookkeeping, BlockedInItsCall, Gone
<1>2. Same(n)
  BY AskFields DEF Same
<1> QED BY <1>1, <1>2, AskFields, AskKeeps

LEMMA DieStep ==
  ASSUME TypeOK, Bookkeeping, NEW n \in Node, Die(n),
         \A x \in Node \ {n} : find'[x] = find[x]
  PROVE  Bookkeeping'
BY DieFields, DieKeeps DEF Same

\* Returning from handleFindSuccessorRPC, for whomever it was called.
LEMMA ReturnStep ==
  ASSUME TypeOK, Bookkeeping, NEW n \in Node, NEW s, Return(n, s),
         pc[n] = "find" \/ Answered(n, "findWait")
  PROVE  Bookkeeping'
<1>1. /\ pc'[n] = "idle" /\ find'[n] = NoFind
      /\ \A x \in Node \ {n} : pc'[x] = pc[x] /\ find'[x] = find[x]
  BY DEF Return, TypeOK
<1>2. call[n].phase # "accepted" /\ pc[n] \notin Gone /\ pc[n] \in Working
  BY WaitingPlaces DEF Answered, Bookkeeping, BlockedInItsCall, Gone, Working
<1>3. CASE find[n].for # "serve" \/ find[n].client \notin Node
  <2>1. call' = [call EXCEPT ![n] = NoCall]
    <3>1. CASE find[n].for # "serve"
      BY <3>1 DEF Return
    <3>2. CASE find[n].client \notin Node /\ Reply(n, find[n].client, s, NoList)
      BY <3>2 DEF Reply, TypeOK
    <3> QED BY <1>3, <3>1, <3>2 DEF Return
  <2>2. Same(n) /\ call'[n] = NoCall
    BY <1>1, <2>1 DEF Same, TypeOK
  <2>3. ~\E c \in Node : WorksFor(n, c)
    BY <1>3 DEF WorksFor
  <2> QED BY <1>1, <1>2, <2>2, <2>3, DoneKeeps
<1>4. CASE find[n].for = "serve" /\ find[n].client \in Node
  <2> DEFINE c == find[n].client
  <2>1. WorksFor(n, c) /\ \A x \in Node : WorksFor(n, x) => x = c
    BY <1>2, <1>4 DEF WorksFor, Working
  <2>2. Reply(n, c, s, NoList)
    BY <1>4 DEF Return
  <2>3. c # n
    BY <1>2, <1>4, <2>1 DEF Bookkeeping, ServedIsWaiting, Gone
  <2>4. CASE pc[c] = "crashed"
    BY <1>1, <1>2, <1>4, <2>1, <2>2, <2>3, <2>4, ReplyFields, AnswerKeeps
  <2>5. CASE pc[c] # "crashed"
    <3>1. call[c].to = n /\ call[c].phase = "accepted" /\ pc[c] \in Waiting
      BY <1>4, <2>1, <2>5 DEF Bookkeeping, ServedIsWaiting, BlockedInItsCall
    <3>2. \A m \in Node : WorksFor(m, c) => m = n
      BY <1>4, <2>5, <3>1 DEF Bookkeeping, ServedIsWaiting
    <3> QED BY <1>1, <1>2, <1>4, <2>1, <2>2, <2>3, <2>5, <3>1, <3>2, ReplyFields, AnswerKeeps
  <2> QED BY <2>4, <2>5
<1> QED BY <1>3, <1>4

\* The answers main gives without a call of its own.
LEMMA ReplyStep ==
  ASSUME TypeOK, Bookkeeping, NEW n \in Node, NEW c \in Node, NEW rpc,
         NEW v, NEW l, Accept(n, c, rpc), Reply(n, c, v, l), UNCHANGED <<pc, find>>
  PROVE  Bookkeeping' /\ c # n
<1>1. c # n /\ call[n].phase # "accepted" /\ pc[c] \in Waiting \cup {"crashed"}
  BY WaitingPlaces DEF Accept, Bookkeeping, BlockedInItsCall
<1>2. \A x \in Node : ~WorksFor(n, x) /\ (pc[c] # "crashed" => ~WorksFor(x, c))
  BY WaitingPlaces DEF Accept, Bookkeeping, ServedIsWaiting, WorksFor, BlockedInItsCall
<1>3. call[c].to = n /\ pc[n] = "idle" /\ pc[n] \notin Gone
  BY DEF Accept, Gone
<1> QED BY <1>1, <1>2, <1>3, ReplyFields, AnswerKeeps

\* A search that goes on: n asks the node a place points at, or clears it.
LEMMA ForwardStep ==
  ASSUME TypeOK, Bookkeeping, NEW n \in Node, NEW place, Forward(n, place),
         pc[n] \in {"find", "retry"}, UNCHANGED find
  PROVE  Bookkeeping'
<1> DEFINE m == At(place, n, list[n], finger[n])
<1>1. CASE /\ Connects(m)
           /\ Ask(n, m, "find_successor", find[n].target, "findWait")
  <2>1. m \in Node /\ "findWait" \in Waiting /\ pc[n] \notin Gone /\ pc[n] \notin Waiting
        /\ pc[n] \in Working
    BY <1>1, WaitingPlaces DEF Connects, Gone, Working
  <2> QED BY <1>1, <2>1, AskStep, WaitsForValues
<1>2. CASE pc' = [pc EXCEPT ![n] = "retry"] /\ UNCHANGED call
  <2>1. Same(n) /\ find'[n] = find[n] /\ call'[n] = call[n] /\ pc'[n] = "retry"
    BY <1>2 DEF Same, TypeOK
  <2>2. pc[n] \notin Waiting /\ pc'[n] \notin Waiting /\ pc[n] \notin Gone
        /\ pc'[n] \in Working /\ pc[n] \in Working
    BY <2>1, WaitingPlaces DEF Gone, Working
  <2> QED BY <2>1, <2>2, MoveKeeps
<1> QED BY <1>1, <1>2 DEF Forward

LEMMA TryPredecessorStep ==
  ASSUME TypeOK, Bookkeeping, NEW n \in Node, NEW i, TryPredecessor(n, i),
         pc[n] \in {"idle", "scan"}, UNCHANGED find
  PROVE  Bookkeeping'
<1>0. pc[n] \notin Waiting /\ pc[n] \notin Gone /\ pc[n] \notin Working
  BY WaitingPlaces DEF Gone, Working
<1>1. CASE Connects(list[n][i]) /\ Ask(n, list[n][i], "get_predecessor", 0, "stPred")
  <2>1. list[n][i] \in Node /\ "stPred" \in Waiting
    BY <1>1, WaitingValues DEF Connects
  <2> QED BY <1>0, <1>1, <2>1, AskStep, WaitsForValues
<1>2. CASE pc' = [pc EXCEPT ![n] = "scan"] /\ UNCHANGED call
  <2>1. Same(n) /\ find'[n] = find[n] /\ call'[n] = call[n] /\ pc'[n] = "scan"
    BY <1>2 DEF Same, TypeOK
  <2>2. pc'[n] \notin Waiting /\ pc'[n] \notin Working
    BY <2>1, WaitingPlaces DEF Working
  <2> QED BY <1>0, <2>1, <2>2, MoveKeeps
<1>3. CASE Die(n)
  BY <1>3, DieStep
<1>4. CASE pc' = [pc EXCEPT ![n] = "hung"] /\ UNCHANGED call
  <2>1. Same(n) /\ find'[n] = find[n] /\ call'[n] = call[n] /\ pc'[n] = "hung"
    BY <1>4 DEF Same, TypeOK
  <2>2. pc'[n] \notin Waiting /\ pc'[n] \in Gone
    BY <2>1, WaitingPlaces DEF Gone
  <2> QED BY <1>0, <2>1, <2>2, MoveKeeps
<1> QED BY <1>1, <1>2, <1>3, <1>4 DEF TryPredecessor

\* A call sent while stabilize or the join goes from one answer to the next.
LEMMA NextCallStep ==
  ASSUME TypeOK, Bookkeeping, NEW n \in Node, NEW m, NEW rpc, NEW where,
         NEW old \in Waiting \ {"findWait"}, Answered(n, old), UNCHANGED find,
         where \in Waiting \ {"findWait"}, rpc = WaitsFor[where],
         \/ Connects(m) /\ Ask(n, m, rpc, 0, where)
         \/ Die(n)
  PROVE  Bookkeeping'
<1>0. pc[n] \in Waiting /\ pc[n] \notin Gone /\ pc[n] \notin Working
      /\ call[n].phase = "replied"
  BY WaitingPlaces DEF Answered, Gone, Working
<1>1. CASE Connects(m) /\ Ask(n, m, rpc, 0, where)
  BY <1>0, <1>1, AskStep DEF Connects
<1>2. CASE Die(n)
  BY <1>2, DieStep
<1> QED BY <1>1, <1>2

\* n has its last answer and goes back to its loop.
LEMMA DoneStep ==
  ASSUME TypeOK, Bookkeeping, NEW n \in Node, NEW old \in Waiting \ {"findWait"},
         Answered(n, old), UNCHANGED find,
         pc' = [pc EXCEPT ![n] = "idle"], call' = [call EXCEPT ![n] = NoCall]
  PROVE  Bookkeeping'
<1>1. call[n].phase # "accepted" /\ pc[n] \notin Gone
  BY WaitingPlaces DEF Answered, Gone
<1>2. ~\E c \in Node : WorksFor(n, c)
  BY WaitingPlaces DEF Answered, WorksFor
<1>3. Same(n) /\ pc'[n] = "idle" /\ call'[n] = NoCall
  BY DEF Same, TypeOK
<1> QED BY <1>1, <1>2, <1>3, DoneKeeps

\* n starts a search for itself (fixFingers, the user's Lookup).
LEMMA SearchStep ==
  ASSUME TypeOK, Bookkeeping, NEW n \in Node, NEW for, NEW target, pc[n] = "idle",
         EnterFind(n, for, Empty, target), for # "serve", UNCHANGED call
  PROVE  Bookkeeping'
<1>1. Same(n) /\ pc'[n] = "find" /\ find'[n].for # "serve" /\ call'[n] = call[n]
  BY DEF EnterFind, Same, TypeOK
<1> QED BY <1>1, SearchKeeps

\* Every action of one node keeps the bookkeeping.
LEMMA BookkeepingAction ==
  ASSUME TypeOK, Bookkeeping, NEW n \in Node, NEW c \in Node,
         \/ Continue(n) \/ StabilizeTimer(n) \/ FixFingers(n)
         \/ CheckPredecessor(n) \/ Serve(n, c) \/ Join(n, c)
         \/ (\E key \in Key[n] : Lookup(n, key)) \/ Kill(n)
  PROVE  Bookkeeping'
<1>e. {"joinFind", "joinList", "stPred", "stList", "stList2", "stNotify", "check"}
        \subseteq Waiting \ {"findWait"}
  BY WaitingValues
<1>1. CASE JoinFound(n)
  BY <1>1, <1>e, NextCallStep, WaitsForValues DEF JoinFound
<1>2. CASE JoinDone(n)
  BY <1>2, <1>e, DoneStep DEF JoinDone
<1>3. CASE StabilizeNext(n)
  BY <1>3, TryPredecessorStep DEF StabilizeNext
<1>4. CASE GotPredecessor(n)
  BY <1>4, <1>e, NextCallStep, WaitsForValues DEF GotPredecessor
<1>5. CASE GotList(n)
  <2> DEFINE new == Adopt(list[n][at[n].i], call[n].list)
  <2>1. Answered(n, "stList") /\ UNCHANGED find
    BY <1>5 DEF GotList
  <2>2. CASE Connects(at[n].p) /\ Ask(n, at[n].p, "get_successor_list", 0, "stList2")
    BY <1>e, <2>1, <2>2, NextCallStep, WaitsForValues
  <2>3. CASE Notify(n, new[0])
    BY <1>e, <2>1, <2>3, NextCallStep, WaitsForValues DEF Notify
  <2> QED BY <1>5, <2>2, <2>3 DEF GotList
<1>6. CASE GotListOfPredecessor(n)
  BY <1>6, <1>e, NextCallStep, WaitsForValues DEF GotListOfPredecessor, Notify
<1>7. CASE Notified(n)
  BY <1>7, <1>e, DoneStep DEF Notified
<1>8. CASE FindHere(n)
  BY <1>8, ReturnStep DEF FindHere
<1>9. CASE FindElsewhere(n)
  BY <1>9, ForwardStep DEF FindElsewhere
<1>10. CASE FindAgain(n)
  BY <1>10, ForwardStep DEF FindAgain
<1>11. CASE Found(n)
  BY <1>11, ReturnStep DEF Found
<1>12. CASE PredecessorChecked(n)
  BY <1>12, <1>e, DoneStep DEF PredecessorChecked
<1>13. CASE CalleeGone(n)
  <2>1. \A x \in Node \ {n} : find'[x] = find[x]
    BY <1>13 DEF CalleeGone, TypeOK
  <2>2. CASE Die(n)
    BY <2>1, <2>2, DieStep
  <2>3. CASE pc' = [pc EXCEPT ![n] = "hung"] /\ call' = [call EXCEPT ![n] = NoCall]
    <3>1. Same(n) /\ pc'[n] = "hung" /\ call'[n] = NoCall
      BY <2>1, <2>3 DEF Same, TypeOK
    <3>2. ~\E m \in Node : WorksFor(m, n)
      BY <1>13, WaitingPlaces
      DEF CalleeGone, Connects, Bookkeeping, ServedIsWaiting, WorksFor
    <3> QED BY <3>1, <3>2, HangKeeps
  <2> QED BY <1>13, <2>2, <2>3 DEF CalleeGone
<1>14. CASE StabilizeAlone(n)
  BY <1>14 DEF StabilizeAlone, Bookkeeping, BlockedInItsCall, AcceptedIsServed,
               ServedIsWaiting, Callees, WorksFor
<1>15. CASE Stabilize(n)
  BY <1>15, TryPredecessorStep DEF Stabilize
<1>16. CASE FixFingers(n)
  BY <1>16, SearchStep DEF FixFingers
<1>17. CASE CheckPredecessor(n)
  <2>1. CASE Connects(prede[n]) /\ Ask(n, prede[n], "check_predecessor", 0, "check")
    <3>1. pc[n] \notin Waiting /\ pc[n] \notin Gone /\ pc[n] \notin Working
      BY <1>17, WaitingPlaces DEF CheckPredecessor, Gone, Working
    <3>2. prede[n] \in Node /\ UNCHANGED find
      BY <1>17, <2>1 DEF CheckPredecessor, Connects
    <3> QED BY <1>e, <2>1, <3>1, <3>2, AskStep, WaitsForValues
  <2>2. CASE UNCHANGED <<pc, call, find>>
    BY <2>2 DEF Bookkeeping, BlockedInItsCall, AcceptedIsServed,
                ServedIsWaiting, Callees, WorksFor
  <2> QED BY <1>17, <2>1, <2>2 DEF CheckPredecessor
<1>18. CASE ServeFindSuccessor(n, c)
  <2>1. /\ pc[n] = "idle" /\ call[c].to = n /\ call[c].phase = "queued"
        /\ call[c].rpc = "find_successor"
    BY <1>18 DEF ServeFindSuccessor, Accept
  <2>2. /\ pc'[n] = "find" /\ find'[n].for = "serve" /\ find'[n].client = c
        /\ find'[n].target = call[c].arg
        /\ \A x \in Node \ {n} : pc'[x] = pc[x] /\ find'[x] = find[x]
    BY <1>18 DEF ServeFindSuccessor, EnterFind, TypeOK
  <2>3. /\ call'[c] = [call[c] EXCEPT !.phase = "accepted"]
        /\ \A x \in Node \ {c} : call'[x] = call[x]
    BY <1>18 DEF ServeFindSuccessor, TypeOK
  <2>4. ASSUME NEW k \in Calls
        PROVE  LET e == [k EXCEPT !.phase = "accepted"]
               IN e.to = k.to /\ e.rpc = k.rpc /\ e.arg = k.arg /\ e.phase = "accepted"
    BY DEF Calls
  <2>5. /\ call'[c].to = n /\ call'[c].phase = "accepted"
        /\ call'[c].rpc = "find_successor" /\ call'[c].arg = call[c].arg
    BY <2>1, <2>3, <2>4 DEF TypeOK
  <2> QED BY <2>1, <2>2, <2>3, <2>5, AcceptKeeps
<1>19. CASE ServeGetSuccessorList(n, c)
  BY <1>19, ReplyStep DEF ServeGetSuccessorList
<1>20. CASE ServeGetPredecessor(n, c)
  BY <1>20, ReplyStep DEF ServeGetPredecessor
<1>21. CASE ServeNotify(n, c)
  BY <1>21, ReplyStep DEF ServeNotify
<1>22. CASE ServeCheckPredecessor(n, c)
  BY <1>22, ReplyStep DEF ServeCheckPredecessor
<1>23. CASE Join(n, c)
  <2>1. pc[n] \notin Waiting /\ pc[n] \notin Gone /\ pc[n] \notin Working
    BY <1>23, WaitingPlaces DEF Join, Gone, Working
  <2> QED BY <1>e, <1>23, <2>1, AskStep, WaitsForValues DEF Join
<1>24. CASE \E key \in Key[n] : Lookup(n, key)
  BY <1>24, SearchStep DEF Lookup
<1>25. CASE Kill(n)
  <2>1. \A x \in Node \ {n} : find'[x] = find[x]
    BY <1>25 DEF Kill, TypeOK
  <2> QED BY <1>25, <2>1, DieStep DEF Kill
<1> QED BY <1>1, <1>2, <1>3, <1>4, <1>5, <1>6, <1>7, <1>8, <1>9, <1>10, <1>11, <1>12, <1>13, <1>14, <1>15, <1>16, <1>17, <1>18, <1>19, <1>20, <1>21, <1>22, <1>23, <1>24, <1>25
     DEF Continue, StabilizeTimer, Serve

-----------------------------------------------------------------------------
(* What stabilize remembers *)

LEMMA BetweenIsAnother ==
  ASSUME NEW a \in Nat, NEW b \in Nat PROVE ~Between(a, a, b)
BY DEF Between

Talking == {"stPred", "stList", "stList2", "stNotify"}

\* A step of n leaves what the others remember alone.
LEMMA LinksOfOne ==
  ASSUME StabilizeLinks, NEW n \in Node,
         \A x \in Node \ {n} : /\ pc'[x] = pc[x] /\ at'[x] = at[x] /\ list'[x] = list[x]
                               /\ pc[x] # "crashed" => call'[x].to = call[x].to,
         /\ pc'[n] \in {"stPred", "stList"} =>
              at'[n].i < R /\ call'[n].to = list'[n][at'[n].i]
         /\ pc'[n] = "stList2" => call'[n].to = at'[n].p /\ at'[n].p # n
         /\ pc'[n] = "stNotify" => call'[n].to # n
  PROVE  StabilizeLinks'
BY DEF StabilizeLinks

LEMMA LinksElsewhere ==
  ASSUME StabilizeLinks, NEW n \in Node, pc'[n] \notin Talking,
         \A x \in Node \ {n} : /\ pc'[x] = pc[x] /\ at'[x] = at[x] /\ list'[x] = list[x]
                               /\ pc[x] # "crashed" => call'[x].to = call[x].to
  PROVE  StabilizeLinks'
BY LinksOfOne DEF Talking

LEMMA TryPredecessorLinks ==
  ASSUME TypeOK, StabilizeLinks, NEW n \in Node, NEW i \in 0..R, TryPredecessor(n, i)
  PROVE  StabilizeLinks'
<1>1. CASE /\ i < R /\ Ask(n, list[n][i], "get_predecessor", 0, "stPred")
           /\ at' = [at EXCEPT ![n] = [i |-> i, p |-> Empty]]
           /\ UNCHANGED list
  <2>1. at'[n].i = i /\ \A x \in Node \ {n} : at'[x] = at[x]
    BY <1>1 DEF TypeOK
  <2> QED BY <1>1, <2>1, AskFields, LinksOfOne
<1>2. CASE /\ list'   = [list EXCEPT ![n] = ClearList(@, list[n][i], InList(i))]
           /\ at' = [at EXCEPT ![n] = [i |-> i + 1, p |-> Empty]]
           /\ pc' = [pc EXCEPT ![n] = "scan"]
           /\ UNCHANGED call
  BY <1>2, LinksElsewhere DEF TypeOK, Talking
<1>3. CASE Die(n) /\ UNCHANGED <<list, at>>
  BY <1>3, DieFields, LinksElsewhere DEF Talking
<1>4. CASE pc' = [pc EXCEPT ![n] = "hung"] /\ UNCHANGED <<call, list, at>>
  BY <1>4, LinksElsewhere DEF TypeOK, Talking
<1> QED BY <1>1, <1>2, <1>3, <1>4 DEF TryPredecessor

LEMMA NotifyLinks ==
  ASSUME TypeOK, StabilizeLinks, NEW n \in Node, NEW s, s # n, Notify(n, s),
         \A x \in Node \ {n} : at'[x] = at[x] /\ list'[x] = list[x]
  PROVE  StabilizeLinks'
<1>1. CASE Ask(n, s, "notify", 0, "stNotify")
  BY <1>1, AskFields, LinksOfOne
<1>2. CASE Die(n)
  BY <1>2, DieFields, LinksElsewhere DEF Talking
<1> QED BY <1>1, <1>2 DEF Notify

LEMMA LinksAction ==
  ASSUME CallInv, NEW n \in Node, NEW c \in Node,
         \/ Continue(n) \/ StabilizeTimer(n) \/ FixFingers(n)
         \/ CheckPredecessor(n) \/ Serve(n, c) \/ Join(n, c)
         \/ (\E key \in Key[n] : Lookup(n, key)) \/ Kill(n)
  PROVE  StabilizeLinks'
<1> USE DEF CallInv
<1>d. ASSUME Die(n), \A x \in Node \ {n} : at'[x] = at[x] /\ list'[x] = list[x]
      PROVE  StabilizeLinks'
  BY <1>d, DieFields, LinksElsewhere DEF Talking
<1>r. ASSUME NEW rpc, NEW v, NEW l, Accept(n, c, rpc), Reply(n, c, v, l),
             UNCHANGED <<pc, find, at, list>>
      PROVE  StabilizeLinks'
  <2>1. c # n /\ call[c].to = n /\ pc[n] = "idle"
    BY <1>r, ReplyStep DEF Accept
  <2>2. \A x \in Node \ {n} : pc[x] # "crashed" => call'[x].to = call[x].to
    BY <1>r, <2>1, ReplyFields
  <2> QED BY <1>r, <2>1, <2>2, LinksElsewhere DEF Talking
<1>f. ASSUME NEW s, Return(n, s), pc[n] = "find" \/ Answered(n, "findWait")
      PROVE  StabilizeLinks'
  <2>1. /\ pc'[n] = "idle" /\ at' = at /\ list' = list
        /\ \A x \in Node \ {n} : pc'[x] = pc[x]
    BY <1>f DEF Return, TypeOK
  <2>2. \A x \in Node \ {n} : pc[x] # "crashed" => call'[x].to = call[x].to
    <3>1. CASE call' = [call EXCEPT ![n] = NoCall]
      BY <3>1 DEF TypeOK
    <3>2. CASE Reply(n, find[n].client, s, NoList)
      <4>1. TAKE x \in Node \ {n}
      <4>2. CASE x = find[n].client
        BY <3>2, <4>2, ReplyFields
      <4>3. CASE x # find[n].client
        BY <3>2, <4>3 DEF Reply, TypeOK
      <4> QED BY <4>2, <4>3
    <3> QED BY <1>f, <3>1, <3>2 DEF Return
  <2> QED BY <2>1, <2>2, LinksElsewhere DEF Talking
<1>g. ASSUME NEW place, Forward(n, place), UNCHANGED at
      PROVE  StabilizeLinks'
  <2>1. CASE UNCHANGED list /\ Ask(n, At(place, n, list[n], finger[n]), "find_successor",
                                   find[n].target, "findWait")
    BY <1>g, <2>1, AskFields, LinksElsewhere DEF Talking
  <2>2. CASE /\ list' = [list EXCEPT ![n] = ClearList(@, At(place, n, list[n], finger[n]), place)]
             /\ pc' = [pc EXCEPT ![n] = "retry"]
             /\ UNCHANGED call
    BY <1>g, <2>2, LinksElsewhere DEF Talking, TypeOK
  <2> QED BY <1>g, <2>1, <2>2 DEF Forward
<1>1. CASE JoinFound(n)
  <2>1. \A x \in Node \ {n} : at'[x] = at[x] /\ list'[x] = list[x]
    BY <1>1 DEF JoinFound, TypeOK
  <2>2. CASE Ask(n, call[n].node, "get_successor_list", 0, "joinList")
    BY <2>1, <2>2, AskFields, LinksElsewhere DEF Talking
  <2> QED BY <1>1, <1>d, <2>1, <2>2 DEF JoinFound
<1>2. CASE JoinDone(n)
  BY <1>2, LinksElsewhere DEF JoinDone, Talking, TypeOK
<1>3. CASE StabilizeNext(n)
  BY <1>3, TryPredecessorLinks DEF StabilizeNext, TypeOK
<1>4. CASE GotPredecessor(n)
  <2>1. /\ at'[n].i = at[n].i
        /\ \A x \in Node \ {n} : at'[x] = at[x] /\ list'[x] = list[x]
    BY <1>4 DEF GotPredecessor, TypeOK
  <2>2. at[n].i < R /\ list' = list
    BY <1>4 DEF GotPredecessor, Answered, StabilizeLinks
  <2>3. CASE Ask(n, list[n][at[n].i], "get_successor_list", 0, "stList")
    BY <2>1, <2>2, <2>3, AskFields, LinksOfOne
  <2> QED BY <1>4, <1>d, <2>1, <2>3 DEF GotPredecessor
<1>5. CASE GotList(n)
  <2> DEFINE new == Adopt(list[n][at[n].i], call[n].list)
  <2>1. at' = at /\ \A x \in Node \ {n} : at'[x] = at[x] /\ list'[x] = list[x]
    BY <1>5 DEF GotList, TypeOK
  <2>2. pc[n] = "stList" /\ call[n].phase = "replied"
    BY <1>5 DEF GotList, Answered
  <2>3. at[n].i \in Slots /\ call[n].list \in [Slots -> NodeOrEmpty]
        /\ list[n] \in [Slots -> NodeOrEmpty] /\ at[n].p \in NodeOrEmpty
    <3>1. at[n].i < R
      BY <2>2 DEF StabilizeLinks
    <3>2. at[n].i \in 0..R
      BY DEF TypeOK
    <3>3. /\ call[n].list \in [Slots -> NodeOrEmpty]
          /\ list[n] \in [Slots -> NodeOrEmpty] /\ at[n].p \in NodeOrEmpty
      BY DEF TypeOK, Calls
    <3>4. at[n].i \in Slots
      BY <3>1, <3>2, NodeAssumption
    <3> QED BY <3>3, <3>4
  <2>4. CASE /\ Between(at[n].p, n, new[at[n].i])
             /\ Ask(n, at[n].p, "get_successor_list", 0, "stList2")
    <3>1. new[at[n].i] \in NodeOrEmpty
      <4>1. list[n][at[n].i] \in NodeOrEmpty
        BY <2>3
      <4>2. new \in [Slots -> NodeOrEmpty]
        BY <2>3, <4>1, AdoptType
      <4> HIDE DEF new
      <4> QED BY <2>3, <4>2
    <3>2. n \in Nat /\ new[at[n].i] \in Nat
      <4>1. \A x \in NodeOrEmpty : x \in Nat
        BY NodeAssumption, EmptyIsNoNode
      <4>2. n \in NodeOrEmpty
        OBVIOUS
      <4> QED BY <3>1, <4>1, <4>2
    <3>3. ~Between(n, n, new[at[n].i])
      BY <3>2, BetweenIsAnother
    <3>4. at[n].p # n
      BY <2>4, <3>3
    <3> QED BY <2>1, <2>4, <3>4, AskFields, LinksOfOne
  <2>5. CASE Notify(n, new[0])
    <3>0. 0 \in Slots
      BY NodeAssumption
    <3>1. new[0] = list[n][at[n].i]
      BY <3>0 DEF Adopt
    <3>2. list[n][at[n].i] # n
      BY <2>2 DEF StabilizeLinks, Bookkeeping, Callees
    <3> QED BY <2>1, <2>5, <3>1, <3>2, NotifyLinks
  <2> QED BY <1>5, <2>4, <2>5 DEF GotList
<1>6. CASE GotListOfPredecessor(n)
  <2>1. at[n].p # n
    BY <1>6 DEF GotListOfPredecessor, Answered, StabilizeLinks
  <2>2. \A x \in Node \ {n} : at'[x] = at[x] /\ list'[x] = list[x]
    BY <1>6 DEF GotListOfPredecessor, TypeOK
  <2> QED BY <1>6, <2>1, <2>2, NotifyLinks DEF GotListOfPredecessor
<1>7. CASE Notified(n)
  BY <1>7, LinksElsewhere DEF Notified, Talking, TypeOK
<1>8. CASE FindHere(n)
  BY <1>8, <1>f DEF FindHere
<1>9. CASE FindElsewhere(n) \/ FindAgain(n)
  BY <1>9, <1>g DEF FindElsewhere, FindAgain
<1>10. CASE Found(n)
  BY <1>10, <1>f DEF Found
<1>11. CASE PredecessorChecked(n)
  BY <1>11, LinksElsewhere DEF PredecessorChecked, Talking, TypeOK
<1>12. CASE CalleeGone(n)
  <2>1. \A x \in Node \ {n} : at'[x] = at[x] /\ list'[x] = list[x]
    BY <1>12 DEF CalleeGone, TypeOK
  <2>2. CASE pc' = [pc EXCEPT ![n] = "hung"] /\ call' = [call EXCEPT ![n] = NoCall]
    BY <2>1, <2>2, LinksElsewhere DEF Talking, TypeOK
  <2> QED BY <1>12, <1>d, <2>1, <2>2 DEF CalleeGone
<1>13. CASE StabilizeAlone(n)
  <2>1. pc[n] = "idle"
    BY <1>13 DEF StabilizeAlone
  <2> QED BY <1>13, <2>1, LinksElsewhere DEF StabilizeAlone, Talking, TypeOK
<1>14. CASE Stabilize(n)
  BY <1>14, TryPredecessorLinks, NodeAssumption DEF Stabilize
<1>15. CASE FixFingers(n)
  BY <1>15, LinksElsewhere DEF FixFingers, EnterFind, Talking, TypeOK
<1>16. CASE CheckPredecessor(n)
  <2>1. CASE Ask(n, prede[n], "check_predecessor", 0, "check")
    BY <1>16, <2>1, AskFields, LinksElsewhere DEF CheckPredecessor, Talking
  <2>2. CASE UNCHANGED <<pc, call>>
    BY <1>16, <2>2 DEF CheckPredecessor, StabilizeLinks
  <2> QED BY <1>16, <2>1, <2>2 DEF CheckPredecessor
<1>17. CASE ServeFindSuccessor(n, c)
  <2>1. ASSUME NEW k \in Calls PROVE [k EXCEPT !.phase = "accepted"].to = k.to
    BY DEF Calls
  <2>2. \A x \in Node : call'[x].to = call[x].to
    BY <1>17, <2>1 DEF ServeFindSuccessor, TypeOK
  <2>3. pc'[n] = "find" /\ \A x \in Node \ {n} : pc'[x] = pc[x]
    BY <1>17 DEF ServeFindSuccessor, EnterFind, TypeOK
  <2> QED BY <1>17, <2>2, <2>3, LinksElsewhere DEF ServeFindSuccessor, Talking
<1>18. CASE \/ ServeGetSuccessorList(n, c) \/ ServeGetPredecessor(n, c)
            \/ ServeNotify(n, c) \/ ServeCheckPredecessor(n, c)
  BY <1>18, <1>r DEF ServeGetSuccessorList, ServeGetPredecessor, ServeNotify,
                     ServeCheckPredecessor
<1>19. CASE Join(n, c)
  BY <1>19, AskFields, LinksElsewhere DEF Join, Talking
<1>20. CASE \E key \in Key[n] : Lookup(n, key)
  BY <1>20, LinksElsewhere DEF Lookup, EnterFind, Talking, TypeOK
<1>21. CASE Kill(n)
  <2>1. \A x \in Node \ {n} : at'[x] = at[x] /\ list'[x] = list[x]
    BY <1>21 DEF Kill, TypeOK
  <2> QED BY <1>21, <1>d, <2>1 DEF Kill
<1> QED BY <1>1, <1>2, <1>3, <1>4, <1>5, <1>6, <1>7, <1>8, <1>9, <1>10, <1>11, <1>12, <1>13, <1>14, <1>15, <1>16, <1>17, <1>18, <1>19, <1>20, <1>21
     DEF Continue, StabilizeTimer, Serve

-----------------------------------------------------------------------------
(* The invariant *)

LEMMA PredecessorAction ==
  ASSUME CallInv, NEW n \in Node, NEW c \in Node,
         \/ Continue(n) \/ StabilizeTimer(n) \/ FixFingers(n)
         \/ CheckPredecessor(n) \/ Serve(n, c) \/ Join(n, c)
         \/ (\E key \in Key[n] : Lookup(n, key)) \/ Kill(n)
  PROVE  PredecessorIsAnother'
<1>1. CASE UNCHANGED prede
  BY <1>1 DEF CallInv, PredecessorIsAnother
<1>2. CASE CheckPredecessor(n)
  BY <1>2, EmptyIsNoNode DEF CheckPredecessor, CallInv, TypeOK, PredecessorIsAnother
<1>3. CASE ServeNotify(n, c)
  <2>1. c # n
    BY <1>3, ReplyStep DEF ServeNotify, CallInv
  <2> QED BY <1>3, <2>1 DEF ServeNotify, CallInv, TypeOK, PredecessorIsAnother
<1> QED BY <1>1, <1>2, <1>3
     DEF Continue, StabilizeTimer, Serve, FixFingers, Join, Lookup, Kill, JoinFound,
         JoinDone, StabilizeNext, GotPredecessor, GotList, GotListOfPredecessor,
         Notified, FindHere, FindElsewhere, FindAgain, Found, Return,
         PredecessorChecked, CalleeGone, StabilizeAlone, Stabilize,
         ServeFindSuccessor, ServeGetSuccessorList, ServeGetPredecessor,
         ServeCheckPredecessor

LEMMA CallInvInit == Init => CallInv
<1> SUFFICES ASSUME Init PROVE CallInv
  OBVIOUS
<1>1. TypeOK
  BY TypeInit
<1>2. \A n \in Node : /\ pc[n] \in {"idle", "off"} /\ call[n] = NoCall
                      /\ prede[n] = Empty
  BY DEF Init
<1>3. Bookkeeping
  BY <1>2, WaitingPlaces, NoCallFields, EmptyIsNoNode
  DEF Bookkeeping, BlockedInItsCall, AcceptedIsServed, ServedIsWaiting, Callees, WorksFor
<1>4. StabilizeLinks
  BY <1>2 DEF StabilizeLinks
<1>5. PredecessorIsAnother
  BY <1>2, EmptyIsNoNode DEF PredecessorIsAnother
<1> QED BY <1>1, <1>3, <1>4, <1>5 DEF CallInv

LEMMA CallInvStutters == CallInv /\ UNCHANGED vars => CallInv'
BY DEF vars, CallInv, TypeOK, Bookkeeping, BlockedInItsCall, AcceptedIsServed,
       ServedIsWaiting, Callees, WorksFor, StabilizeLinks, PredecessorIsAnother

LEMMA CallInvNext == CallInv /\ [Next]_vars => CallInv'
<1> SUFFICES ASSUME CallInv, Next PROVE CallInv'
  BY CallInvStutters
<1>1. PICK n \in Node, c \in Node :
        \/ Continue(n) \/ StabilizeTimer(n) \/ FixFingers(n)
        \/ CheckPredecessor(n) \/ Serve(n, c) \/ Join(n, c)
        \/ (\E key \in Key[n] : Lookup(n, key)) \/ Kill(n)
  BY DEF Next
<1>2. SlotExists
  BY DEF CallInv, StabilizeLinks, SlotExists
<1>3. TypeOK'
  BY <1>1, <1>2, TypeAction DEF CallInv
<1>4. Bookkeeping'
  BY <1>1, BookkeepingAction DEF CallInv
<1>5. StabilizeLinks'
  BY <1>1, LinksAction
<1>6. PredecessorIsAnother'
  BY <1>1, PredecessorAction
<1> QED BY <1>3, <1>4, <1>5, <1>6 DEF CallInv

\* The invariant everything below follows from.
THEOREM CallInvHolds == Spec => []CallInv
BY CallInvInit, CallInvNext, PTL DEF Spec

\* The variables keep their types: in particular stabilize's index stays
\* within the successor list wherever its entry is used after an answer
\* (chord.c:732-757), although the search for a successor may run past its end.
THEOREM TypeCorrect == Spec => []TypeOK
<1>1. CallInv => TypeOK
  BY DEF CallInv
<1> QED BY <1>1, CallInvHolds, PTL

\* No two nodes ever work for the same client, no accepted request is lost
\* while its server runs, and every answer reaches the caller that waits for
\* exactly that call (main's dispatch, chord.c:1103-1192), in rings of every
\* size and under any number of failures.
THEOREM CallsAreKept == Spec => []CallDiscipline
<1>1. CallInv => CallDiscipline
  BY DEF CallInv, Bookkeeping, CallDiscipline
<1> QED BY <1>1, CallInvHolds, PTL

\* A node never takes itself for its predecessor: a notify it sends to itself
\* is never served (chord.c:463-487, 786).
THEOREM PredecessorNeverSelf == Spec => []PredecessorIsAnother
<1>1. CallInv => PredecessorIsAnother
  BY DEF CallInv
<1> QED BY <1>1, CallInvHolds, PTL
=============================================================================
