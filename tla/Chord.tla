-------------------------------- MODULE Chord --------------------------------
(***************************************************************************)
(* The Chord node of assignment4/chord.c: single-threaded processes that   *)
(* call each other over TCP.  While a node waits for the answer to a call  *)
(* it serves nobody.  A step of the model is a stretch of main's loop      *)
(* between two points where another process can be observed: a connect, or *)
(* the arrival of an answer.  A connect succeeds exactly while the callee  *)
(* is alive, busy or not: the kernel completes it and queues the request.  *)
(***************************************************************************)
EXTENDS ChordId, FiniteSets

CONSTANTS
  Node,        \* the identifiers of the processes that may take part
  Creator,     \* the process started without --ja/--jp; the others join
  R,           \* -r, the length of the successor list
  M,           \* the number of fingers: 160 in the code
  FingerStart, \* FingerStart[n][k]: what addHashToPowerOfTwo gives for finger k
  Key,         \* the hashes the user of each node looks up
  Timers,      \* the periodic tasks whose period is short enough to expire
  MaxKills     \* bound: how many processes die from outside

ASSUME NodeAssumption ==
  /\ Node \subseteq Nat \ {Empty} /\ IsFiniteSet(Node) /\ Creator \in Node
  /\ R \in Nat \ {0} /\ M \in Nat \ {0} /\ MaxKills \in Nat
  /\ Key \in [Node -> SUBSET Nat]
  /\ FingerStart \in [Node -> [1..M -> Nat]]
  /\ Timers \subseteq {"stabilize", "fixFingers", "checkPredecessor"}

VARIABLES
  pc,      \* where a node's process is: Idle is the top of main's while(1)
  prede,   \* prede
  list,    \* successorList; *successor always equals its slot 0
  finger,  \* fingerTable
  next,    \* next, the finger repaired last
  call,    \* the call a node is blocked in, and its answer
  find,    \* the arguments and purpose of handleFindSuccessorRPC
  at,      \* stabilize's i and the predecessor its successor reported
  lookup,  \* the last Lookup a node's user made, and the answer printed
  kills    \* how many processes died from outside so far

vars == <<pc, prede, list, finger, next, call, find, at, lookup, kills>>

NodeOrEmpty == Node \cup {Empty}
Slots == 0..R-1
Fingers == 1..M
Places == {Self} \cup {InList(i) : i \in Slots} \cup {InFinger(k) : k \in Fingers}

NoList   == [i \in Slots |-> Empty]
NoFinger == [k \in Fingers |-> Empty]
NoFind   == [for |-> "none", client |-> Empty, target |-> 0]
NoAt     == [i |-> 0, p |-> Empty]
NoLookup == [key |-> 0, node |-> Empty, seen |-> {}]

Request(to, rpc, arg) ==
  [to |-> to, rpc |-> rpc, arg |-> arg, phase |-> "queued",
   node |-> Empty, list |-> NoList]
NoCall == [Request(Empty, "none", 0) EXCEPT !.phase = "none"]

\* Where a node waits for an answer, and to which call.
WaitsFor ==
  [joinFind |-> "find_successor", joinList |-> "get_successor_list",
   stPred   |-> "get_predecessor", stList  |-> "get_successor_list",
   stList2  |-> "get_successor_list", stNotify |-> "notify",
   findWait |-> "find_successor", check |-> "check_predecessor"]
Waiting == DOMAIN WaitsFor

PC == Waiting \cup {"off", "idle", "scan", "find", "retry", "hung", "crashed"}

-----------------------------------------------------------------------------
(* What the ring looks like: used by the history kept of a lookup and by the
   properties, never by the code. *)

Members == {n \in Node : pc[n] \notin {"off", "joinFind", "joinList", "crashed"}}

\* The nodes reached from n by following successorList[0] at least once.
Reached(n) ==
  LET members == Members
      step[k \in 0..Cardinality(Node)] ==
        IF k = 0 THEN {list[n][0]}
        ELSE LET S == step[k-1] IN S \cup {list[m][0] : m \in S \cap members}
  IN step[Cardinality(Node)]

OnRing == {n \in Members : n \in Reached(n)}

-----------------------------------------------------------------------------
(* Connections *)

Connects(m) == m \in Node /\ pc[m] \notin {"off", "crashed"}

\* n has connected to m, sent its request and blocks in read_n_bytes.
Ask(n, m, rpc, arg, where) ==
  /\ pc'   = [pc EXCEPT ![n] = where]
  /\ call' = [call EXCEPT ![n] = Request(m, rpc, arg)]

\* Mutant: goes on without having read the answer.
Answered_Unread(n, where) == pc[n] = where

\* The answer to n's call is there, and n waits for it at `where'.
Answered(n, where) == pc[n] = where /\ call[n].phase = "replied"

\* Process n is gone.  What it sent and nobody has accepted yet stays in the
\* callee's queue and will be served as if it were alive.  (Only a notify or a
\* find_successor makes a difference to the callee then.)
Die(n) ==
  /\ pc'   = [pc EXCEPT ![n] = "crashed"]
  /\ call' = [call EXCEPT ![n] =
                IF @.phase = "queued" /\ @.rpc \in {"notify", "find_successor"}
                THEN @ ELSE NoCall]

\* Mutant: answers only the calls that ask for a list.
Reply_OnlyLists(n, c, node, nodes) ==
  call' = [call EXCEPT ![n] = NoCall,
                       ![c] = IF pc[c] = "crashed" THEN NoCall
                              ELSE IF @.rpc # "get_successor_list" THEN @
                              ELSE [@ EXCEPT !.phase = "replied", !.node = node,
                                             !.list = nodes]]

\* sendReturnRPC to c, which a dead client does not receive.  n itself is
\* not (or no longer) blocked in a call.
Reply(n, c, node, nodes) ==
  call' = [call EXCEPT ![n] = NoCall,
                       ![c] = IF pc[c] = "crashed" THEN NoCall
                              ELSE [@ EXCEPT !.phase = "replied", !.node = node,
                                             !.list = nodes]]

-----------------------------------------------------------------------------
(* main: create a ring or join one *)

Init ==
  /\ pc     = [n \in Node |-> IF n = Creator THEN "idle" ELSE "off"]
  /\ prede  = [n \in Node |-> Empty]
  /\ list   = [n \in Node |-> IF n = Creator THEN [i \in Slots |-> n] ELSE NoList]
  /\ finger = [n \in Node |-> IF n = Creator THEN [k \in Fingers |-> n] ELSE NoFinger]
  /\ next   = [n \in Node |-> 0]
  /\ call   = [n \in Node |-> NoCall]
  /\ find   = [n \in Node |-> NoFind]
  /\ at     = [n \in Node |-> NoAt]
  /\ lookup = [n \in Node |-> NoLookup]
  /\ kills  = 0

\* A process is started with the address of b, which is up: its listening
\* socket exists from here on, although it serves nobody before it has joined.
Join(n, b) ==
  /\ pc[n] = "off"
  /\ Connects(b)
  /\ Ask(n, b, "find_successor", n, "joinFind")
  /\ UNCHANGED <<prede, list, finger, next, find, at, lookup, kills>>

\* The successor is known.  The socket of the second call is not checked:
\* the process dies if that node is gone, or if the answer was a zeroed node.
JoinFound(n) ==
  /\ Answered(n, "joinFind")
  /\ LET s == call[n].node IN
       /\ list' = [list EXCEPT ![n][0] = s]
       /\ IF Connects(s) THEN Ask(n, s, "get_successor_list", 0, "joinList")
                         ELSE Die(n)
  /\ UNCHANGED <<prede, finger, next, find, at, lookup, kills>>

\* Mutant: copies the whole list behind its new first entry.
Adopt_TooMany(first, l) == [i \in 0..R |-> IF i = 0 THEN first ELSE l[i-1]]

\* first followed by all but the last of another node's list.
Adopt(first, l) == [i \in Slots |-> IF i = 0 THEN first ELSE l[i-1]]

\* Mutant: initializes the list as for a new ring after the join.
JoinDone_NewRing(n) ==
  /\ Answered(n, "joinList")
  /\ list' = [list EXCEPT ![n] = [i \in Slots |-> n]]
  /\ pc'   = [pc EXCEPT ![n] = "idle"]
  /\ call' = [call EXCEPT ![n] = NoCall]
  /\ UNCHANGED <<prede, finger, next, find, at, lookup, kills>>

JoinDone(n) ==
  /\ Answered(n, "joinList")
  /\ list' = [list EXCEPT ![n] = Adopt(list[n][0], call[n].list)]
  /\ pc'   = [pc EXCEPT ![n] = "idle"]
  /\ call' = [call EXCEPT ![n] = NoCall]
  /\ UNCHANGED <<prede, finger, next, find, at, lookup, kills>>

-----------------------------------------------------------------------------
(* stabilize *)

\* Slot 0 is the node itself: take the predecessor, if there is one, as the
\* successor.  No call is made.
StabilizeAlone(n) ==
  /\ pc[n] = "idle" /\ "stabilize" \in Timers
  /\ list[n][0] = n
  /\ prede[n] # Empty /\ Between(prede[n], n, list[n][0])
  /\ list' = [list EXCEPT ![n] = Adopt(prede[n], list[n])]
  /\ UNCHANGED <<pc, prede, finger, next, call, find, at, lookup, kills>>

\* One turn of the loop that looks for a successor to connect to.  Beyond the
\* end of the list the code reads whatever follows the array: the process
\* dies, or connects to something that never answers.
TryPredecessor(n, i) ==
  \/ /\ i < R /\ Connects(list[n][i])
     /\ Ask(n, list[n][i], "get_predecessor", 0, "stPred")
     /\ at' = [at EXCEPT ![n] = [i |-> i, p |-> Empty]]
     /\ UNCHANGED <<list, finger>>
  \/ /\ i < R /\ ~Connects(list[n][i])
     /\ list'   = [list EXCEPT ![n] = ClearList(@, list[n][i], InList(i))]
     /\ finger' = [finger EXCEPT ![n] = ClearFinger(@, list[n][i], InList(i), M)]
     /\ at' = [at EXCEPT ![n] = [i |-> i + 1, p |-> Empty]]
     /\ pc' = [pc EXCEPT ![n] = "scan"]
     /\ UNCHANGED call
  \/ /\ i = R
     /\ \/ Die(n)
        \/ pc' = [pc EXCEPT ![n] = "hung"] /\ UNCHANGED call
     /\ UNCHANGED <<list, finger, at>>

\* Mutant: does not notice that the node is alone.
Stabilize_Alone(n) ==
  /\ pc[n] = "idle" /\ "stabilize" \in Timers
  /\ TryPredecessor(n, 0)
  /\ UNCHANGED <<prede, next, find, lookup, kills>>

\* Mutant: leaves stabilize when the successor cannot be reached.
Stabilize_GivesUp(n) ==
  /\ pc[n] = "idle" /\ "stabilize" \in Timers
  /\ list[n][0] # n /\ Connects(list[n][0])
  /\ TryPredecessor(n, 0)
  /\ UNCHANGED <<prede, next, find, lookup, kills>>

Stabilize(n) ==
  /\ pc[n] = "idle" /\ "stabilize" \in Timers
  /\ list[n][0] # n
  /\ TryPredecessor(n, 0)
  /\ UNCHANGED <<prede, next, find, lookup, kills>>

StabilizeNext(n) ==
  /\ pc[n] = "scan"
  /\ TryPredecessor(n, at[n].i)
  /\ UNCHANGED <<prede, next, find, lookup, kills>>

\* The socket of get_successor_list is not checked.
GotPredecessor(n) ==
  /\ Answered(n, "stPred")
  /\ at' = [at EXCEPT ![n] = [i |-> at[n].i, p |-> call[n].node]]
  /\ LET s == list[n][at[n].i] IN
       IF Connects(s) THEN Ask(n, s, "get_successor_list", 0, "stList")
                      ELSE Die(n)
  /\ UNCHANGED <<prede, list, finger, next, find, lookup, kills>>

\* sendNotifyRPC to s; its socket is not checked.
Notify(n, s) == IF Connects(s) THEN Ask(n, s, "notify", 0, "stNotify")
                               ELSE Die(n)

\* Mutant: takes any predecessor it is told about.
GotList_AnyPredecessor(n) ==
  /\ Answered(n, "stList")
  /\ LET new == Adopt(list[n][at[n].i], call[n].list)
         p   == at[n].p
     IN /\ list' = [list EXCEPT ![n] = new]
        /\ IF p # Empty /\ p # n /\ Connects(p)
           THEN Ask(n, p, "get_successor_list", 0, "stList2")
           ELSE Notify(n, new[0])
  /\ UNCHANGED <<prede, finger, next, find, at, lookup, kills>>

\* Mutant: never takes the successor's predecessor.
GotList_NoPredecessor(n) ==
  /\ Answered(n, "stList")
  /\ LET new == Adopt(list[n][at[n].i], call[n].list)
     IN list' = [list EXCEPT ![n] = new] /\ Notify(n, new[0])
  /\ UNCHANGED <<prede, finger, next, find, at, lookup, kills>>

\* The successor's list is adopted.  Then the successor's predecessor, if it
\* lies between, is asked for its list as well; a dead one is skipped.  The
\* code compares with slot i of the list it has just overwritten.
GotList(n) ==
  /\ Answered(n, "stList")
  /\ LET new == Adopt(list[n][at[n].i], call[n].list)
         p   == at[n].p
     IN /\ list' = [list EXCEPT ![n] = new]
        /\ IF p # Empty /\ Between(p, n, new[at[n].i]) /\ Connects(p)
           THEN Ask(n, p, "get_successor_list", 0, "stList2")
           ELSE Notify(n, new[0])
  /\ UNCHANGED <<prede, finger, next, find, at, lookup, kills>>

\* Mutant: takes its list and forgets to put the predecessor itself in front.
GotListOfPredecessor_NotFirst(n) ==
  /\ Answered(n, "stList2")
  /\ list' = [list EXCEPT ![n] = call[n].list]
  /\ Notify(n, at[n].p)
  /\ UNCHANGED <<prede, finger, next, find, at, lookup, kills>>

GotListOfPredecessor(n) ==
  /\ Answered(n, "stList2")
  /\ list' = [list EXCEPT ![n] = Adopt(at[n].p, call[n].list)]
  /\ Notify(n, at[n].p)
  /\ UNCHANGED <<prede, finger, next, find, at, lookup, kills>>

Notified(n) ==
  /\ Answered(n, "stNotify")
  /\ pc'   = [pc EXCEPT ![n] = "idle"]
  /\ call' = [call EXCEPT ![n] = NoCall]
  /\ at'   = [at EXCEPT ![n] = NoAt]
  /\ UNCHANGED <<prede, list, finger, next, find, lookup, kills>>

-----------------------------------------------------------------------------
(* handleFindSuccessorRPC: entered for a remote caller, for fixFingers and
   for the user's Lookup *)

EnterFind(n, for, client, target) ==
  /\ pc'   = [pc EXCEPT ![n] = "find"]
  /\ find' = [find EXCEPT ![n] = [for |-> for, client |-> client, target |-> target]]

Lookup(n, key) ==
  /\ pc[n] = "idle"
  /\ lookup' = [lookup EXCEPT ![n] = [key |-> key, node |-> Empty, seen |-> OnRing]]
  /\ EnterFind(n, "lookup", Empty, key)
  /\ UNCHANGED <<prede, list, finger, next, call, at, kills>>

NextFinger(k) == IF k + 1 > M THEN 1 ELSE k + 1

FixFingers(n) ==
  /\ pc[n] = "idle" /\ "fixFingers" \in Timers
  /\ next' = [next EXCEPT ![n] = NextFinger(next[n])]
  /\ EnterFind(n, "fix", Empty, FingerStart[n][NextFinger(next[n])])
  /\ UNCHANGED <<prede, list, finger, call, at, lookup, kills>>

\* Mutant: fills every finger up to the last one.
Covered_All(n, s) == next[n]..M

\* The fingers one answer s fills: the one asked for and those after it, as
\* long as they start between the node and s.
Covered(n, s) ==
  {k \in next[n]..M : \A j \in next[n]+1..k : Between(FingerStart[n][j], n, s)}

FillFingers(n, s) ==
  /\ finger' = [finger EXCEPT ![n] =
                  [k \in Fingers |-> IF k \in Covered(n, s) THEN s ELSE finger[n][k]]]
  /\ \E last \in Covered(n, s) :
       Highest(last, Covered(n, s)) /\ next' = [next EXCEPT ![n] = last]

\* handleFindSuccessorRPC returns s to whoever called it.
Return(n, s) ==
  /\ pc'   = [pc EXCEPT ![n] = "idle"]
  /\ find' = [find EXCEPT ![n] = NoFind]
  /\ \/ /\ find[n].for = "serve"
        /\ Reply(n, find[n].client, s, NoList)
        /\ UNCHANGED <<finger, next, lookup>>
     \/ /\ find[n].for = "fix"
        /\ FillFingers(n, s)
        /\ call' = [call EXCEPT ![n] = NoCall]
        /\ UNCHANGED lookup
     \/ /\ find[n].for = "lookup"
        /\ lookup' = [lookup EXCEPT ![n] =
                        [key |-> find[n].target, node |-> s, seen |-> lookup[n].seen]]
        /\ call' = [call EXCEPT ![n] = NoCall]
        /\ UNCHANGED <<finger, next>>
  /\ UNCHANGED <<prede, list, at, kills>>

\* Mutant: takes the successor for the owner when it lies before the target.
Owns_Behind(n, target) == Between(list[n][0], n, target) \/ n = list[n][0]

\* The target belongs to the successor, or the node is alone.
Owns(n, target) == Between(target, n, list[n][0]) \/ n = list[n][0]

\* sendFindSuccessorRPC to the node a place points at; a dead one is cleared.
Forward(n, place) ==
  LET m == At(place, n, list[n], finger[n]) IN
  \/ /\ Connects(m)
     /\ Ask(n, m, "find_successor", find[n].target, "findWait")
     /\ UNCHANGED <<list, finger>>
  \/ /\ ~Connects(m)
     /\ list'   = [list EXCEPT ![n] = ClearList(@, m, place)]
     /\ finger' = [finger EXCEPT ![n] = ClearFinger(@, m, place, M)]
     /\ pc'     = [pc EXCEPT ![n] = "retry"]
     /\ UNCHANGED call

ClosestPreceding(n, place) ==
  IsClosestPreceding(place, n, find[n].target, list[n], finger[n])

FindHere(n) ==
  /\ pc[n] = "find"
  /\ \/ Owns(n, find[n].target) /\ Return(n, list[n][0])
     \/ ~Owns(n, find[n].target) /\ ClosestPreceding(n, Self) /\ Return(n, n)

FindElsewhere(n) ==
  /\ pc[n] = "find"
  /\ ~Owns(n, find[n].target)
  /\ \E place \in Places \ {Self} : ClosestPreceding(n, place) /\ Forward(n, place)
  /\ UNCHANGED <<prede, next, find, at, lookup, kills>>

\* After a failed connect the place is computed again, and this time the node
\* itself is called like any other.
FindAgain(n) ==
  /\ pc[n] = "retry"
  /\ \E place \in Places : ClosestPreceding(n, place) /\ Forward(n, place)
  /\ UNCHANGED <<prede, next, find, at, lookup, kills>>

\* Mutant: takes the node that answered for its answer.
Found_Callee(n) == Answered(n, "findWait") /\ Return(n, call[n].to)

Found(n) ==
  /\ Answered(n, "findWait")
  /\ Return(n, call[n].node)

-----------------------------------------------------------------------------
(* checkPredecessor *)

CheckPredecessor(n) ==
  /\ pc[n] = "idle" /\ "checkPredecessor" \in Timers
  /\ prede[n] # Empty
  /\ IF Connects(prede[n])
     THEN Ask(n, prede[n], "check_predecessor", 0, "check") /\ UNCHANGED prede
     ELSE prede' = [prede EXCEPT ![n] = Empty] /\ UNCHANGED <<pc, call>>
  /\ UNCHANGED <<list, finger, next, find, at, lookup, kills>>

PredecessorChecked(n) ==
  /\ Answered(n, "check")
  /\ pc'   = [pc EXCEPT ![n] = "idle"]
  /\ call' = [call EXCEPT ![n] = NoCall]
  /\ UNCHANGED <<prede, list, finger, next, find, at, lookup, kills>>

-----------------------------------------------------------------------------
(* main: accept one connection and answer it *)

\* Mutant: serves before the join is complete.
Accept_WhileJoining(n, c, rpc) ==
  /\ pc[n] \in {"idle", "joinFind", "joinList"}
  /\ call[c].to = n /\ call[c].phase = "queued" /\ call[c].rpc = rpc

\* n takes c's connection, which carries a call of the given name.
Accept(n, c, rpc) ==
  /\ pc[n] = "idle"
  /\ call[c].to = n /\ call[c].phase = "queued" /\ call[c].rpc = rpc

ServeFindSuccessor(n, c) ==
  /\ Accept(n, c, "find_successor")
  /\ EnterFind(n, "serve", c, call[c].arg)
  /\ call' = [call EXCEPT ![c].phase = "accepted"]
  /\ UNCHANGED <<prede, list, finger, next, at, lookup, kills>>

ServeGetSuccessorList(n, c) ==
  /\ Accept(n, c, "get_successor_list")
  /\ Reply(n, c, Empty, list[n])
  /\ UNCHANGED <<pc, prede, list, finger, next, find, at, lookup, kills>>

ServeGetPredecessor(n, c) ==
  /\ Accept(n, c, "get_predecessor")
  /\ Reply(n, c, prede[n], NoList)
  /\ UNCHANGED <<pc, prede, list, finger, next, find, at, lookup, kills>>

\* The caller is a better predecessor than the present one.
Improves(n, c) == prede[n] = Empty \/ Between(c, prede[n], n)

\* Mutant: the caller sends its successor where it should send itself.
ServeNotify_Successor(n, c) ==
  /\ Accept(n, c, "notify")
  /\ prede' = IF Improves(n, c) THEN [prede EXCEPT ![n] = list[c][0]] ELSE prede
  /\ Reply(n, c, Empty, NoList)
  /\ UNCHANGED <<pc, list, finger, next, find, at, lookup, kills>>

ServeNotify(n, c) ==
  /\ Accept(n, c, "notify")
  /\ prede' = IF Improves(n, c) THEN [prede EXCEPT ![n] = c] ELSE prede
  /\ Reply(n, c, Empty, NoList)
  /\ UNCHANGED <<pc, list, finger, next, find, at, lookup, kills>>

ServeCheckPredecessor(n, c) ==
  /\ Accept(n, c, "check_predecessor")
  /\ Reply(n, c, Empty, NoList)
  /\ UNCHANGED <<pc, prede, list, finger, next, find, at, lookup, kills>>

Serve(n, c) ==
  \/ ServeFindSuccessor(n, c)
  \/ ServeGetSuccessorList(n, c)
  \/ ServeGetPredecessor(n, c)
  \/ ServeNotify(n, c)
  \/ ServeCheckPredecessor(n, c)

-----------------------------------------------------------------------------
(* Failures *)

\* A process dies from outside; its connections are reset or closed.
Kill(n) ==
  /\ kills < MaxKills
  /\ pc[n] \notin {"off", "crashed"}
  /\ Die(n)
  /\ find' = [find EXCEPT ![n] = NoFind]
  /\ at'   = [at EXCEPT ![n] = NoAt]
  /\ kills' = kills + 1
  /\ UNCHANGED <<prede, list, finger, next, lookup>>

\* The process that was to answer n is gone.  A reset makes recv fail, and n
\* goes on with an uninitialized length: it dies.  An orderly close makes recv
\* return 0, and read_n_bytes repeats it for ever.
CalleeGone(n) ==
  /\ pc[n] \in Waiting
  /\ call[n].phase \in {"queued", "accepted"}
  /\ ~Connects(call[n].to)
  /\ \/ Die(n)
     \/ /\ pc'   = [pc EXCEPT ![n] = "hung"]
        /\ call' = [call EXCEPT ![n] = NoCall]
  /\ find' = [find EXCEPT ![n] = NoFind]
  /\ at'   = [at EXCEPT ![n] = NoAt]
  /\ UNCHANGED <<prede, list, finger, next, lookup, kills>>

-----------------------------------------------------------------------------
\* What n does without waiting for a timer, a user or another process.
Continue(n) ==
  \/ JoinFound(n) \/ JoinDone(n)
  \/ StabilizeNext(n) \/ GotPredecessor(n) \/ GotList(n)
  \/ GotListOfPredecessor(n) \/ Notified(n)
  \/ FindHere(n) \/ FindElsewhere(n) \/ FindAgain(n) \/ Found(n)
  \/ PredecessorChecked(n)
  \/ CalleeGone(n)

StabilizeTimer(n) == StabilizeAlone(n) \/ Stabilize(n)

Next ==
  \E n \in Node :
    \/ Continue(n)
    \/ StabilizeTimer(n) \/ FixFingers(n) \/ CheckPredecessor(n)
    \/ \E c \in Node : Serve(n, c)
    \/ \E b \in Node : Join(n, b)
    \/ \E key \in Key[n] : Lookup(n, key)
    \/ Kill(n)

Spec == Init /\ [][Next]_vars

(***************************************************************************)
(* A process that can go on does.  accept takes connections in the order   *)
(* they were made, so a caller whose callee comes back to the top of its   *)
(* loop again and again is accepted in the end: strong fairness.  Every    *)
(* turn of the loop serves at most one request and then looks at the       *)
(* timers, and a task that has run is not due again before a second has    *)
(* passed (lines 46-57), so each task runs again and again while the loop  *)
(* turns: strong fairness too.  (Weak fairness is enough for what is       *)
(* checked where stabilize is the only task.)  Nobody has to join, look up *)
(* or die.                                                                 *)
(***************************************************************************)
Fairness ==
  /\ \A n \in Node :
       /\ WF_vars(Continue(n))
       /\ WF_vars(StabilizeTimer(n))
       /\ \A c \in Node \ {n} : SF_vars(Serve(n, c))
  /\ "fixFingers" \in Timers =>
       \A n \in Node : SF_vars(StabilizeTimer(n)) /\ SF_vars(FixFingers(n))
  /\ "checkPredecessor" \in Timers =>
       \A n \in Node : SF_vars(CheckPredecessor(n))

FairSpec == Spec /\ Fairness

-----------------------------------------------------------------------------
Calls == [to : NodeOrEmpty,
          rpc : {WaitsFor[w] : w \in Waiting} \cup {"none"},
          arg : Nat,
          phase : {"none", "queued", "accepted", "replied"},
          node : NodeOrEmpty, list : [Slots -> NodeOrEmpty]]

TypeOK ==
  /\ pc     \in [Node -> PC]
  /\ prede  \in [Node -> NodeOrEmpty]
  /\ list   \in [Node -> [Slots -> NodeOrEmpty]]
  /\ finger \in [Node -> [Fingers -> NodeOrEmpty]]
  /\ next   \in [Node -> 0..M]
  /\ call   \in [Node -> Calls]
  /\ find   \in [Node -> [for : {"none", "serve", "fix", "lookup"},
                          client : NodeOrEmpty, target : Nat]]
  /\ at     \in [Node -> [i : 0..R, p : NodeOrEmpty]]
  /\ lookup \in [Node -> [key : Nat, node : NodeOrEmpty, seen : SUBSET Node]]
  /\ kills  \in 0..MaxKills

-----------------------------------------------------------------------------
(* Calls *)

\* n is inside a call that has not been answered.
Blocked(n) == pc[n] # "crashed" /\ call[n].phase \in {"queued", "accepted"}

\* m works on c's find_successor.
WorksFor(m, c) ==
  /\ pc[m] \in {"find", "retry", "findWait"}
  /\ find[m].for = "serve" /\ find[m].client = c

\* A live node is in a call exactly where the code reads an answer, and in
\* the call that is sent there.  A dead one receives no answer.
BlockedInItsCall ==
  \A n \in Node :
    /\ pc[n] \in Waiting => call[n].phase # "none" /\ call[n].rpc = WaitsFor[pc[n]]
    /\ call[n].phase # "none" => pc[n] \in Waiting \cup {"crashed"}
    /\ pc[n] = "crashed" => call[n].phase # "replied"

\* An accepted call is being worked on by its callee, unless that process is
\* gone or stuck.
AcceptedIsServed ==
  \A c \in Node : call[c].phase = "accepted" =>
    WorksFor(call[c].to, c) \/ pc[call[c].to] \in {"hung", "crashed"}

\* What a callee works on is the very call its client is blocked in, unless
\* that client has died.
ServedIsWaiting ==
  \A m, c \in Node : WorksFor(m, c) =>
    \/ /\ call[c].to = m /\ call[c].phase = "accepted"
       /\ call[c].rpc = "find_successor" /\ call[c].arg = find[m].target
    \/ pc[c] = "crashed"

\* The bookkeeping between callers and callees (main, lines 1103-1192): no two
\* nodes ever work for the same client, no request is lost or answered twice,
\* and no answer reaches a caller that asked for something else.
CallDiscipline == BlockedInItsCall /\ AcceptedIsServed /\ ServedIsWaiting

\* The nodes n waits for: its callee, the callee's callee, and so on.
WaitChain(n) ==
  LET callee(S) == {call[m].to : m \in {k \in S \cap Node : Blocked(k)}}
      step[k \in 0..Cardinality(Node)] ==
        IF k = 0 THEN callee({n})
        ELSE LET S == step[k-1] IN S \cup callee(S)
  IN step[Cardinality(Node)]

\* Nodes that wait for each other in a circle: nobody will ever answer.
WaitCycle == \E n \in Node : n \in WaitChain(n)

\* n and the nodes that work on the lookup n is waiting for.
Workers(n) ==
  LET more(S) == {m \in Node : \E c \in S : call[c].to = m /\ WorksFor(m, c)}
      step[k \in 0..Cardinality(Node)] ==
        IF k = 0 THEN {n} ELSE LET S == step[k-1] IN S \cup more(S)
  IN step[Cardinality(Node)]

\* A lookup is never passed on to a node that already works on it, whatever
\* stale tables the nodes on its way choose the next one from (closetPrecedingNode,
\* chord.c:221-249): all of them are blocked until it has been answered.
NoLookupLoop ==
  kills = 0 => \A n \in Node : pc[n] = "findWait" =>
                 \A m \in Workers(n) : call[m].to # n

\* As long as nobody has died, no node calls itself and waits for its own
\* answer for ever.  (After a failure it can: StabilizeNext and FindAgain do
\* not compare the next candidate with the node itself.)
NoSelfCall == kills = 0 => \A n \in Node : call[n].to # n

\* As long as nobody is killed, no process dies, spins or meets a dead node
\* by itself: the sockets the code does not check (chord.c:732, 787, 1001) and
\* the zeroed slots of its tables never hurt.
NoSpontaneousFailure ==
  kills = 0 => \A n \in Node : pc[n] \notin {"hung", "crashed", "scan", "retry"}

\* Nobody ever takes itself for its predecessor, even after failures.
PredecessorIsAnother == \A n \in Node : prede[n] # n

-----------------------------------------------------------------------------
(* The ring while nobody has died *)

\* The members that follow their successors end up in one and the same circle.
OneRing ==
  kills = 0 => LET ring == OnRing
               IN ring # {} /\ \A n \in Members : ring \subseteq Reached(n)

\* The circle goes round the identifiers once: nobody on it is skipped.
RingOrdered ==
  kills = 0 => LET ring == OnRing
               IN \A n, m \in ring : m = n \/ ~Between(m, n, list[n][0])

\* p's successors lead to s, and the first of them has not passed it.
LeadsTo(p, s) == s \in Reached(p) /\ (list[p][0] = s \/ Between(list[p][0], p, s))

\* Whoever is somebody's predecessor leads to it along the successors, though
\* both have changed theirs since it sent its notify (chord.c:463-487); and so
\* does the predecessor that stabilize has been told about and carries through
\* two more calls (chord.c:756-801), to the successor it will be put in front of.
PredecessorLeadsOn ==
  kills = 0 => \A n \in Node :
    /\ prede[n] # Empty => LeadsTo(prede[n], n)
    /\ pc[n] \in {"stList", "stList2"} /\ at[n].p # Empty => LeadsTo(at[n].p, list[n][0])

\* A lookup by a node on the ring never skips a node that was on the ring when
\* it was asked, for keys that are nobody's identifier.  (A node that has joined
\* and that nobody on the ring has heard of may have a successor too far on.)
LookupNeverSkips ==
  kills = 0 => \A n \in Node :
    LET l == lookup[n] IN
    l.node # Empty /\ l.key \notin Node /\ n \in l.seen =>
      /\ l.node \in Members
      /\ \A m \in l.seen : m = l.node \/ ~Between(m, l.key, l.node)

\* The nodes whose user waits for the answer to a lookup.
Asking ==
  {n \in Node : pc[n] \in {"find", "retry", "findWait"} /\ find[n].for = "lookup"}

\* What the nodes that work on n's lookup have been answered so far, if n is a
\* node of the ring that looks up nobody's identifier.
Underway ==
  [n \in Node |->
     IF n \in Asking /\ n \in lookup[n].seen /\ find[n].target \notin Node
     THEN {call[c].node : c \in {k \in Workers(n) : call[k].phase = "replied"}}
     ELSE {}]

\* Lookups are atomic: seen through these definitions, the nodes do what
\* LookupService promises.  Every answer is the node that owned the key at one
\* moment between the question and the answer, although the lookup crosses
\* nodes whose successors change meanwhile and is answered with what a node had
\* found some time before (handleFindSuccessorRPC, chord.c:312-385).
Service == INSTANCE LookupService
             WITH ring <- OnRing, failed <- kills > 0, asking <- Asking,
                  found <- Underway, Nobody <- Empty
LookupsAtomic == Service!Spec

\* Stabilizing only moves the successor closer, whatever answers were stale
\* when they were used.
SuccessorOnlyCloser ==
  [][\A n \in Node : n \in Members /\ kills' = 0 /\ list'[n][0] # list[n][0] =>
       Between(list'[n][0], n, list[n][0])]_vars

-----------------------------------------------------------------------------
(* Progress *)

\* Every member's successor is the next member, and its predecessor the
\* previous one.
Ideal ==
  \A n, m \in Members :
    /\ m = n \/ ~Between(m, n, list[n][0])
    /\ list[n][0] = m /\ m # n => prede[m] = n

\* The members settle into the ideal ring, unless somebody dies or some of them
\* wait in a circle.
RingConverges == <>[]Ideal \/ <>WaitCycle \/ <>(kills > 0)

\* The member an identifier belongs to: the first one at or after it.
Owner(x) == CHOOSE m \in Members : \A k \in Members \ {m} : ~Between(k, x - 1, m)

\* Every finger comes to point at the owner of its start and stays there,
\* unless somebody dies or nodes wait in a circle.  (A start that is a member's own identifier
\* is left out: for such a target the member before it answers with itself.)
FingersConverge ==
  <>[](\A n \in Members, k \in Fingers :
         FingerStart[n][k] \notin Node =>
           finger[n][k] = Owner(FingerStart[n][k]))
  \/ <>WaitCycle \/ <>(kills > 0)

\* n is in the retry loop of handleFindSuccessorRPC and its next attempt is
\* the last finger, which is dead.  clearNode never clears that one (i < 160):
\* the loop calls the same dead node for ever.
RetriesLastFinger(n) ==
  /\ pc[n] = "retry" /\ ClosestPreceding(n, InFinger(M))
  /\ ~Connects(finger[n][M])

\* n will not come back to its loop: it is gone or spins, or it waits,
\* directly or not, for such a node or in a circle.
Stalled(n) ==
  \E m \in {n} \cup WaitChain(n) :
    pc[m] \in {"hung", "crashed"} \/ RetriesLastFinger(m) \/ m \in WaitChain(m)

SuccessorDead(n) ==
  n \in Members /\ list[n][0] \in Node /\ pc[list[n][0]] = "crashed"

\* A dead successor is given up (the point of keeping a list of them).
DeadSuccessorDropped ==
  \A n \in Node : SuccessorDead(n) ~> (~SuccessorDead(n) \/ Stalled(n))

\* The retry loop of handleFindSuccessorRPC ends, unless all that is left to
\* try is the last finger.
RetryEnds ==
  \A n \in Node : pc[n] = "retry" ~> (pc[n] # "retry" \/ RetriesLastFinger(n))

\* m's next step waits for nobody: it has its answer, searches, or is at the top
\* of its loop with a connection to accept.
Ready(m) ==
  \/ pc[m] \in {"scan", "find", "retry"}
  \/ pc[m] \in Waiting /\ call[m].phase = "replied"
  \/ pc[m] = "idle" /\ \E c \in Node : call[c].to = m /\ call[c].phase = "queued"

\* Circles are the only deadlock of processes that block in each other (a node
\* serves nobody while it waits, chord.c:79-93): whoever is blocked in a call
\* waits in the end for one that can go on, that is gone or spins, or that waits
\* in a circle, also after failures.
OnlyCyclesBlock ==
  \A n \in Node : Blocked(n) =>
    \E m \in WaitChain(n) :
      Ready(m) \/ pc[m] \in {"hung", "crashed"} \/ m \in WaitChain(m)

\* A call is answered, unless somebody has died or some nodes wait in a circle.
CallEndsOrCycle ==
  \A n \in Node : Blocked(n) ~> (~Blocked(n) \/ WaitCycle \/ kills > 0)

CallsTimeOut == \A n \in Node : Blocked(n) ~> ~Blocked(n)
=============================================================================
