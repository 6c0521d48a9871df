---------------------------- MODULE LookupService ----------------------------
(***************************************************************************)
(* What the nodes of assignment4 promise to the users who look up keys,    *)
(* without the messages between them: as long as no process has died, the  *)
(* ring only grows, and a lookup is atomic.  Its answer is the owner of    *)
(* the key at one moment between the question and the answer.              *)
(***************************************************************************)
EXTENDS Naturals

CONSTANTS Node,    \* the identifiers of the processes
          Key,     \* Key[n]: the keys the user of node n asks for
          Nobody   \* what is printed before an answer is there

VARIABLES ring,    \* the nodes on the ring
          failed,  \* whether a process has died: nothing is promised any more
          asking,  \* the nodes whose user waits for an answer
          lookup,  \* the last lookup of each node, and the ring when it was asked
          found    \* nodes that have owned the key since a node's user asked

vars == <<ring, failed, asking, lookup, found>>

First(S) == {s \in S : \A m \in S : s <= m}

\* The owner of a key: the first node at or after it, or else the first of all.
Owners(key) ==
  LET from == {m \in ring : key <= m}
  IN First(IF from = {} THEN ring ELSE from)

\* The answer is promised to nodes that were on the ring when they asked, for
\* keys that are nobody's identifier.
Promised(n) == n \in lookup[n].seen /\ lookup[n].key \notin Node

Init ==
  /\ \E n \in Node : ring = {n}
  /\ failed = FALSE
  /\ asking = {}
  /\ lookup = [n \in Node |-> [key |-> 0, node |-> Nobody, seen |-> {}]]
  /\ found = [n \in Node |-> {}]

\* The owner of n's key may be found at any moment.
Finds(n) == found'[n] \subseteq found[n] \cup Owners(lookup[n].key)

\* Nodes come onto the ring, possibly several at once.
Grow ==
  /\ ring \subseteq ring'
  /\ \A n \in Node : found'[n] \subseteq found[n]
  /\ UNCHANGED <<asking, lookup>>

Find ==
  /\ \A n \in Node : Finds(n)
  /\ UNCHANGED <<ring, asking, lookup>>

Ask(n, key) ==
  /\ n \notin asking
  /\ asking' = asking \cup {n}
  /\ lookup' = [lookup EXCEPT ![n] = [key |-> key, node |-> Nobody, seen |-> ring]]
  /\ found'[n] = {}
  /\ \A m \in Node \ {n} : Finds(m)
  /\ UNCHANGED ring

Answer(n, s) ==
  /\ n \in asking
  /\ Promised(n) => s \in found[n] \cup Owners(lookup[n].key)
  /\ asking' = asking \ {n}
  /\ lookup' = [lookup EXCEPT ![n].node = s]
  /\ \A m \in Node : Finds(m)
  /\ UNCHANGED ring

Next ==
  \/ failed'
  \/ /\ ~failed /\ ~failed'
     /\ found' \in [Node -> SUBSET Node]
     /\ \/ Grow \/ Find
        \/ \E n \in Node : \/ \E key \in Key[n] : Ask(n, key)
                           \/ \E s \in Node \cup {Nobody} : Answer(n, s)

Spec == Init /\ [][Next]_vars
=============================================================================
