----------------------------- MODULE RouterProofs -----------------------------
(***************************************************************************)
(* Proofs about the routers, for any configuration, any widths of the      *)
(* costs and any loss of datagrams: types, the use of a router's own       *)
(* links, and the loop-freedom of the tables until the second event set.   *)
(***************************************************************************)
EXTENDS Router, TLAPS, FiniteSetTheorems, WellFoundedInduction

-----------------------------------------------------------------------------
(* The inductive invariant. *)

\* A router that has dispatched nothing has no links and no routes.
Fresh ==
  \A n \in Node : pos[n] = 0 => \A m \in Node : links[n][m] = NoLink

FreshRoutes ==
  \A n \in Node : pos[n] = 0 => \A d \in Others(n) : rt[n][d] = Lost(d)

\* old_link never takes a link for none: it is 0 only before the first set.
LinksRecorded ==
  \A n, m \in Node : m # n =>
    /\ pos[n] = 0 => old_link[n][m] = 0
    /\ pos[n] > 0 => old_link[n][m] # 0
    /\ links[n][m] # NoLink => links[n][m] < Limit /\ links[n][m] % Byte # 0

NoLoop == \A n \in Node : links[n][n] = NoLink

LinkInv == Fresh /\ FreshRoutes /\ LinksRecorded /\ NoLoop /\ UsesOwnLinks

\* During the first event set:
FirstSet == \A n \in Node : pos[n] <= 1

\* no datagram has come from or to a router that has not started;
NothingYet ==
  \A n \in Node : pos[n] = 0 =>
    \A m \in Node : queue[n][m] = << >> /\ queue[m][n] = << >>

\* finite costs are far from wrapping, and those of direct routes are current;
Finite ==
  \A n \in Node : \A d \in Others(n) : rt[n][d].c # Infinity =>
    /\ rt[n][d].c < Limit + Byte
    /\ rt[n][d].nh = d => rt[n][d].c = links[n][d]

\* the costs in the datagrams under way fall, and the sender's are lower still;
Falling ==
  \A n, m \in Node : \A i \in 1..Len(queue[m][n]) : \A d \in Others(m) :
    queue[m][n][i][d] < Limit =>
      /\ rt[m][d].c <= queue[m][n][i][d]
      /\ \A j \in i..Len(queue[m][n]) : queue[m][n][j][d] <= queue[m][n][i][d]

\* and the next hop's cost is below that of the route over it, in its table
\* and in everything it has sent.
OverNextHop(n, h, d) ==
  /\ rt[h][d].c + old_link[n][h] <= rt[n][d].c
  /\ \A i \in 1..Len(queue[h][n]) :
       queue[h][n][i][d] + old_link[n][h] <= rt[n][d].c

Below ==
  \A n \in Node : \A d \in Others(n) :
    rt[n][d].c # Infinity /\ rt[n][d].nh # d => OverNextHop(n, rt[n][d].nh, d)

FirstInv == FirstSet => NothingYet /\ Finite /\ Falling /\ Below

IInv == TypeOK /\ LinkInv /\ FirstInv

-----------------------------------------------------------------------------
(* Types. *)

LEMMA Widths ==
  /\ Byte \in Nat /\ Byte > 1 /\ Wire \in Nat /\ Wide \in Nat /\ Limit \in Nat
  /\ Limit + Byte < Wire /\ Wire + Byte < Wide
  /\ Infinity \in Cost /\ Infinity % Wire >= Limit
BY RouterAssumption DEF RouterAssumption, Infinity, Cost

LEMMA ModuloRange ==
  ASSUME NEW a \in Int, NEW b \in Nat, b > 0
  PROVE  a % b \in 0..(b - 1)
OBVIOUS

\* An event leaves a link that is not there, one whose cost it has, or one it
\* does not touch; none concerns a node and itself.
LEMMA CostAfterFacts ==
  ASSUME TypeOK, NEW n \in Node, pos[n] < Len(Sets), NEW m \in Node,
         NEW new, new = CostAfter(n, pos[n] + 1, m)
  PROVE  /\ new \in Cost \cup {NoLink}
         /\ \/ new = links[n][m] \/ new = NoLink
            \/ new < Limit /\ new % Byte # 0
         /\ m = n => new = links[n][m]
<1> DEFINE k == pos[n] + 1
<1>1. k \in 1..Len(Sets) /\ links[n][m] \in Cost \cup {NoLink}
  BY RouterAssumption DEF TypeOK, RouterAssumption
<1>2. CASE On(k, {n, m}) = {}
  BY <1>1, <1>2 DEF CostAfter
<1>3. CASE On(k, {n, m}) # {}
  <2>1. PICK e \in On(k, {n, m}) : new = IF e.ev = "tear" THEN NoLink ELSE e.cost
    BY <1>3 DEF CostAfter
  <2>2. e \in Sets[k] /\ e.link = {n, m}
    BY <2>1 DEF On
  <2>3. e \in Event /\ e.cost < Limit /\ e.cost % Byte # 0
    BY <1>1, <2>2, RouterAssumption DEF RouterAssumption
  <2>4. e.cost \in Cost /\ e.link \in Link
    BY <2>3 DEF Event
  <2>5. m # n
    BY <2>2, <2>4 DEF Link
  <2> QED BY <2>1, <2>3, <2>4, <2>5
<1> QED BY <1>2, <1>3

LEMMA NewLinksType ==
  ASSUME TypeOK, NEW n \in Node, pos[n] < Len(Sets)
  PROVE  NewLinks(n) \in [Node -> Cost \cup {NoLink}]
BY CostAfterFacts DEF NewLinks

LEMMA RecordedType ==
  ASSUME NEW n \in Node, NEW new \in [Node -> Cost \cup {NoLink}]
  PROVE  Recorded(n, new) \in [Node -> 0..(Byte - 1)]
<1> SUFFICES ASSUME NEW m \in Node
             PROVE  Recorded(n, new)[m] \in 0..(Byte - 1)
  BY DEF Recorded
<1>1. CASE m = n \/ new[m] = NoLink
  BY <1>1, Widths DEF Recorded
<1>2. CASE m # n /\ new[m] # NoLink
  <2>1. new[m] \in Int
    BY <1>2 DEF Cost
  <2> QED BY <1>2, <2>1, ModuloRange, Widths DEF Recorded
<1> QED BY <1>1, <1>2

LEMMA CorrectedType ==
  ASSUME TypeOK, NEW n \in Node, NEW d \in Others(n),
         NEW new \in [Node -> Cost \cup {NoLink}]
  PROVE  Corrected(n, d, new) \in Route
<1> DEFINE h == rt[n][d].nh
<1>1. rt[n][d] \in Route /\ h \in Node /\ d \in Node /\ rt[n][d].c \in Int
  <2>1. rt[n] \in [Others(n) -> Route]
    BY DEF TypeOK
  <2>2. rt[n][d] \in Route
    BY <2>1
  <2> QED BY <2>2 DEF Route, Others, Cost
<1>2. Lost(d) \in Route /\ (new[d] # NoLink => Direct(d, new) \in Route)
  BY <1>1, Widths DEF Lost, Direct, Route
<1>3. [c |-> Shifted(n, d, new), nh |-> h] \in Route
  <2>1. rt[n][d].c - old_link[n][h] + new[h] \in Int
    <3>1. old_link[n][h] \in Int /\ new[h] \in Int
      <4>1. old_link[n] \in [Node -> 0..(Byte - 1)] /\ h \in Node
        BY <1>1 DEF TypeOK
      <4>2. new[h] \in Cost \cup {NoLink}
        BY <1>1
      <4> QED BY <4>1, <4>2 DEF Cost, NoLink
    <3> QED BY <1>1, <3>1
  <2>2. Shifted(n, d, new) \in 0..(Byte - 1)
    BY <2>1, ModuloRange, Widths DEF Shifted
  <2>3. Shifted(n, d, new) \in Cost
    BY <2>2, Widths DEF Cost
  <2> QED BY <1>1, <2>3 DEF Route
<1>4. DirectRoute(n, d, new) \in Route
  BY <1>1, <1>2 DEF DirectRoute
<1>5. IndirectRoute(n, d, new) \in Route
  BY <1>1, <1>2, <1>3 DEF IndirectRoute
<1> QED BY <1>4, <1>5 DEF Corrected

LEMMA AppendKeepsSeq ==
  ASSUME NEW S, NEW s \in Seq(S), NEW e \in S
  PROVE  Append(s, e) \in Seq(S)
OBVIOUS

\* What is left of a queue when its first datagram has been read.
LEMMA TailShifts ==
  ASSUME NEW S, NEW s \in Seq(S), s # << >>
  PROVE  /\ Len(Tail(s)) \in Nat /\ Len(Tail(s)) <= Len(s)
         /\ \A i \in 1..Len(Tail(s)) : i + 1 \in 1..Len(s) /\ Tail(s)[i] = s[i + 1]
OBVIOUS

LEMMA TableType ==
  ASSUME TypeOK, NEW n \in Node
  PROVE  Table(n) \in [Others(n) -> WireCost]
<1> SUFFICES ASSUME NEW d \in Others(n) PROVE rt[n][d].c % Wire \in WireCost
  BY DEF Table
<1>1. rt[n][d].c \in Int
  BY DEF TypeOK, Route, Cost
<1> QED BY <1>1, ModuloRange, Widths DEF WireCost

\* The sum of a cost from the wire and one from old_link does not wrap.
LEMMA ViaFacts ==
  ASSUME TypeOK, NEW n \in Node, NEW m \in Node, NEW table \in [Others(m) -> WireCost],
         NEW d \in Others(m)
  PROVE  /\ Via(n, m, table, d) = table[d] + old_link[n][m]
         /\ Via(n, m, table, d) \in Cost
         /\ Via(n, m, table, d) < Infinity
<1> DEFINE sum == table[d] + old_link[n][m]
<1>1. table[d] \in 0..(Wire - 1) /\ old_link[n][m] \in 0..(Byte - 1)
  BY DEF TypeOK, WireCost
<1>2. sum \in Nat /\ sum < Wide - 1
  BY <1>1, Widths
<1>3. sum % Wide = sum
  BY <1>2, Widths
<1> QED BY <1>2, <1>3, Widths DEF Via, Cost, Infinity

-----------------------------------------------------------------------------
(* What the actions do to each variable. *)

LEMMA DispatchFacts ==
  ASSUME TypeOK, NEW n \in Node, Dispatch(n)
  PROVE  /\ pos[n] < Len(Sets) /\ pos' = [pos EXCEPT ![n] = pos[n] + 1]
         /\ \A m \in Node : links'[n][m] = CostAfter(n, pos[n] + 1, m)
         /\ \A d \in Others(n) : rt'[n][d] = Corrected(n, d, NewLinks(n))
         /\ \A m \in Node : old_link'[n][m] = Recorded(n, NewLinks(n))[m]
         /\ \A k \in Others(n) : /\ links'[k] = links[k] /\ rt'[k] = rt[k]
                                 /\ old_link'[k] = old_link[k]
         /\ queue' = queue
BY DEF Dispatch, TypeOK, NewLinks, Others

LEMMA ReceiveFacts ==
  ASSUME TypeOK, NEW n \in Node, NEW m \in Others(n), Receive(n, m)
  PROVE  /\ HasLink(n, m) /\ queue[m][n] # << >>
         /\ queue'[m][n] = Tail(queue[m][n])
         /\ \A k, l \in Node : k # m \/ l # n => queue'[k][l] = queue[k][l]
         /\ \A d \in Others(n) :
              \/ rt'[n][d] = rt[n][d]
              \/ LET table == Head(queue[m][n])
                 IN  /\ d # m /\ Replaces(n, m, table, d)
                     /\ rt'[n][d] = [c |-> Via(n, m, table, d), nh |-> m]
         /\ \A k \in Others(n) : rt'[k] = rt[k]
         /\ Head(queue[m][n]) \in [Others(m) -> WireCost]
<1>1. m \in Node /\ m # n /\ queue[m][n] \in Seq([Others(m) -> WireCost])
  BY DEF TypeOK, Others
<1>2. Head(queue[m][n]) \in [Others(m) -> WireCost]
  BY <1>1 DEF Receive
<1>3. queue' = [queue EXCEPT ![m][n] = Tail(queue[m][n])]
  BY DEF Receive
<1>4. /\ queue'[m][n] = Tail(queue[m][n])
      /\ \A k, l \in Node : k # m \/ l # n => queue'[k][l] = queue[k][l]
  BY <1>1, <1>3 DEF TypeOK
<1>5. \A k \in Others(n) : rt'[k] = rt[k]
  BY DEF Receive, TypeOK, Others
<1>6. \A d \in Others(n) :
        \/ rt'[n][d] = rt[n][d]
        \/ LET table == Head(queue[m][n])
           IN  /\ d # m /\ Replaces(n, m, table, d)
               /\ rt'[n][d] = [c |-> Via(n, m, table, d), nh |-> m]
  BY DEF Receive, TypeOK
<1> QED BY <1>2, <1>4, <1>5, <1>6 DEF Receive

LEMMA SendFacts ==
  ASSUME TypeOK, NEW n \in Node, Send(n)
  PROVE  /\ pos[n] > 0
         /\ \A m \in Node :
              \/ queue'[n][m] = queue[n][m]
              \/ m \in Open(n) /\ queue'[n][m] = Append(queue[n][m], Table(n))
         /\ \A k \in Others(n) : queue'[k] = queue[k]
BY DEF Send, TypeOK, Others

LEMMA TypeInit == Init => TypeOK
<1> SUFFICES ASSUME Init PROVE TypeOK
  OBVIOUS
<1>1. 0 \in 0..Len(Sets) /\ 0 \in 0..(Byte - 1)
  BY RouterAssumption, Widths DEF RouterAssumption
<1>2. \A n \in Node : rt[n] \in [Others(n) -> Route]
  BY Widths DEF Init, Route, Others
<1> QED BY <1>1, <1>2 DEF Init, TypeOK

LEMMA TypeStep == TypeOK /\ [Next]_vars => TypeOK'
<1> SUFFICES ASSUME TypeOK, [Next]_vars PROVE TypeOK'
  OBVIOUS
<1>1. ASSUME NEW n \in Node, Dispatch(n) PROVE TypeOK'
  <2>1. pos' \in [Node -> 0..Len(Sets)]
    BY <1>1, RouterAssumption DEF Dispatch, TypeOK, RouterAssumption
  <2>2. NewLinks(n) \in [Node -> Cost \cup {NoLink}]
    BY <1>1, NewLinksType DEF Dispatch
  <2>3. links' \in [Node -> [Node -> Cost \cup {NoLink}]]
    BY <1>1, <2>2 DEF Dispatch, TypeOK
  <2>4. old_link' \in [Node -> [Node -> 0..(Byte - 1)]]
    BY <1>1, <2>2, RecordedType DEF Dispatch, TypeOK
  <2>5. [d \in Others(n) |-> Corrected(n, d, NewLinks(n))] \in [Others(n) -> Route]
    BY <2>2, CorrectedType
  <2>6. DOMAIN rt' = Node /\ \A k \in Node : rt'[k] \in [Others(k) -> Route]
    BY <1>1, <2>5 DEF Dispatch, TypeOK
  <2>7. dontread' \in [Node -> 0..2]
    BY <1>1 DEF Dispatch, TypeOK
  <2> QED BY <1>1, <2>1, <2>3, <2>4, <2>6, <2>7 DEF Dispatch, TypeOK
<1>2. ASSUME NEW n \in Node, Send(n) PROVE TypeOK'
  <2>1. DOMAIN queue' = Node /\ \A m \in Node : DOMAIN queue'[m] = Node
    BY <1>2 DEF Send, TypeOK
  <2>2. ASSUME NEW k \in Node, NEW l \in Node
        PROVE  queue'[k][l] \in Seq([Others(k) -> WireCost])
    <3>1. queue[k][l] \in Seq([Others(k) -> WireCost])
      BY DEF TypeOK
    <3>2. \/ queue'[k][l] = queue[k][l]
          \/ k = n /\ queue'[k][l] = Append(queue[k][l], Table(n))
      <4>1. CASE k # n
        <5>1. k \in Others(n)
          BY <4>1 DEF Others
        <5>2. \A j \in Others(n) : queue'[j] = queue[j]
          BY <1>2, SendFacts
        <5> QED BY <5>1, <5>2
      <4>2. CASE k = n
        <5>1. \A j \in Node :
                \/ queue'[n][j] = queue[n][j]
                \/ j \in Open(n) /\ queue'[n][j] = Append(queue[n][j], Table(n))
          BY <1>2, SendFacts
        <5> QED BY <4>2, <5>1
      <4> QED BY <4>1, <4>2
    <3>3. CASE k = n /\ queue'[k][l] = Append(queue[k][l], Table(n))
      <4>1. Table(n) \in [Others(k) -> WireCost]
        BY <3>3, TableType
      <4> QED BY <3>1, <3>3, <4>1, AppendKeepsSeq
    <3> QED BY <3>1, <3>2, <3>3
  <2>3. \A m \in Node : queue'[m] \in [Node -> Seq([Others(m) -> WireCost])]
    <3> SUFFICES ASSUME NEW m \in Node
                 PROVE  queue'[m] \in [Node -> Seq([Others(m) -> WireCost])]
      OBVIOUS
    <3>1. queue[m] \in [Node -> Seq([Others(m) -> WireCost])]
      BY DEF TypeOK
    <3>2. CASE m # n
      BY <1>2, <3>1, <3>2, SendFacts DEF Others
    <3>3. CASE m = n
      <4>1. PICK got \in SUBSET Open(n) :
              queue' = [queue EXCEPT ![n] =
                [l \in Node |-> IF l \in got THEN Append(queue[n][l], Table(n))
                                ELSE queue[n][l]]]
        BY <1>2 DEF Send
      <4>2. queue'[n] = [l \in Node |-> IF l \in got THEN Append(queue[n][l], Table(n))
                                        ELSE queue[n][l]]
        BY <4>1 DEF TypeOK
      <4>3. queue'[n] = [l \in Node |-> queue'[n][l]]
        BY <4>2
      <4> QED BY <2>2, <3>3, <4>3
    <3> QED BY <3>2, <3>3
  <2>4. dontread' \in [Node -> 0..2]
    BY <1>2 DEF Send, TypeOK
  <2> QED BY <1>2, <2>1, <2>3, <2>4 DEF Send, TypeOK
<1>3. ASSUME NEW n \in Node, NEW m \in Others(n), Receive(n, m) PROVE TypeOK'
  <2>1. m \in Node /\ queue[m][n] \in Seq([Others(m) -> WireCost]) /\ queue[m][n] # << >>
    BY <1>3 DEF TypeOK, Others, Receive
  <2>2. Tail(queue[m][n]) \in Seq([Others(m) -> WireCost])
    BY <2>1
  <2>3. DOMAIN queue' = Node
        /\ \A k \in Node : queue'[k] \in [Node -> Seq([Others(k) -> WireCost])]
    BY <1>3, <2>1, <2>2 DEF Receive, TypeOK
  <2>4. \A d \in Others(n) : rt'[n][d] \in Route
    <3> SUFFICES ASSUME NEW d \in Others(n) PROVE rt'[n][d] \in Route
      OBVIOUS
    <3>1. rt[n][d] \in Route
      BY DEF TypeOK
    <3>2. CASE rt'[n][d] = rt[n][d]
      BY <3>1, <3>2
    <3>3. CASE /\ d # m
               /\ rt'[n][d] = [c |-> Via(n, m, Head(queue[m][n]), d), nh |-> m]
      <4>1. d \in Others(m)
        BY <3>3 DEF Others
      <4>2. Via(n, m, Head(queue[m][n]), d) \in Cost
        BY <1>3, <2>1, <4>1, ReceiveFacts, ViaFacts
      <4> QED BY <2>1, <3>3, <4>2 DEF Route
    <3> QED BY <1>3, <3>2, <3>3, ReceiveFacts
  <2>5. DOMAIN rt' = Node /\ \A k \in Node : rt'[k] \in [Others(k) -> Route]
    BY <1>3, <2>4 DEF Receive, TypeOK
  <2> QED BY <1>3, <2>3, <2>5 DEF Receive, TypeOK
<1>4. CASE UNCHANGED vars
  BY <1>4 DEF vars, TypeOK
<1> QED BY <1>1, <1>2, <1>3, <1>4 DEF Next

\* Types and widths hold in every behaviour.
THEOREM TypeCorrect == Spec => []TypeOK
<1>1. TypeOK /\ [Next]_vars => TypeOK'
  BY TypeStep
<1> QED BY TypeInit, <1>1, PTL DEF Spec

-----------------------------------------------------------------------------
(* A router's links and what its table and old_link make of them. *)

LEMMA LinkInit == Init => LinkInv
BY DEF Init, LinkInv, Fresh, FreshRoutes, LinksRecorded, NoLoop, UsesOwnLinks,
       HasLink, Lost, Others

\* After a dispatch every finite route begins with one of the new links.
LEMMA CorrectedUsesLinks ==
  ASSUME TypeOK, LinkInv, NEW n \in Node, NEW d \in Others(n),
         NEW new \in [Node -> Cost \cup {NoLink}],
         Corrected(n, d, new).c # Infinity
  PROVE  new[Corrected(n, d, new).nh] # NoLink
<1> DEFINE h == rt[n][d].nh
<1>1. d \in Node /\ d # n
  BY DEF Others
<1>2. pos[n] = 0 => rt[n][d].c = Infinity
  <2>1. pos[n] = 0 => rt[n][d] = Lost(d)
    BY DEF LinkInv, FreshRoutes
  <2> QED BY <2>1 DEF Lost
<1>3. pos[n] > 0 \/ pos[n] = 0
  BY DEF TypeOK
<1>4. pos[n] > 0 => old_link[n][d] # 0
  BY <1>1 DEF LinkInv, LinksRecorded
<1>5. CASE h = d
  BY <1>2, <1>3, <1>4, <1>5 DEF Corrected, DirectRoute, Lost, Direct
<1>6. CASE h # d
  BY <1>6 DEF Corrected, IndirectRoute, Lost, Direct
<1> QED BY <1>5, <1>6

LEMMA LinkStep == TypeOK /\ TypeOK' /\ LinkInv /\ [Next]_vars => LinkInv'
<1> SUFFICES ASSUME TypeOK, TypeOK', LinkInv, [Next]_vars PROVE LinkInv'
  OBVIOUS
<1>1. ASSUME NEW n \in Node, Dispatch(n) PROVE LinkInv'
  <2> DEFINE new == NewLinks(n)
  <2>1. pos[n] < Len(Sets) /\ pos[n] \in Nat /\ pos'[n] = pos[n] + 1
    BY <1>1 DEF Dispatch, TypeOK
  <2>2. \A k \in Node : k # n =>
          /\ pos'[k] = pos[k] /\ links'[k] = links[k] /\ rt'[k] = rt[k]
          /\ old_link'[k] = old_link[k]
    BY <1>1 DEF Dispatch, TypeOK
  <2>3. new \in [Node -> Cost \cup {NoLink}] /\ \A m \in Node : links'[n][m] = new[m]
    BY <1>1, <2>1, DispatchFacts, NewLinksType DEF NewLinks
  <2>4. \A m \in Node : \/ links'[n][m] = links[n][m]
                        \/ links'[n][m] = NoLink
                        \/ m # n /\ links'[n][m] < Limit /\ links'[n][m] % Byte # 0
    BY <1>1, <2>1, DispatchFacts, CostAfterFacts
  <2>5. Fresh'
    BY <2>1, <2>2 DEF LinkInv, Fresh
  <2>6. FreshRoutes'
    BY <2>1, <2>2 DEF LinkInv, FreshRoutes, Lost
  <2>7. NoLoop'
    BY <2>2, <2>4 DEF LinkInv, NoLoop
  <2>8. ASSUME NEW m \in Node, m # n
        PROVE  /\ old_link'[n][m] # 0
               /\ links'[n][m] # NoLink => links'[n][m] < Limit /\ links'[n][m] % Byte # 0
    <3>1. links'[n][m] # NoLink => links'[n][m] < Limit /\ links'[n][m] % Byte # 0
      BY <2>4, <2>8 DEF LinkInv, LinksRecorded
    <3>2. old_link'[n][m] = IF new[m] = NoLink THEN Byte - 1 ELSE new[m] % Byte
      BY <1>1, <2>8, DispatchFacts DEF Recorded
    <3> QED BY <2>3, <3>1, <3>2, Widths
  <2>9. LinksRecorded'
    BY <2>1, <2>2, <2>8 DEF LinkInv, LinksRecorded
  <2>10. UsesOwnLinks'
    <3> SUFFICES ASSUME NEW k \in Node, NEW d \in Others(k), rt'[k][d].c # Infinity
                 PROVE  HasLink(k, rt[k][d].nh)'
      BY DEF UsesOwnLinks
    <3>1. CASE k = n
      <4>1. rt'[n][d] = Corrected(n, d, new)
        BY <1>1, <3>1, DispatchFacts
      <4>2. rt'[n][d].nh \in Node
        BY <3>1 DEF TypeOK, Route
      <4> QED BY <2>3, <3>1, <4>1, <4>2, CorrectedUsesLinks DEF HasLink
    <3>2. CASE k # n
      BY <2>2, <3>2 DEF LinkInv, UsesOwnLinks, HasLink
    <3> QED BY <3>1, <3>2
  <2> QED BY <2>5, <2>6, <2>7, <2>9, <2>10 DEF LinkInv
<1>2. ASSUME NEW n \in Node, Send(n) PROVE LinkInv'
  BY <1>2 DEF Send, LinkInv, Fresh, FreshRoutes, LinksRecorded, NoLoop, UsesOwnLinks,
              HasLink
<1>3. ASSUME NEW n \in Node, NEW m \in Others(n), Receive(n, m) PROVE LinkInv'
  <2>1. UNCHANGED <<pos, links, old_link>> /\ HasLink(n, m) /\ m \in Node
    BY <1>3 DEF Receive, Others
  <2>2. \A k \in Node : k # n => rt'[k] = rt[k]
    BY <1>3 DEF Receive, TypeOK
  <2>3. \A d \in Others(n) : rt'[n][d] = rt[n][d] \/ rt'[n][d].nh = m
    BY <1>3 DEF Receive, TypeOK
  <2>4. pos[n] # 0
    BY <2>1 DEF LinkInv, Fresh, HasLink
  <2>5. FreshRoutes'
    BY <2>1, <2>2, <2>4 DEF LinkInv, FreshRoutes, Lost
  <2>6. UsesOwnLinks'
    BY <2>1, <2>2, <2>3 DEF LinkInv, UsesOwnLinks, HasLink
  <2> QED BY <2>1, <2>5, <2>6 DEF LinkInv, Fresh, LinksRecorded, NoLoop
<1>4. CASE UNCHANGED vars
  BY <1>4 DEF vars, LinkInv, Fresh, FreshRoutes, LinksRecorded, NoLoop, UsesOwnLinks,
              HasLink
<1> QED BY <1>1, <1>2, <1>3, <1>4 DEF Next

\* A torn-down link leaves no route over it behind, for any configuration.
THEOREM RoutesUseOwnLinks == Spec => []UsesOwnLinks
<1>1. Init => TypeOK /\ LinkInv
  BY TypeInit, LinkInit
<1>2. TypeOK /\ LinkInv /\ [Next]_vars => (TypeOK /\ LinkInv)'
  BY TypeStep, LinkStep
<1>3. TypeOK /\ LinkInv => UsesOwnLinks
  BY DEF LinkInv
<1> QED BY <1>1, <1>2, <1>3, PTL DEF Spec

-----------------------------------------------------------------------------
(* The first event set. *)

LEMMA FirstInit == Init => FirstInv
BY DEF Init, FirstInv, NothingYet, Finite, Falling, Below

\* A router starts with its direct links alone; nobody routes over it yet and
\* nothing of it is under way.
LEMMA FirstDispatch ==
  ASSUME TypeOK, TypeOK', LinkInv, LinkInv', FirstInv, NEW n \in Node, Dispatch(n)
  PROVE  FirstInv'
<1> SUFFICES ASSUME FirstSet' PROVE (NothingYet /\ Finite /\ Falling /\ Below)'
  BY DEF FirstInv
<1> DEFINE new == NewLinks(n)
<1>1. /\ pos[n] = 0 /\ pos'[n] = 1 /\ queue' = queue
      /\ \A k \in Node : k # n =>
           /\ pos'[k] = pos[k] /\ links'[k] = links[k] /\ rt'[k] = rt[k]
           /\ old_link'[k] = old_link[k]
  <2>1. pos[n] \in Nat /\ pos'[n] = pos[n] + 1 /\ pos'[n] <= 1
    BY DEF Dispatch, TypeOK, FirstSet
  <2>2. pos[n] = 0 /\ pos'[n] = 1
    BY <2>1
  <2> QED BY <2>2 DEF Dispatch, TypeOK
<1>2. NothingYet /\ Finite /\ Falling /\ Below
  <2>1. \A k \in Node : pos[k] <= 1
    BY <1>1 DEF FirstSet
  <2> QED BY <2>1 DEF FirstInv, FirstSet
<1>3. \A m \in Node : queue[n][m] = << >> /\ queue[m][n] = << >>
  BY <1>1, <1>2 DEF NothingYet
<1>4. \A d \in Others(n) : rt[n][d] = Lost(d)
  BY <1>1 DEF LinkInv, FreshRoutes
<1>5. ASSUME NEW d \in Others(n)
      PROVE  /\ rt'[n][d].nh = d
             /\ rt'[n][d].c # Infinity =>
                  rt'[n][d].c < Limit + Byte /\ rt'[n][d].c = links'[n][d]
  <2>1. d \in Node /\ d # n
    BY DEF Others
  <2>2. rt[n][d].nh = d /\ rt[n][d].c = Infinity
    <3>1. rt[n][d] = Lost(d)
      BY <1>4
    <3> QED BY <3>1 DEF Lost
  <2>3. rt'[n][d] = DirectRoute(n, d, new)
    BY <2>2, DispatchFacts DEF Corrected
  <2>4. links'[n][d] = new[d]
    BY <2>1, DispatchFacts DEF NewLinks
  <2>5. links'[n][d] # NoLink => links'[n][d] < Limit /\ links'[n][d] \in Nat
    BY <2>1 DEF LinkInv, LinksRecorded, TypeOK, Cost
  <2>6. \/ rt'[n][d] = Lost(d)
        \/ rt'[n][d] = Direct(d, new) /\ new[d] # NoLink
        \/ rt'[n][d] = rt[n][d]
    BY <2>3 DEF DirectRoute
  <2>7. CASE rt'[n][d] = Direct(d, new) /\ new[d] # NoLink
    BY <2>4, <2>5, <2>7, Widths DEF Direct
  <2> QED BY <2>2, <2>6, <2>7 DEF Lost
<1>6. NothingYet'
  BY <1>1, <1>2 DEF NothingYet
<1>7. Finite'
  BY <1>1, <1>2, <1>5 DEF Finite
<1>8. Falling'
  <2> SUFFICES ASSUME NEW k \in Node, NEW m \in Node, NEW i \in (1..Len(queue[m][k])),
                      NEW d \in Others(m), queue[m][k][i][d] < Limit
               PROVE  /\ rt'[m][d].c <= queue[m][k][i][d]
                      /\ \A j \in i..Len(queue[m][k]) :
                           queue[m][k][j][d] <= queue[m][k][i][d]
    BY <1>1 DEF Falling
  <2>1. m # n
    BY <1>3
  <2> QED BY <1>1, <1>2, <2>1 DEF Falling
<1>9. Below'
  <2> SUFFICES ASSUME NEW k \in Node, NEW d \in Others(k),
                      rt'[k][d].c # Infinity, rt'[k][d].nh # d
               PROVE  OverNextHop(k, rt[k][d].nh, d)'
    BY DEF Below
  <2>1. k # n
    BY <1>5
  <2>2. rt'[k] = rt[k] /\ old_link'[k] = old_link[k]
    BY <1>1, <2>1
  <2> DEFINE h == rt[k][d].nh
  <2>3. OverNextHop(k, h, d)
    BY <1>2, <2>2 DEF Below
  <2>4. h # n
    <3> SUFFICES ASSUME h = n PROVE FALSE
      OBVIOUS
    <3>1. d \in Others(n)
      BY <2>2 DEF Others
    <3>2. rt[n][d].c = Infinity
      <4>1. rt[n][d] = Lost(d)
        BY <1>4, <3>1
      <4> QED BY <4>1 DEF Lost
    <3>3. Infinity + old_link[k][n] <= rt[k][d].c
      BY <2>3, <3>2 DEF OverNextHop
    <3>4. rt[k][d] \in Route /\ old_link[k][n] \in Nat
      BY DEF TypeOK
    <3>5. rt[k][d].c \in 0..Infinity /\ rt[k][d].c # Infinity /\ Infinity \in Nat
      BY <2>2, <3>4, Widths DEF Route, Cost, Infinity
    <3> QED BY <3>3, <3>4, <3>5
  <2>5. h \in Node
    <3>1. rt[k][d] \in Route
      BY DEF TypeOK
    <3> QED BY <3>1 DEF Route
  <2>6. rt'[h] = rt[h]
    BY <1>1, <2>4, <2>5
  <2> QED BY <1>1, <2>2, <2>3, <2>6 DEF OverNextHop
<1> QED BY <1>6, <1>7, <1>8, <1>9

\* A table just sent has the current costs, but for the infinite ones.
LEMMA TableFacts ==
  ASSUME TypeOK, Finite, NEW n \in Node, NEW d \in Others(n)
  PROVE  /\ rt[n][d].c # Infinity => Table(n)[d] = rt[n][d].c
         /\ rt[n][d].c = Infinity => Table(n)[d] >= Limit
         /\ rt[n][d].c \in Nat /\ rt[n][d].c <= Infinity
<1>1. rt[n][d] \in Route
  BY DEF TypeOK
<1>2. rt[n][d].c \in 0..Infinity
  BY <1>1, Widths DEF Route, Cost, Infinity
<1>3. Table(n)[d] = rt[n][d].c % Wire
  BY DEF Table
<1>4. CASE rt[n][d].c = Infinity
  BY <1>2, <1>3, <1>4, Widths DEF Cost
<1>5. CASE rt[n][d].c # Infinity
  <2>1. rt[n][d].c < Limit + Byte
    BY <1>5 DEF Finite
  <2>2. rt[n][d].c % Wire = rt[n][d].c
    BY <1>2, <2>1, Widths
  <2> QED BY <1>2, <1>3, <1>5, <2>2, Widths DEF Cost
<1> QED BY <1>4, <1>5

LEMMA FirstSend ==
  ASSUME TypeOK, TypeOK', LinkInv, FirstInv, NEW n \in Node, Send(n)
  PROVE  FirstInv'
<1>1. UNCHANGED <<pos, links, old_link, rt>> /\ pos[n] > 0
  BY DEF Send
<1> SUFFICES ASSUME FirstSet PROVE (NothingYet /\ Finite /\ Falling /\ Below)'
  BY <1>1 DEF FirstInv, FirstSet
<1>2. NothingYet /\ Finite /\ Falling /\ Below
  BY DEF FirstInv
<1>3. ASSUME NEW k \in Node, NEW m \in Node
      PROVE  \/ queue'[k][m] = queue[k][m]
             \/ /\ k = n /\ m \in Open(n)
                /\ queue'[k][m] = Append(queue[k][m], Table(n))
  <2>1. CASE k = n
    <3>1. \A j \in Node :
            \/ queue'[n][j] = queue[n][j]
            \/ j \in Open(n) /\ queue'[n][j] = Append(queue[n][j], Table(n))
      BY SendFacts
    <3> QED BY <2>1, <3>1
  <2>2. CASE k # n
    <3>1. \A j \in Others(n) : queue'[j] = queue[j]
      BY SendFacts
    <3> QED BY <2>2, <3>1 DEF Others
  <2> QED BY <2>1, <2>2
<1>4. Table(n) \in [Others(n) -> WireCost]
  BY TableType
<1>5. ASSUME NEW k \in Node, NEW m \in Node
      PROVE  queue[k][m] \in Seq([Others(k) -> WireCost])
  BY DEF TypeOK
<1>6. NothingYet'
  <2> SUFFICES ASSUME NEW k \in Node, pos[k] = 0, NEW m \in Node
               PROVE  queue'[k][m] = << >> /\ queue'[m][k] = << >>
    BY <1>1 DEF NothingYet
  <2>1. queue[k][m] = << >> /\ queue[m][k] = << >>
    BY <1>2 DEF NothingYet
  <2>2. k # n
    BY <1>1
  <2>3. k \notin Open(n)
    BY DEF Open, Bound
  <2> QED BY <1>3, <2>1, <2>2, <2>3
<1>7. Finite'
  BY <1>1, <1>2 DEF Finite
<1>8. ASSUME NEW k \in Node, NEW m \in Node, NEW i \in 1..Len(queue'[k][m])
      PROVE  \/ i \in 1..Len(queue[k][m]) /\ queue'[k][m][i] = queue[k][m][i]
             \/ /\ k = n /\ i = Len(queue[k][m]) + 1 /\ i = Len(queue'[k][m])
                /\ queue'[k][m][i] = Table(n)
  <2>1. queue[k][m] \in Seq([Others(k) -> WireCost])
    BY <1>5
  <2>2. CASE queue'[k][m] = queue[k][m]
    BY <2>2
  <2>3. CASE k = n /\ queue'[k][m] = Append(queue[k][m], Table(n))
    <3>1. Append(queue[k][m], Table(n))[Len(queue[k][m]) + 1] = Table(n)
      BY <2>1
    <3>2. \A j \in 1..Len(queue[k][m]) :
            Append(queue[k][m], Table(n))[j] = queue[k][m][j]
      BY <2>1
    <3>3. Len(queue'[k][m]) = Len(queue[k][m]) + 1 /\ Len(queue[k][m]) \in Nat
      BY <2>1, <2>3
    <3> QED BY <2>3, <3>1, <3>2, <3>3
  <2> QED BY <1>3, <2>2, <2>3
<1>9. Falling'
  <2> SUFFICES ASSUME NEW m \in Node, NEW k \in Node, NEW i \in 1..Len(queue'[k][m]),
                      NEW d \in Others(k), queue'[k][m][i][d] < Limit
               PROVE  /\ rt[k][d].c <= queue'[k][m][i][d]
                      /\ \A j \in i..Len(queue'[k][m]) :
                           queue'[k][m][j][d] <= queue'[k][m][i][d]
    BY <1>1 DEF Falling
  <2>1. CASE k = n /\ i = Len(queue'[k][m]) /\ queue'[k][m][i] = Table(n)
    <3>1. rt[n][d].c = Table(n)[d]
      <4>1. Table(n)[d] < Limit
        BY <2>1
      <4>2. Table(n)[d] \in Nat
        BY <1>4, <2>1, Widths DEF WireCost
      <4> QED BY <1>2, <2>1, <4>1, <4>2, TableFacts, Widths
    <3>2. Table(n)[d] \in Nat
      BY <1>4, <2>1, Widths DEF WireCost
    <3>3. \A j \in i..Len(queue'[k][m]) : j = i
      BY <2>1
    <3> QED BY <2>1, <3>1, <3>2, <3>3
  <2>2. CASE i \in 1..Len(queue[k][m]) /\ queue'[k][m][i] = queue[k][m][i]
    <3>1. rt[k][d].c <= queue[k][m][i][d] /\ queue[k][m][i][d] < Limit
      BY <1>2, <2>2 DEF Falling
    <3>2. ASSUME NEW j \in i..Len(queue'[k][m])
          PROVE  queue'[k][m][j][d] <= queue[k][m][i][d]
      <4>1. j \in 1..Len(queue'[k][m])
        BY <2>2
      <4>2. CASE j \in 1..Len(queue[k][m]) /\ queue'[k][m][j] = queue[k][m][j]
        <5>1. j \in i..Len(queue[k][m])
          BY <2>2, <4>2
        <5> QED BY <1>2, <2>2, <3>1, <4>2, <5>1 DEF Falling
      <4>3. CASE k = n /\ queue'[k][m][j] = Table(n)
        <5>1. queue[k][m][i][d] \in Nat
          <6>1. queue[k][m] \in Seq([Others(k) -> WireCost])
            BY <1>5
          <6>2. queue[k][m][i] \in [Others(k) -> WireCost]
            BY <2>2, <6>1
          <6>3. queue[k][m][i][d] \in WireCost
            BY <6>2
          <6> QED BY <6>3, Widths DEF WireCost
        <5>2. rt[n][d].c # Infinity
          BY <3>1, <4>3, <5>1, Widths DEF Infinity
        <5> QED BY <1>2, <3>1, <4>3, <5>2, TableFacts
      <4> QED BY <1>8, <4>1, <4>2, <4>3
    <3> QED BY <2>2, <3>1, <3>2
  <2> QED BY <1>8, <2>1, <2>2
<1>10. Below'
  <2> SUFFICES ASSUME NEW k \in Node, NEW d \in Others(k),
                      rt[k][d].c # Infinity, rt[k][d].nh # d
               PROVE  OverNextHop(k, rt[k][d].nh, d)'
    BY <1>1 DEF Below
  <2> DEFINE h == rt[k][d].nh
  <2>1. OverNextHop(k, h, d)
    BY <1>2 DEF Below
  <2>2. rt[k][d] \in Route /\ old_link[k][h] \in Nat
    BY DEF TypeOK, Route
  <2>3. h \in Node /\ d \in Others(h) /\ rt[k][d].c \in 0..Infinity /\ Infinity \in Nat
    BY <2>2, Widths DEF Route, Others, Cost, Infinity
  <2>4. ASSUME NEW i \in 1..Len(queue'[h][k])
        PROVE  queue'[h][k][i][d] + old_link[k][h] <= rt[k][d].c
    <3>1. CASE i \in 1..Len(queue[h][k]) /\ queue'[h][k][i] = queue[h][k][i]
      BY <2>1, <3>1 DEF OverNextHop
    <3>2. CASE h = n /\ queue'[h][k][i] = Table(n)
      <4>1. rt[h][d].c + old_link[k][h] <= rt[k][d].c
        BY <2>1 DEF OverNextHop
      <4>2. rt[h][d].c \in Nat
        BY <1>2, <2>3, TableFacts
      <4>3. rt[h][d].c # Infinity
        BY <2>2, <2>3, <4>1, <4>2
      <4>4. Table(n)[d] = rt[n][d].c
        BY <1>2, <2>3, <3>2, <4>3, TableFacts
      <4> QED BY <3>2, <4>1, <4>4
    <3> QED BY <1>8, <2>3, <3>1, <3>2
  <2> QED BY <1>1, <2>1, <2>4 DEF OverNextHop
<1> QED BY <1>6, <1>7, <1>9, <1>10

\* The router lowers a cost when it takes a route; the sender's cost and what
\* else it has sent are lower still, so nothing is ever taken back.
LEMMA FirstReceive ==
  ASSUME TypeOK, TypeOK', LinkInv, FirstInv,
         NEW n \in Node, NEW m \in Others(n), Receive(n, m)
  PROVE  FirstInv'
<1> DEFINE table == Head(queue[m][n])
<1>1. UNCHANGED <<pos, links, old_link>> /\ m \in Node /\ m # n /\ HasLink(n, m)
  BY DEF Receive, Others
<1> SUFFICES ASSUME FirstSet PROVE (NothingYet /\ Finite /\ Falling /\ Below)'
  BY <1>1 DEF FirstInv, FirstSet
<1>2. NothingYet /\ Finite /\ Falling /\ Below
  BY DEF FirstInv
<1>3. /\ queue[m][n] \in Seq([Others(m) -> WireCost]) /\ queue[m][n] # << >>
      /\ table \in [Others(m) -> WireCost] /\ table = queue[m][n][1]
      /\ Len(queue[m][n]) \in Nat \ {0}
  <2>1. queue[m][n] \in Seq([Others(m) -> WireCost])
    <3>1. queue[m] \in [Node -> Seq([Others(m) -> WireCost])]
      BY <1>1 DEF TypeOK
    <3> QED BY <3>1
  <2>2. queue[m][n] # << >>
    BY DEF Receive
  <2> QED BY <2>1, <2>2
<1>4. ASSUME NEW k \in Node, NEW l \in Node
      PROVE  /\ Len(queue'[k][l]) \in Nat /\ Len(queue'[k][l]) <= Len(queue[k][l])
             /\ \A i \in 1..Len(queue'[k][l]) :
                  \/ /\ queue'[k][l] = queue[k][l]
                  \/ /\ k = m /\ l = n /\ i + 1 \in 1..Len(queue[k][l])
                     /\ queue'[k][l][i] = queue[k][l][i + 1]
  <2>1. CASE k = m /\ l = n
    <3>1. queue'[m][n] = Tail(queue[m][n])
      BY ReceiveFacts
    <3>2. /\ Len(Tail(queue[m][n])) \in Nat
          /\ Len(Tail(queue[m][n])) <= Len(queue[m][n])
          /\ \A i \in 1..Len(Tail(queue[m][n])) :
               i + 1 \in 1..Len(queue[m][n]) /\ Tail(queue[m][n])[i] = queue[m][n][i + 1]
      BY <1>3, TailShifts
    <3> QED BY <2>1, <3>1, <3>2
  <2>2. CASE ~(k = m /\ l = n)
    <3>1. \A i, j \in Node : i # m \/ j # n => queue'[i][j] = queue[i][j]
      BY ReceiveFacts
    <3>2. queue'[k][l] = queue[k][l]
      BY <2>2, <3>1
    <3>3. queue[k][l] \in Seq([Others(k) -> WireCost])
      BY DEF TypeOK
    <3> QED BY <3>2, <3>3
  <2> QED BY <2>1, <2>2
<1>5. \A k \in Node : k # n => rt'[k] = rt[k]
  BY DEF Receive, TypeOK
<1>6. ASSUME NEW d \in Others(n)
      PROVE  \/ rt'[n][d] = rt[n][d]
             \/ /\ d # m /\ table[d] < Limit /\ d \in Others(m)
                /\ rt'[n][d] = [c |-> table[d] + old_link[n][m], nh |-> m]
                /\ table[d] + old_link[n][m] < rt[n][d].c
  <2> SUFFICES ASSUME d # m, Replaces(n, m, table, d),
                      rt'[n][d] = [c |-> Via(n, m, table, d), nh |-> m]
               PROVE  /\ table[d] < Limit /\ d \in Others(m)
                      /\ rt'[n][d] = [c |-> table[d] + old_link[n][m], nh |-> m]
                      /\ table[d] + old_link[n][m] < rt[n][d].c
    BY ReceiveFacts
  <2>1. d \in Others(m)
    BY DEF Others
  <2>2. /\ Via(n, m, table, d) = table[d] + old_link[n][m]
        /\ Via(n, m, table, d) < Infinity
    BY <1>1, <1>3, <2>1, ViaFacts
  <2>3. ~(rt[n][d].nh = m /\ rt[n][d].c < Via(n, m, table, d))
    <3> SUFFICES ASSUME rt[n][d].nh = m, rt[n][d].c < Via(n, m, table, d)
                 PROVE  FALSE
      OBVIOUS
    <3>1. rt[n][d].c \in Nat /\ rt[n][d].c # Infinity
      <4>1. rt[n][d].c \in Nat
        BY <1>2, TableFacts
      <4>2. Via(n, m, table, d) \in Cost /\ Infinity \in Cost
        BY <1>1, <1>3, <2>1, ViaFacts, Widths
      <4>3. Via(n, m, table, d) \in Nat /\ Infinity \in Nat
        BY <4>2 DEF Cost
      <4> QED BY <2>2, <4>1, <4>3
    <3>2. OverNextHop(n, m, d)
      BY <1>2, <3>1 DEF Below
    <3>3. table[d] + old_link[n][m] <= rt[n][d].c
      <4>1. 1 \in 1..Len(queue[m][n])
        BY <1>3
      <4> QED BY <1>3, <3>2, <4>1 DEF OverNextHop
    <3>4. table[d] + old_link[n][m] \in Nat
      <4>1. Via(n, m, table, d) \in Cost
        BY <1>1, <1>3, <2>1, ViaFacts
      <4> QED BY <2>2, <4>1 DEF Cost
    <3> QED BY <2>2, <3>1, <3>3, <3>4
  <2>4. Via(n, m, table, d) < rt[n][d].c /\ table[d] < Limit
    BY <2>3 DEF Replaces
  <2> QED BY <2>1, <2>2, <2>4
<1>7. ASSUME NEW k \in Node, NEW d \in Others(k)
      PROVE  rt'[k][d].c <= rt[k][d].c
  <2>1. rt[k][d].c \in Nat
    BY <1>2, TableFacts
  <2>2. CASE rt'[k][d] = rt[k][d]
    BY <2>1, <2>2
  <2>3. CASE k = n /\ rt'[k][d] # rt[k][d]
    <3>1. rt'[n][d].c < rt[n][d].c
      <4>1. d \in Others(n) /\ rt'[n][d] # rt[n][d]
        BY <2>3
      <4>2. /\ rt'[n][d] = [c |-> table[d] + old_link[n][m], nh |-> m]
            /\ table[d] + old_link[n][m] < rt[n][d].c
        BY <1>6, <4>1
      <4> QED BY <4>2
    <3>2. rt'[n][d] \in Route
      BY <2>3 DEF TypeOK
    <3>3. rt'[n][d].c \in Nat
      BY <3>2 DEF Route, Cost
    <3> QED BY <2>1, <2>3, <3>1, <3>3
  <2>4. k # n => rt'[k][d] = rt[k][d]
    BY <1>5
  <2> QED BY <2>2, <2>3, <2>4
<1>8. NothingYet'
  <2> SUFFICES ASSUME NEW k \in Node, pos[k] = 0, NEW l \in Node
               PROVE  queue'[k][l] = << >> /\ queue'[l][k] = << >>
    BY <1>1 DEF NothingYet
  <2>1. queue[k][l] = << >> /\ queue[l][k] = << >>
    BY <1>2 DEF NothingYet
  <2>2. ~(k = m /\ l = n) /\ ~(l = m /\ k = n)
    BY <1>3, <2>1
  <2>3. \A i, j \in Node : i # m \/ j # n => queue'[i][j] = queue[i][j]
    BY ReceiveFacts
  <2> QED BY <2>1, <2>2, <2>3
<1>9. Finite'
  <2> SUFFICES ASSUME NEW k \in Node, NEW d \in Others(k), rt'[k][d].c # Infinity
               PROVE  /\ rt'[k][d].c < Limit + Byte
                      /\ rt'[k][d].nh = d => rt'[k][d].c = links[k][d]
    BY <1>1 DEF Finite
  <2>1. CASE rt'[k][d] = rt[k][d]
    BY <1>2, <2>1 DEF Finite
  <2>2. CASE k = n /\ rt'[k][d] # rt[k][d]
    <3>1. /\ d # m /\ table[d] < Limit /\ d \in Others(m)
          /\ rt'[n][d] = [c |-> table[d] + old_link[n][m], nh |-> m]
      BY <1>6, <2>2
    <3>2. table[d] \in Nat /\ old_link[n][m] \in 0..(Byte - 1)
      <4>1. table[d] \in Nat
        BY <1>3, <3>1, Widths DEF WireCost
      <4> QED BY <1>1, <4>1 DEF TypeOK
    <3>3. table[d] + old_link[n][m] < Limit + Byte
      BY <3>1, <3>2, Widths
    <3> QED BY <2>2, <3>1, <3>3
  <2>3. k # n => rt'[k][d] = rt[k][d]
    BY <1>5
  <2> QED BY <2>1, <2>2, <2>3
<1>10. Falling'
  <2> SUFFICES ASSUME NEW l \in Node, NEW k \in Node, NEW i \in 1..Len(queue'[k][l]),
                      NEW d \in Others(k), queue'[k][l][i][d] < Limit
               PROVE  /\ rt'[k][d].c <= queue'[k][l][i][d]
                      /\ \A j \in i..Len(queue'[k][l]) :
                           queue'[k][l][j][d] <= queue'[k][l][i][d]
    BY DEF Falling
  <2>1. queue[k][l] \in Seq([Others(k) -> WireCost])
    <3>1. queue[k] \in [Node -> Seq([Others(k) -> WireCost])]
      BY DEF TypeOK
    <3> QED BY <3>1
  <2>2. rt[k][d].c \in Nat /\ rt'[k][d].c \in Nat /\ rt'[k][d].c <= rt[k][d].c
    <3>1. rt'[k][d] \in Route
      BY DEF TypeOK
    <3> QED BY <1>2, <1>7, <3>1, TableFacts DEF Route, Cost
  <2>3. ASSUME NEW a \in 1..Len(queue[k][l]), queue[k][l][a][d] < Limit
        PROVE  /\ rt[k][d].c <= queue[k][l][a][d] /\ queue[k][l][a][d] \in Nat
               /\ \A b \in a..Len(queue[k][l]) : queue[k][l][b][d] <= queue[k][l][a][d]
    <3>1. queue[k][l][a] \in [Others(k) -> WireCost]
      BY <2>1
    <3>2. queue[k][l][a][d] \in Nat
      BY <3>1, Widths DEF WireCost
    <3> QED BY <1>2, <2>3, <3>2 DEF Falling
  <2>4. CASE queue'[k][l] = queue[k][l]
    BY <2>2, <2>3, <2>4
  <2>5. CASE /\ k = m /\ l = n /\ i + 1 \in 1..Len(queue[k][l])
             /\ queue'[k][l][i] = queue[k][l][i + 1] /\ queue'[k][l] # queue[k][l]
    <3>1. ASSUME NEW j \in i..Len(queue'[k][l])
          PROVE  /\ j + 1 \in (i + 1)..Len(queue[k][l])
                 /\ queue'[k][l][j] = queue[k][l][j + 1]
      <4>1. j \in 1..Len(queue'[k][l])
        BY <1>4
      <4>2. /\ j + 1 \in 1..Len(queue[k][l])
            /\ queue'[k][l][j] = queue[k][l][j + 1]
        BY <1>4, <2>5, <4>1
      <4> QED BY <4>2
    <3>2. queue[k][l][i + 1][d] < Limit
      BY <2>5
    <3>3. /\ rt[k][d].c <= queue[k][l][i + 1][d] /\ queue[k][l][i + 1][d] \in Nat
          /\ \A b \in (i + 1)..Len(queue[k][l]) :
               queue[k][l][b][d] <= queue[k][l][i + 1][d]
      BY <2>3, <2>5, <3>2
    <3>4. rt'[k][d].c <= queue'[k][l][i][d]
      BY <2>2, <2>5, <3>3
    <3>5. ASSUME NEW j \in i..Len(queue'[k][l])
          PROVE  queue'[k][l][j][d] <= queue'[k][l][i][d]
      <4>1. queue[k][l][j + 1][d] <= queue[k][l][i + 1][d]
        BY <3>1, <3>3
      <4> QED BY <2>5, <3>1, <4>1
    <3> QED BY <3>4, <3>5
  <2> QED BY <1>4, <2>4, <2>5
<1>11. Below'
  <2> SUFFICES ASSUME NEW k \in Node, NEW d \in Others(k),
                      rt'[k][d].c # Infinity, rt'[k][d].nh # d
               PROVE  OverNextHop(k, rt[k][d].nh, d)'
    BY DEF Below
  <2> DEFINE h == rt'[k][d].nh
  <2>1. rt'[k][d] \in Route /\ h \in Node /\ rt'[k][d].c \in Nat /\ d \in Others(h)
    <3>1. rt'[k][d] \in Route
      BY DEF TypeOK
    <3> QED BY <3>1 DEF Route, Others, Cost
  <2>2. old_link[k][h] \in Nat
    BY <2>1 DEF TypeOK
  <2>3. CASE rt'[k][d] = rt[k][d]
    <3>1. OverNextHop(k, h, d)
      BY <1>2, <2>3 DEF Below
    <3>2. rt'[h][d].c <= rt[h][d].c /\ rt[h][d].c \in Nat /\ rt'[h][d].c \in Nat
      <4>1. rt'[h][d] \in Route
        BY <2>1 DEF TypeOK
      <4> QED BY <1>2, <1>7, <2>1, <4>1, TableFacts DEF Route, Cost
    <3>3. rt'[h][d].c + old_link'[k][h] <= rt'[k][d].c
      <4>1. rt[h][d].c + old_link[k][h] <= rt'[k][d].c
        BY <2>3, <3>1 DEF OverNextHop
      <4>2. old_link'[k][h] = old_link[k][h]
        BY <1>1
      <4> HIDE DEF h
      <4> QED BY <2>1, <2>2, <3>2, <4>1, <4>2
    <3>4. ASSUME NEW i \in 1..Len(queue'[h][k])
          PROVE  queue'[h][k][i][d] + old_link'[k][h] <= rt'[k][d].c
      <4>1. PICK j \in 1..Len(queue[h][k]) : queue'[h][k][i] = queue[h][k][j]
        <5>1. CASE queue'[h][k] = queue[h][k]
          BY <5>1
        <5>2. CASE i + 1 \in 1..Len(queue[h][k]) /\ queue'[h][k][i] = queue[h][k][i + 1]
          BY <5>2
        <5> QED BY <1>4, <2>1, <5>1, <5>2
      <4> QED BY <1>1, <2>3, <3>1, <4>1 DEF OverNextHop
    <3> QED BY <3>3, <3>4 DEF OverNextHop
  <2>4. CASE k = n /\ rt'[k][d] # rt[k][d]
    <3>1. /\ table[d] < Limit /\ d \in Others(m) /\ h = m
          /\ rt'[n][d].c = table[d] + old_link[n][m]
      <4>1. d \in Others(n) /\ rt'[n][d] # rt[n][d]
        BY <2>4
      <4>2. /\ table[d] < Limit /\ d \in Others(m)
            /\ rt'[n][d] = [c |-> table[d] + old_link[n][m], nh |-> m]
        BY <1>6, <4>1
      <4> QED BY <2>4, <4>2
    <3>2. table[d] \in Nat
      BY <1>3, <3>1, Widths DEF WireCost
    <3>3. /\ rt[m][d].c <= table[d]
          /\ \A j \in 1..Len(queue[m][n]) : queue[m][n][j][d] <= table[d]
      <4>1. 1 \in 1..Len(queue[m][n])
        BY <1>3
      <4>2. queue[m][n][1][d] < Limit
        BY <1>3, <3>1
      <4> QED BY <1>1, <1>2, <1>3, <3>1, <4>1, <4>2 DEF Falling
    <3>4. rt'[m][d].c = rt[m][d].c /\ rt[m][d].c \in Nat
      BY <1>1, <1>2, <1>5, <3>1, TableFacts
    <3>5. rt'[h][d].c + old_link'[k][h] <= rt'[k][d].c
      BY <1>1, <2>2, <2>4, <3>1, <3>2, <3>3, <3>4
    <3>6. ASSUME NEW i \in 1..Len(queue'[h][k])
          PROVE  queue'[h][k][i][d] + old_link'[k][h] <= rt'[k][d].c
      <4>1. PICK j \in 1..Len(queue[m][n]) : queue'[m][n][i] = queue[m][n][j]
        <5>1. CASE queue'[m][n] = queue[m][n]
          BY <2>4, <3>1, <5>1
        <5>2. CASE i + 1 \in 1..Len(queue[m][n]) /\ queue'[m][n][i] = queue[m][n][i + 1]
          BY <5>2
        <5> QED BY <1>1, <1>4, <2>4, <3>1, <5>1, <5>2
      <4>2. queue[m][n][j] \in [Others(m) -> WireCost]
        BY <1>3, <4>1
      <4>3. queue[m][n][j][d] \in Nat
        BY <3>1, <4>2, Widths DEF WireCost
      <4>4. queue[m][n][j][d] <= table[d] /\ old_link[n][m] \in Nat
        BY <2>2, <2>4, <3>1, <3>3
      <4>5. queue[m][n][j][d] + old_link[n][m] <= table[d] + old_link[n][m]
        <5> HIDE DEF table
        <5> QED BY <3>2, <4>3, <4>4
      <4> QED BY <1>1, <2>4, <3>1, <4>1, <4>5
    <3> QED BY <3>5, <3>6 DEF OverNextHop
  <2>5. k # n => rt'[k][d] = rt[k][d]
    BY <1>5
  <2> QED BY <2>3, <2>4, <2>5
<1> QED BY <1>8, <1>9, <1>10, <1>11

LEMMA Inductive == IInv /\ [Next]_vars => IInv'
<1> SUFFICES ASSUME IInv, [Next]_vars PROVE IInv'
  OBVIOUS
<1>1. TypeOK /\ LinkInv /\ FirstInv
  BY DEF IInv
<1>2. TypeOK' /\ LinkInv'
  BY <1>1, TypeStep, LinkStep
<1>3. FirstInv'
  <2>1. ASSUME NEW n \in Node, Dispatch(n) PROVE FirstInv'
    BY <1>1, <1>2, <2>1, FirstDispatch
  <2>2. ASSUME NEW n \in Node, Send(n) PROVE FirstInv'
    BY <1>1, <1>2, <2>2, FirstSend
  <2>3. ASSUME NEW n \in Node, NEW m \in Others(n), Receive(n, m) PROVE FirstInv'
    BY <1>1, <1>2, <2>3, FirstReceive
  <2>4. CASE UNCHANGED vars
    <3>1. UNCHANGED <<pos, links, old_link, rt, queue>>
      BY <2>4 DEF vars
    <3>2. (FirstSet' <=> FirstSet) /\ (NothingYet' <=> NothingYet) /\ (Finite' <=> Finite)
      BY <3>1 DEF FirstSet, NothingYet, Finite
    <3>3. (Falling' <=> Falling) /\ (Below' <=> Below)
      BY <3>1 DEF Falling, Below, OverNextHop
    <3> QED BY <1>1, <3>2, <3>3 DEF FirstInv
  <2> QED BY <2>1, <2>2, <2>3, <2>4 DEF Next
<1> QED BY <1>2, <1>3 DEF IInv

\* Until the second event set packets that follow the tables never run in a
\* circle, for any configuration, any loss and any interleaving.
THEOREM RoutesAlwaysDescend == Spec => []RoutesDescend
<1>1. Init => IInv
  BY TypeInit, LinkInit, FirstInit DEF IInv
<1>2. IInv => RoutesDescend
  <2> SUFFICES ASSUME IInv, FirstSet, NEW n \in Node, NEW d \in Others(n),
                      rt[n][d].c # Infinity
               PROVE  LET h == rt[n][d].nh
                      IN  \/ h = d /\ rt[n][d].c = links[n][d]
                          \/ /\ h # d /\ old_link[n][h] > 0
                             /\ rt[n][d].c >= old_link[n][h] + rt[h][d].c
    BY DEF RoutesDescend, FirstSet
  <2> DEFINE h == rt[n][d].nh
  <2>1. TypeOK /\ LinkInv /\ Finite /\ Below
    BY DEF IInv, FirstInv
  <2>2. CASE h = d
    BY <2>1, <2>2 DEF Finite
  <2>3. CASE h # d
    <3>1. rt[n][d] \in Route
      BY <2>1 DEF TypeOK
    <3>2. h \in Node /\ d \in Others(h)
      BY <2>3, <3>1 DEF Route, Others
    <3>3. old_link[n][h] \in Nat /\ rt[h][d].c \in Nat /\ rt[n][d].c \in Nat
      <4>1. rt[h][d].c \in Nat /\ rt[n][d].c \in Nat
        BY <2>1, <3>2, TableFacts
      <4> QED BY <2>1, <3>2, <4>1 DEF TypeOK
    <3>4. OverNextHop(n, h, d)
      BY <2>1, <2>3 DEF Below
    <3>5. links[n][h] # NoLink
      BY <2>1 DEF LinkInv, UsesOwnLinks, HasLink
    <3>6. h # n /\ pos[n] # 0
      BY <2>1, <3>2, <3>5 DEF LinkInv, NoLoop, Fresh
    <3>7. old_link[n][h] # 0
      <4>1. pos[n] > 0
        BY <2>1, <3>6 DEF TypeOK
      <4> QED BY <2>1, <3>2, <3>6, <4>1 DEF LinkInv, LinksRecorded
    <3>8. old_link[n][h] > 0
      BY <3>3, <3>7
    <3>9. rt[n][d].c >= old_link[n][h] + rt[h][d].c
      <4>1. rt[h][d].c + old_link[n][h] <= rt[n][d].c
        BY <3>4 DEF OverNextHop
      <4> HIDE DEF h
      <4> QED BY <3>3, <4>1
    <3> QED BY <2>3, <3>8, <3>9
  <2> QED BY <2>2, <2>3
<1> QED BY <1>1, <1>2, Inductive, PTL DEF Spec

-----------------------------------------------------------------------------
(* No cost is too good to be true. *)

\* old_link has the costs of the links there are, in 8 bits.
OldLinks ==
  \A n, m \in Node : m # n /\ HasLink(n, m) => old_link[n][m] = links[n][m] % Byte

LEMMA OldLinksStep == TypeOK /\ OldLinks /\ [Next]_vars => OldLinks'
<1> SUFFICES ASSUME TypeOK, OldLinks, [Next]_vars PROVE OldLinks'
  OBVIOUS
<1>1. CASE UNCHANGED <<links, old_link>>
  BY <1>1 DEF OldLinks, HasLink
<1>2. ASSUME NEW n \in Node, Dispatch(n) PROVE OldLinks'
  <2> SUFFICES ASSUME NEW k \in Node, NEW m \in Node, m # k, links'[k][m] # NoLink
               PROVE  old_link'[k][m] = links'[k][m] % Byte
    BY DEF OldLinks, HasLink
  <2>1. CASE k = n
    <3>1. links'[n][m] = NewLinks(n)[m] /\ old_link'[n][m] = Recorded(n, NewLinks(n))[m]
      BY <1>2, DispatchFacts DEF NewLinks
    <3> QED BY <2>1, <3>1 DEF Recorded
  <2>2. CASE k # n
    <3>1. links'[k] = links[k] /\ old_link'[k] = old_link[k]
      BY <1>2, <2>2, DispatchFacts DEF Others
    <3> QED BY <3>1 DEF OldLinks, HasLink
  <2> QED BY <2>1, <2>2
<1>3. ASSUME NEW n \in Node, Send(n) \/ \E m \in Others(n) : Receive(n, m)
      PROVE  UNCHANGED <<links, old_link>>
  BY <1>3 DEF Send, Receive
<1> QED BY <1>1, <1>2, <1>3 DEF Next, vars

\* In a set of numbers that is not empty there is a least one.
LEMMA LeastCost ==
  ASSUME NEW T \in SUBSET Nat, T # {}
  PROVE  \E k \in T : \A j \in T : k <= j
<1> DEFINE upTo == {0..k : k \in T}
<1>1. upTo \subseteq FiniteSubsetsOf(Nat)
  <2> SUFFICES ASSUME NEW k \in T PROVE 0..k \in FiniteSubsetsOf(Nat)
    OBVIOUS
  <2>1. IsFiniteSet(0..k)
    BY FS_Interval
  <2> QED BY <2>1 DEF FiniteSubsetsOf
<1>2. upTo # {}
  OBVIOUS
<1>3. \E x \in upTo : \A y \in upTo : ~ (<<y, x>> \in StrictSubsetOrdering(Nat))
  <2> HIDE DEF upTo
  <2> QED BY <1>1, <1>2, WFMin, FS_StrictSubsetOrderingWellFounded
<1>4. PICK k \in T : \A j \in T : ~ (<<0..j, 0..k>> \in StrictSubsetOrdering(Nat))
  BY <1>3
<1>5. ASSUME NEW j \in T, j < k PROVE FALSE
  <2>1. k \in 0..k /\ k \notin 0..j
    BY <1>5
  <2>2. 0..j \subseteq 0..k /\ 0..j # 0..k /\ 0..k \subseteq Nat
    BY <1>5, <2>1
  <2>3. <<0..j, 0..k>> \in StrictSubsetOrdering(Nat)
    BY <2>2 DEF StrictSubsetOrdering
  <2> QED BY <2>3, <1>4
<1> QED BY <1>5

\* In 8 bits a cost does not grow.
LEMMA ByteIsNoMore ==
  ASSUME NEW c \in Nat
  PROVE  c % Byte \in Nat /\ c % Byte <= c
BY Widths

\* f gives every router a number that no path to d undercuts, be it over the
\* links as they are or as old_link has them.
Floor(f, d) ==
  /\ f[d] = 0
  /\ \A n, m \in Node : HasLink(n, m) => f[n] <= (links[n][m] % Byte) + f[m]

\* Until the second event set no finite cost is below that of the cheapest path,
\* and a router that cannot be reached has an infinite one: however stale the
\* datagrams and however late a link is noticed, no table has more to offer than
\* the network.  This is the half of Converges that needs no fairness.
NoCostTooLow ==
  (\A n \in Node : pos[n] <= 1) =>
    \A d \in Node : \A f \in [Node -> Nat] : Floor(f, d) =>
      \A n \in Others(d) : rt[n][d].c # Infinity => f[n] <= rt[n][d].c

THEOREM CostsAreReal == Spec => []NoCostTooLow
<1>1. TypeOK /\ LinkInv /\ OldLinks /\ RoutesDescend => NoCostTooLow
  <2> SUFFICES ASSUME TypeOK, LinkInv, OldLinks, RoutesDescend,
                      \A n \in Node : pos[n] <= 1,
                      NEW d \in Node, NEW f \in [Node -> Nat], Floor(f, d)
               PROVE  \A n \in Others(d) : rt[n][d].c # Infinity => f[n] <= rt[n][d].c
    BY DEF NoCostTooLow
  <2> DEFINE low == {n \in Others(d) : rt[n][d].c # Infinity /\ rt[n][d].c < f[n]}
             costs == {rt[n][d].c : n \in low}
  <2>1. \A n \in Others(d) : /\ rt[n][d].c \in 0..Infinity /\ rt[n][d].nh \in Node
                             /\ n \in Node /\ d \in Others(n)
    BY Widths DEF TypeOK, Route, Cost, Infinity, Others
  <2>2. Infinity \in Nat
    BY Widths DEF Cost
  <2>3. low = {}
    <3> SUFFICES ASSUME low # {} PROVE FALSE
      OBVIOUS
    <3>1. costs \in SUBSET Nat /\ costs # {}
      BY <2>1, <2>2
    <3>2. PICK n \in low : \A k \in low : rt[n][d].c <= rt[k][d].c
      <4>1. PICK c \in costs : \A j \in costs : c <= j
        <5> HIDE DEF costs
        <5> QED BY <3>1, LeastCost
      <4>2. PICK n \in low : c = rt[n][d].c
        BY <4>1
      <4> HIDE DEF low
      <4> QED BY <4>1, <4>2
    <3> DEFINE h == rt[n][d].nh
    <3>3. /\ n \in Node /\ h \in Node /\ d \in Others(n) /\ rt[n][d].c # Infinity
          /\ rt[n][d].c \in Nat /\ rt[n][d].c < f[n] /\ rt[n][d].c <= Infinity
      BY <2>1, <2>2
    <3>4. HasLink(n, h) /\ h # n /\ links[n][h] \in Nat
      <4>1. HasLink(n, h)
        BY <3>3 DEF LinkInv, UsesOwnLinks
      <4>2. links[n][h] \in Cost \cup {NoLink}
        BY <3>3 DEF TypeOK
      <4>3. h # n
        BY <3>3, <4>1 DEF LinkInv, NoLoop, HasLink
      <4> QED BY <4>1, <4>2, <4>3, Widths DEF HasLink, Cost
    <3>5. f[n] <= (links[n][h] % Byte) + f[h] /\ f[n] \in Nat /\ f[h] \in Nat
      BY <3>3, <3>4 DEF Floor
    <3>6. \/ h = d /\ rt[n][d].c = links[n][d]
          \/ h # d /\ old_link[n][h] > 0 /\ rt[n][d].c >= old_link[n][h] + rt[h][d].c
      BY <3>3 DEF RoutesDescend
    <3>7. CASE h = d /\ rt[n][d].c = links[n][d]
      <4>1. f[h] = 0 /\ links[n][h] = rt[n][d].c
        BY <3>7 DEF Floor
      <4>2. links[n][h] % Byte \in Nat /\ links[n][h] % Byte <= links[n][h]
        BY <3>4, ByteIsNoMore
      <4> HIDE DEF h, low
      <4> QED BY <3>3, <3>5, <4>1, <4>2
    <3>8. CASE h # d /\ old_link[n][h] > 0 /\ rt[n][d].c >= old_link[n][h] + rt[h][d].c
      <4>1. h \in Others(d) /\ rt[h][d].c \in Nat
        <5>1. h \in Others(d)
          BY <3>3, <3>8 DEF Others
        <5> QED BY <2>1, <2>2, <5>1
      <4>2. old_link[n][h] = links[n][h] % Byte /\ old_link[n][h] \in Nat
        <5>1. old_link[n][h] = links[n][h] % Byte
          BY <3>3, <3>4 DEF OldLinks
        <5> QED BY <3>4, <5>1, ByteIsNoMore
      <4>3. h \in low => rt[n][d].c <= rt[h][d].c
        BY <3>2
      <4>4. rt[h][d].c # Infinity /\ rt[h][d].c < f[h] => h \in low
        BY <4>1
      <4> HIDE DEF h, low
      <4>5. rt[h][d].c < rt[n][d].c /\ rt[h][d].c # Infinity
        BY <2>2, <3>3, <3>8, <4>1, <4>2
      <4>6. rt[h][d].c >= f[h]
        BY <3>3, <3>5, <4>1, <4>3, <4>4, <4>5
      <4> QED BY <3>3, <3>5, <3>8, <4>1, <4>2, <4>6
    <3> QED BY <3>6, <3>7, <3>8
  <2>4. ASSUME NEW n \in Others(d), rt[n][d].c # Infinity PROVE f[n] <= rt[n][d].c
    <3>1. ~(rt[n][d].c < f[n])
      BY <2>3, <2>4
    <3>2. rt[n][d].c \in Nat /\ f[n] \in Nat
      BY <2>1, <2>2
    <3> QED BY <3>1, <3>2
  <2> QED BY <2>4
<1>2. Init => OldLinks
  BY DEF Init, OldLinks, HasLink
<1>3. IInv => TypeOK /\ LinkInv
  BY DEF IInv
<1>4. Init => IInv
  BY TypeInit, LinkInit, FirstInit DEF IInv
<1> QED BY <1>1, <1>2, <1>3, <1>4, OldLinksStep, Inductive, RoutesAlwaysDescend, PTL DEF Spec
=============================================================================
