------------------------------- MODULE Router -------------------------------
(***************************************************************************)
(* The distance-vector routers of assignment2.  Every router walks through *)
(* the event sets of the configuration they share, each at its own pace    *)
(* (module RouterAlarm), applies those events that concern its own links,  *)
(* corrects its routing table accordingly and exchanges tables with its    *)
(* neighbours in between.  A cost has 32 bits in the table, 24 in a        *)
(* datagram and 8 in the array old_link; Wide, Wire and Byte are the       *)
(* numbers of values of each.                                              *)
(***************************************************************************)
EXTENDS Integers, Sequences, FiniteSets

CONSTANTS
  Node,               \* the routers of the configuration
  Sets,               \* its event sets, in order
  Byte, Wire, Wide,   \* 2^8, 2^24 and 2^32 in the code
  Limit,              \* 16770000 in the code: costs the neighbour calls infinite
  MaxQueue,           \* datagrams a socket's buffer holds
  Lossy               \* whether datagrams are lost for other reasons

NoLink == -1
Infinity == Wide - 1
Cost == 0..(Wide - 1)
WireCost == 0..(Wire - 1)
Link == {{n, m} : n, m \in Node} \ {{n} : n \in Node}
Event == [ev : {"establish", "update", "tear"}, link : Link, cost : Cost]

\* An event set touches a link at most once, so the order inside it is of no
\* importance, and no link is established twice: the port of the first time is
\* still bound then and bind_port ends the process.  Costs are finite and not
\* multiples of 2^8, which old_link cannot tell from no link having been there.
ASSUME RouterAssumption ==
  /\ Byte \in Nat \ {0, 1} /\ Wire \in Nat /\ Wide \in Nat /\ Limit \in Nat
  /\ Limit + Byte < Wire /\ Wire + Byte < Wide /\ Infinity % Wire >= Limit
  /\ MaxQueue \in Nat
  /\ Sets \in Seq(SUBSET Event)
  /\ \A k \in 1..Len(Sets) : \A e, f \in Sets[k] : e.link = f.link => e = f
  /\ \A j, k \in 1..Len(Sets) : \A e \in Sets[j], f \in Sets[k] :
       e.link = f.link /\ e.ev = "establish" /\ f.ev = "establish" => j = k
  /\ \A k \in 1..Len(Sets) : \A e \in Sets[k] : e.cost < Limit /\ e.cost % Byte # 0

VARIABLES
  pos,       \* how many event sets a router has dispatched
  links,     \* a router's link set: the cost of its link to each node
  old_link,  \* the costs of its links as of its last dispatch, in 8 bits
  rt,        \* its routing table
  dontread,  \* tables sent since the last dispatch, counted up to 2
  queue      \* queue[m][n]: what m has sent and the socket of n still holds

vars == <<pos, links, old_link, rt, dontread, queue>>

Route == [c : Cost, nh : Node]
Others(n) == Node \ {n}
HasLink(n, m) == links[n][m] # NoLink

Init ==
  /\ pos = [n \in Node |-> 0]
  /\ links = [n \in Node |-> [m \in Node |-> NoLink]]
  /\ old_link = [n \in Node |-> [m \in Node |-> 0]]
  /\ rt = [n \in Node |-> [d \in Others(n) |-> [c |-> Infinity, nh |-> d]]]
  /\ dontread = [n \in Node |-> 0]
  /\ queue = [m \in Node |-> [n \in Node |-> << >>]]

-----------------------------------------------------------------------------
(* A new event set. *)

\* The events of the set on a link.
On(k, l) == {e \in Sets[k] : e.link = l}

\* The cost of n's link to m after set k, by dispatch_event.
CostAfter(n, k, m) ==
  IF On(k, {n, m}) = {} THEN links[n][m]
  ELSE LET e == CHOOSE e \in On(k, {n, m}) : TRUE
       IN  IF e.ev = "tear" THEN NoLink ELSE e.cost

\* The links of n after its next event set.
NewLinks(n) == [m \in Node |-> CostAfter(n, pos[n] + 1, m)]

\* The table's entry for d when the links have become new: first a route
\* over the direct link, then one over another neighbour.
Direct(d, new) == [c |-> new[d], nh |-> d]
Lost(d) == [c |-> Infinity, nh |-> d]

DirectRoute(n, d, new) ==
  CASE new[d] = NoLink /\ old_link[n][d] # 0           -> Lost(d)
    [] new[d] # NoLink /\ old_link[n][d] # new[d]      -> Direct(d, new)
    [] OTHER                                           -> rt[n][d]

\* new_total_cost, in 8 bits.
Shifted(n, d, new) ==
  LET h == rt[n][d].nh IN (rt[n][d].c - old_link[n][h] + new[h]) % Byte

\* Mutant: the direct link is taken only when the other one is gone.
IndirectRoute_NoShortcut(n, d, new) ==
  LET h == rt[n][d].nh
      moved == IF old_link[n][h] # new[h]
               THEN [c |-> Shifted(n, d, new), nh |-> h] ELSE rt[n][d]
  IN  IF new[h] = NoLink
      THEN IF new[d] = NoLink THEN Lost(d) ELSE Direct(d, new)
      ELSE moved

IndirectRoute(n, d, new) ==
  LET h == rt[n][d].nh
      moved == IF old_link[n][h] # new[h]
               THEN [c |-> Shifted(n, d, new), nh |-> h] ELSE rt[n][d]
  IN  IF new[h] = NoLink
      THEN IF new[d] = NoLink THEN Lost(d) ELSE Direct(d, new)
      ELSE IF new[d] # NoLink /\ new[d] < Shifted(n, d, new)
           THEN Direct(d, new) ELSE moved

\* Mutant: only routes over direct links are corrected.
Corrected_OnlyDirect(n, d, new) ==
  IF rt[n][d].nh = d THEN DirectRoute(n, d, new) ELSE rt[n][d]

Corrected(n, d, new) ==
  IF rt[n][d].nh = d THEN DirectRoute(n, d, new) ELSE IndirectRoute(n, d, new)

\* What old_link records: a link that is not there counts as -1 in 8 bits.
Recorded(n, new) ==
  [m \in Node |-> IF m = n THEN 0
                  ELSE IF new[m] = NoLink THEN Byte - 1 ELSE new[m] % Byte]

\* One turn of the outer loop of walk_el: the events, the corrections, the new
\* old_link.
Dispatch(n) ==
  /\ pos[n] < Len(Sets)
  /\ links' = [links EXCEPT ![n] = NewLinks(n)]
  /\ rt' = [rt EXCEPT ![n] = [d \in Others(n) |-> Corrected(n, d, NewLinks(n))]]
  /\ old_link' = [old_link EXCEPT ![n] = Recorded(n, NewLinks(n))]
  /\ pos' = [pos EXCEPT ![n] = @ + 1]
  /\ dontread' = [dontread EXCEPT ![n] = 0]
  /\ UNCHANGED queue

-----------------------------------------------------------------------------
(* The exchange of tables. *)

\* A socket is bound when its link is established and never closed.
Bound(n, m) ==
  \E k \in 1..pos[n] : \E e \in Sets[k] : e.ev = "establish" /\ e.link = {n, m}

\* send_rt: 24 bits of each cost.
Table(n) == [d \in Others(n) |-> rt[n][d].c % Wire]

\* The neighbours whose sockets take a datagram from n.
Open(n) == {m \in Others(n) : HasLink(n, m) /\ Bound(m, n) /\ Len(queue[n][m]) < MaxQueue}

Send(n) ==
  /\ pos[n] > 0
  /\ \E got \in SUBSET Open(n) :
       /\ Lossy \/ got = Open(n)
       /\ queue' = [queue EXCEPT ![n] =
            [m \in Node |-> IF m \in got THEN Append(@[m], Table(n)) ELSE @[m]]]
  /\ dontread' = [dontread EXCEPT ![n] = IF @ < 2 THEN @ + 1 ELSE @]
  /\ UNCHANGED <<pos, links, old_link, rt>>

\* Mutant: the sum is kept in 8 bits, as new_total_cost is.
Via_Byte(n, m, table, d) == (table[d] + old_link[n][m]) % Byte

\* The cost over neighbour m, and when it replaces the entry for d.
Via(n, m, table, d) == (table[d] + old_link[n][m]) % Wide

Replaces(n, m, table, d) ==
  \/ Via(n, m, table, d) < rt[n][d].c /\ table[d] < Limit
  \/ rt[n][d].nh = m /\ rt[n][d].c < Via(n, m, table, d)

\* Tables that come before the second sending of this router are read from
\* the socket and thrown away.
Receive(n, m) ==
  /\ HasLink(n, m) /\ queue[m][n] # << >>
  /\ queue' = [queue EXCEPT ![m][n] = Tail(@)]
  /\ LET table == Head(queue[m][n])
     IN  rt' = [rt EXCEPT ![n] =
           [d \in Others(n) |->
              IF dontread[n] >= 2 /\ d # m /\ Replaces(n, m, table, d)
              THEN [c |-> Via(n, m, table, d), nh |-> m] ELSE @[d]]]
  /\ UNCHANGED <<pos, links, old_link, dontread>>

Next ==
  \E n \in Node : Dispatch(n) \/ Send(n) \/ (\E m \in Others(n) : Receive(n, m))

Spec == Init /\ [][Next]_vars

\* The alarm sends again and again and releases every set in the end; the main
\* loop polls all the time.
Fairness ==
  \A n \in Node : /\ WF_vars(Dispatch(n)) /\ WF_vars(Send(n))
                  /\ \A m \in Others(n) : WF_vars(Receive(n, m))

FairSpec == Spec /\ Fairness

-----------------------------------------------------------------------------
\* Types and widths.
TypeOK ==
  /\ pos \in [Node -> 0..Len(Sets)]
  /\ links \in [Node -> [Node -> Cost \cup {NoLink}]]
  /\ old_link \in [Node -> [Node -> 0..(Byte - 1)]]
  /\ DOMAIN rt = Node /\ \A n \in Node : rt[n] \in [Others(n) -> Route]
  /\ dontread \in [Node -> 0..2]
  /\ DOMAIN queue = Node
  /\ \A m \in Node : queue[m] \in [Node -> Seq([Others(m) -> WireCost])]

\* A route that is not infinite starts with a link the router has: a torn-down
\* link leaves no route over it behind, neither for the neighbour nor for those
\* behind it, in whatever order events and tables come.
UsesOwnLinks ==
  \A n \in Node : \A d \in Others(n) :
    rt[n][d].c # Infinity => HasLink(n, rt[n][d].nh)

\* Until the second event set the cost of an indirect route exceeds that of the
\* next hop's route, by at least what old_link has of the link between them, so
\* packets that follow the tables never run in a circle.
RoutesDescend ==
  (\A n \in Node : pos[n] <= 1) =>
  \A n \in Node : \A d \in Others(n) : rt[n][d].c # Infinity =>
    LET h == rt[n][d].nh
    IN  \/ h = d /\ rt[n][d].c = links[n][d]
        \/ h # d /\ old_link[n][h] > 0 /\ rt[n][d].c >= old_link[n][h] + rt[h][d].c

\* The cheapest paths of at most k links over the links the routers have.
Cheapest[k \in 0..Cardinality(Node)] ==
  IF k = 0 THEN [n \in Node |-> [d \in Node |-> IF n = d THEN 0 ELSE Infinity]]
  ELSE LET nearer == Cheapest[k - 1]
           costs(n, d) == {nearer[n][d]} \cup
             {links[n][m] + nearer[m][d] : m \in {m \in Node : HasLink(n, m)}}
       IN  [n \in Node |-> [d \in Node |->
              CHOOSE c \in costs(n, d) : \A b \in costs(n, d) : c <= b]]

Optimal ==
  /\ \A n \in Node : pos[n] = Len(Sets)
  /\ LET cheapest == Cheapest[Cardinality(Node)]
     IN  \A n \in Node : \A d \in Others(n) : rt[n][d].c = cheapest[n][d]

\* Once no more events come, the tables become those of the cheapest paths and
\* stay so, however the dispatches of the last set interleaved with the exchange.
Converges == <>[]Optimal
=============================================================================
