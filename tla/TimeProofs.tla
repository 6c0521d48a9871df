----------------------------- MODULE TimeProofs -----------------------------
(***************************************************************************)
(* Proofs about the time service: types, the accounting of responses, and  *)
(* that the server's list remembers accepted requests for the whole        *)
(* window, for any number of clients, requests and seconds.                *)
(***************************************************************************)
EXTENDS TimeService, FiniteSetTheorems, TLAPS

-----------------------------------------------------------------------------
(* What an entry of the list knows of the requests accepted from its       *)
(* client: all were accepted by the time it was written, those it hides    *)
(* have left the window, and its own number (unless it was reset) is one   *)
(* of them.                                                                *)
Known ==
  /\ \A a \in accepted :
       /\ a.from \in DOMAIN list
       /\ a.at <= list[a.from].last
       /\ list[a.from].seq < a.seq => a.at + Window <= now
  /\ \A c \in DOMAIN list : list[c].seq # 0 =>
       [from |-> c, seq |-> list[c].seq, at |-> list[c].last] \in accepted

\* Outside the first loop a client has counted what it has recorded, and it
\* reports only after all rounds or a timeout.
Counted ==
  \A c \in Client : phase[c] # "sending" => Cardinality(recorded[c]) = i[c]

IInv == TypeOK /\ Known /\ Counted

-----------------------------------------------------------------------------
(* What update_list does to each entry. *)

LEMMA UpdateList ==
  ASSUME NEW c \in Client, NEW s \in SeqNo
  PROVE  /\ DOMAIN update_list(c, s) = DOMAIN list \cup {c}
         /\ update_list(c, s) = [d \in DOMAIN update_list(c, s) |-> update_list(c, s)[d]]
         /\ ~Older(c, s) => update_list(c, s)[c] = [seq |-> s, last |-> now]
         /\ Older(c, s) => update_list(c, s)[c] = list[c]
         /\ \A d \in DOMAIN list \ {c} :
              /\ Expired(d) => update_list(c, s)[d] = [seq |-> 0, last |-> now]
              /\ ~Expired(d) => update_list(c, s)[d] = list[d]
  BY DEF update_list, Fresh

-----------------------------------------------------------------------------
(* Types. *)

LEMMA TypeInit == Init => TypeOK
  BY TimeAssumption DEF Init, TypeOK

LEMMA TypeClient ==
  ASSUME TypeOK, NEW c \in Client, ClientStep(c)
  PROVE  TypeOK'
<1> USE TimeAssumption DEF TypeOK, clientVars, serverVars, SeqNo, Datagram
<1>1. CASE Send(c)
  <2>1. UNCHANGED <<responses, list, printed, accepted, now, phase, recorded, run>>
    BY <1>1 DEF Send
  <2>2. i' \in [Client -> 0..N]
    BY <1>1 DEF Send
  <2>3. requests' \subseteq Datagram
    BY <1>1 DEF Send
  <2> QED
    <3> HIDE DEF SeqNo, Datagram
    <3> QED BY <2>1, <2>2, <2>3
<1>2. CASE StartReceiving(c)
  BY <1>2 DEF StartReceiving
<1>3. CASE Receive(c)
  <2>1. PICK m \in responses :
          /\ Delivered(responses, responses', m)
          /\ \/ UNCHANGED <<i, recorded>>
             \/ /\ recorded' = [recorded EXCEPT ![c] = @ \cup {m.seq}]
                /\ i' = [i EXCEPT ![c] = @ + 1]
    BY <1>3 DEF Receive
  <2>2. m.seq \in SeqNo /\ responses' \subseteq Datagram
    BY <2>1 DEF Delivered
  <2>3. recorded' \in [Client -> SUBSET SeqNo]
    <3>1. recorded \in [Client -> SUBSET SeqNo]
      OBVIOUS
    <3> HIDE DEF SeqNo, TypeOK
    <3>2. recorded[c] \cup {m.seq} \in SUBSET SeqNo
      BY <2>2, <3>1
    <3>3. recorded' = recorded \/ recorded' = [recorded EXCEPT ![c] = @ \cup {m.seq}]
      BY <2>1
    <3> QED BY <3>1, <3>2, <3>3
  <2>4. i' \in [Client -> 0..N]
    <3>1. i[c] \in 0..N /\ i \in [Client -> 0..N]
      OBVIOUS
    <3>2. i[c] < N
      BY <1>3 DEF Receive
    <3>3. i[c] + 1 \in 0..N
      BY <3>1, <3>2
    <3>4. i' = i \/ i' = [i EXCEPT ![c] = @ + 1]
      BY <2>1
    <3> HIDE DEF TypeOK
    <3> QED BY <3>1, <3>3, <3>4
  <2>5. UNCHANGED <<requests, list, printed, accepted, now, phase, run>>
    BY <1>3 DEF Receive
  <2>6. responses' \subseteq Datagram
    BY <2>2
  <2> QED
    <3> HIDE DEF SeqNo, Datagram
    <3> QED BY <2>3, <2>4, <2>5, <2>6
<1>4. CASE TimeOut(c)
  BY <1>4 DEF TimeOut
<1>5. CASE Report(c)
  BY <1>5 DEF Report
<1>6. CASE Restart(c)
  <2>1. UNCHANGED <<requests, responses, list, printed, accepted, now>>
    BY <1>6 DEF Restart
  <2>2. /\ i' \in [Client -> 0..N] /\ recorded' \in [Client -> SUBSET SeqNo]
        /\ phase' \in [Client -> {"sending", "receiving", "done"}]
    BY <1>6 DEF Restart
  <2>3. run' \in [Client -> Nat]
    BY <1>6 DEF Restart
  <2> QED
    <3> HIDE DEF SeqNo, Datagram
    <3> QED BY <2>1, <2>2, <2>3
<1> QED BY <1>1, <1>2, <1>3, <1>4, <1>5, <1>6 DEF ClientStep

LEMMA TypeServe ==
  ASSUME TypeOK, NEW m \in Datagram, Serve(m)
  PROVE  TypeOK'
<1> DEFINE c == m.client
           s == m.seq
<1>1. c \in Client /\ s \in SeqNo /\ s \in 0..N
  BY DEF Datagram, SeqNo
<1>2. list' = update_list(c, s)
  BY DEF Serve
<1>3. /\ DOMAIN list' \subseteq Client
      /\ list' = [d \in DOMAIN list' |-> list'[d]]
      /\ \A d \in DOMAIN list' : list'[d] \in Entry /\ list'[d].last <= now'
  <2> HIDE DEF c, s
  <2>0. DOMAIN list' = DOMAIN list \cup {c}
    BY <1>1, <1>2, UpdateList
  <2>1. DOMAIN list' \subseteq Client
    BY <1>1, <2>0 DEF TypeOK
  <2>2. list' = [d \in DOMAIN list' |-> list'[d]]
    BY <1>1, <1>2, UpdateList
  <2>3. ASSUME NEW d \in DOMAIN list'
        PROVE  list'[d] \in Entry /\ list'[d].last <= now'
    <3>1. \/ list'[d] \in {[seq |-> s, last |-> now], [seq |-> 0, last |-> now]}
          \/ d \in DOMAIN list /\ list'[d] = list[d]
      <4>1. CASE d = c
        BY <1>1, <1>2, <4>1, UpdateList DEF Older
      <4>2. CASE d # c
        <5>1. d \in DOMAIN list \ {c}
          BY <2>0, <4>2
        <5>2. \/ update_list(c, s)[d] = [seq |-> 0, last |-> now]
              \/ update_list(c, s)[d] = list[d]
          <6>1. \A e \in DOMAIN list \ {c} :
                  /\ Expired(e) => update_list(c, s)[e] = [seq |-> 0, last |-> now]
                  /\ ~Expired(e) => update_list(c, s)[e] = list[e]
            BY <1>1, UpdateList
          <6> QED BY <5>1, <6>1
        <5> QED BY <1>2, <5>1, <5>2
      <4> QED BY <4>1, <4>2
    <3>2. now' = now /\ now \in 0..MaxTime
      BY DEF Serve, TypeOK
    <3>3. CASE d \in DOMAIN list /\ list'[d] = list[d]
      BY <3>2, <3>3 DEF TypeOK
    <3>4. CASE list'[d] \in {[seq |-> s, last |-> now], [seq |-> 0, last |-> now]}
      BY <1>1, <3>2, <3>4, TimeAssumption DEF Entry
    <3> QED BY <3>1, <3>3, <3>4
  <2> QED BY <2>1, <2>2, <2>3
<1>4. printed' \in {<< >>} \cup (Client \X SeqNo \X SeqNo)
  <2>1. CASE Older(c, s)
    <3>1. c \in DOMAIN list /\ list[c].seq \in 0..N /\ s < list[c].seq
      BY <1>1, <2>1 DEF Older, TypeOK, Entry
    <3>2. list[c].seq \in SeqNo
      BY <1>1, <3>1, TimeAssumption DEF SeqNo
    <3> QED BY <1>1, <2>1, <3>2 DEF Serve
  <2>2. CASE ~Older(c, s)
    BY <2>2 DEF Serve, TypeOK
  <2> QED BY <2>1, <2>2
<1>5. accepted' \subseteq [from : Client, seq : SeqNo, at : 0..MaxTime]
  BY <1>1 DEF Serve, TypeOK
<1>6. requests' \subseteq Datagram /\ responses' \subseteq Datagram
  BY DEF Serve, Delivered, TypeOK
<1> QED
  BY <1>3, <1>4, <1>5, <1>6 DEF Serve, TypeOK, clientVars

LEMMA TypeStep == TypeOK /\ [Next]_vars => TypeOK'
<1> SUFFICES ASSUME TypeOK, [Next]_vars PROVE TypeOK'
  OBVIOUS
<1>1. ASSUME NEW c \in Client, ClientStep(c) PROVE TypeOK'
  BY <1>1, TypeClient
<1>2. ASSUME NEW m \in Datagram, Handle(m) PROVE TypeOK'
  <2>1. CASE Serve(m)
    BY <2>1, TypeServe
  <2>2. CASE LoseRequest(m)
    BY <2>2 DEF LoseRequest, TypeOK, clientVars, serverVars
  <2>3. CASE LoseResponse(m)
    BY <2>3 DEF LoseResponse, TypeOK, clientVars, serverVars
  <2>4. CASE Undeliverable(m)
    BY <2>4 DEF Undeliverable, TypeOK, clientVars, serverVars
  <2> QED BY <1>2, <2>1, <2>2, <2>3, <2>4 DEF Handle
<1>3. CASE Tick
  <2>1. now' \in 0..MaxTime /\ now < now'
    BY <1>3, TimeAssumption DEF Tick, TypeOK
  <2>2. \A c \in DOMAIN list : list[c].last <= now'
    BY <2>1, TimeAssumption DEF TypeOK, Entry
  <2> QED BY <1>3, <2>1, <2>2 DEF Tick, TypeOK, clientVars, serverVars
<1>4. CASE UNCHANGED vars
  BY <1>4 DEF vars, TypeOK, clientVars, serverVars
<1> QED BY <1>1, <1>2, <1>3, <1>4 DEF Next

-----------------------------------------------------------------------------
(* What the list remembers. *)

\* The facts about types that the arithmetic of Known needs.
LEMMA TypeFacts ==
  ASSUME TypeOK
  PROVE  /\ now \in Int
         /\ \A d \in DOMAIN list : list[d].seq \in Int /\ list[d].last \in Int
                                    /\ list[d].last <= now
         /\ \A a \in accepted : a.from \in Client /\ a.seq \in SeqNo /\ a.seq \in Int
                                 /\ a.seq > 0 /\ a.at \in Int
                                 /\ a = [from |-> a.from, seq |-> a.seq, at |-> a.at]
<1>1. now \in Int
  BY TimeAssumption DEF TypeOK
<1>2. ASSUME NEW d \in DOMAIN list
      PROVE  list[d].seq \in Int /\ list[d].last \in Int /\ list[d].last <= now
  BY TimeAssumption DEF TypeOK, Entry
<1>3. ASSUME NEW a \in accepted
      PROVE  /\ a.from \in Client /\ a.seq \in SeqNo /\ a.seq \in Int /\ a.seq > 0
             /\ a.at \in Int
             /\ a = [from |-> a.from, seq |-> a.seq, at |-> a.at]
  <2>1. a \in [from : Client, seq : SeqNo, at : 0..MaxTime]
    BY DEF TypeOK
  <2> QED BY <2>1, TimeAssumption DEF SeqNo
<1> QED BY <1>1, <1>2, <1>3

\* A request is older in the list's eyes only because of the list's own entry,
\* and any other request is younger than every accepted one in the window.
LEMMA WindowFacts ==
  ASSUME TypeOK, Known, NEW c \in Client, NEW s \in SeqNo
  PROVE  /\ Older(c, s) =>
              /\ [from |-> c, seq |-> list[c].seq, at |-> list[c].last] \in accepted
              /\ now < list[c].last + Window
              /\ s < list[c].seq
         /\ \A a \in accepted :
              a.from = c /\ now < a.at + Window =>
                /\ Older(c, s) => a.seq <= list[c].seq
                /\ ~Older(c, s) => a.seq <= s
<1>1. s \in Int /\ s > 0 /\ Window \in Int
  BY TimeAssumption DEF SeqNo
<1>2. ASSUME Older(c, s)
      PROVE  /\ [from |-> c, seq |-> list[c].seq, at |-> list[c].last] \in accepted
             /\ now < list[c].last + Window
             /\ s < list[c].seq
  <2>1. c \in DOMAIN list /\ ~(now - list[c].last >= Window) /\ s < list[c].seq
    BY <1>2 DEF Older, Expired
  <2>2. list[c].seq # 0 /\ now < list[c].last + Window
    BY <1>1, <2>1, TypeFacts
  <2> QED BY <2>1, <2>2 DEF Known
<1>3. ASSUME NEW a \in accepted, a.from = c, now < a.at + Window
      PROVE  /\ Older(c, s) => a.seq <= list[c].seq
             /\ ~Older(c, s) => a.seq <= s
  <2>1. /\ c \in DOMAIN list /\ a.at <= list[c].last
        /\ ~(list[c].seq < a.seq) \/ a.at + Window <= now
    BY <1>3 DEF Known
  <2>2. /\ a.seq \in Int /\ a.at \in Int /\ now \in Int
        /\ list[c].seq \in Int /\ list[c].last \in Int
    BY <2>1, TypeFacts
  <2>3. a.seq <= list[c].seq
    BY <1>1, <1>3, <2>1, <2>2
  <2>4. ~(now - list[c].last >= Window)
    BY <1>1, <1>3, <2>1, <2>2
  <2>5. ~Older(c, s) => list[c].seq <= s
    BY <1>1, <2>1, <2>2, <2>4 DEF Older, Expired
  <2> QED BY <1>1, <2>2, <2>3, <2>5
<1> QED BY <1>2, <1>3

LEMMA KnownServe ==
  ASSUME TypeOK, Known, NEW m \in Datagram, Serve(m)
  PROVE  Known'
<1> DEFINE c == m.client
           s == m.seq
<1>1. c \in Client /\ s \in SeqNo /\ s \in Int /\ s > 0 /\ Window \in Int /\ Window > 0
  BY TimeAssumption DEF Datagram, SeqNo
<1>2. list' = update_list(c, s) /\ now' = now
  BY DEF Serve
<1>3. /\ Older(c, s) => accepted' = accepted
      /\ ~Older(c, s) =>
           accepted' = {a \in accepted : <<a.from, a.seq>> # <<c, s>>}
                         \cup {[from |-> c, seq |-> s, at |-> now]}
  BY DEF Serve
<1> HIDE DEF c, s
<1>4. DOMAIN list' = DOMAIN list \cup {c}
  BY <1>1, <1>2, UpdateList
<1>5. /\ ~Older(c, s) => list'[c] = [seq |-> s, last |-> now]
      /\ Older(c, s) => list'[c] = list[c] /\ c \in DOMAIN list
      /\ \A d \in DOMAIN list \ {c} :
           /\ Expired(d) => list'[d] = [seq |-> 0, last |-> now]
           /\ ~Expired(d) => list'[d] = list[d]
  <2>1. /\ ~Older(c, s) => update_list(c, s)[c] = [seq |-> s, last |-> now]
        /\ Older(c, s) => update_list(c, s)[c] = list[c]
        /\ \A d \in DOMAIN list \ {c} :
             /\ Expired(d) => update_list(c, s)[d] = [seq |-> 0, last |-> now]
             /\ ~Expired(d) => update_list(c, s)[d] = list[d]
    BY <1>1, UpdateList
  <2>2. Older(c, s) => c \in DOMAIN list
    BY DEF Older
  <2> QED BY <1>2, <2>1, <2>2
<1>6. ASSUME NEW a \in accepted'
      PROVE  /\ a.from \in DOMAIN list'
             /\ a.at <= list'[a.from].last
             /\ list'[a.from].seq < a.seq => a.at + Window <= now
  <2>1. CASE ~Older(c, s) /\ a = [from |-> c, seq |-> s, at |-> now]
    BY <1>1, <1>4, <1>5, <2>1, TypeFacts
  <2>2. CASE a \in accepted
    <3> USE <2>2
    <3>1. /\ a.from \in DOMAIN list
          /\ a.at <= list[a.from].last
          /\ list[a.from].seq < a.seq => a.at + Window <= now
      BY DEF Known
    <3>2. /\ a.seq \in Int /\ a.seq > 0 /\ a.at \in Int /\ now \in Int
          /\ list[a.from].last \in Int /\ list[a.from].last <= now
      BY <3>1, TypeFacts
    <3>3. CASE a.from = c /\ Older(c, s)
      BY <1>4, <1>5, <3>1, <3>3
    <3>4. CASE a.from = c /\ ~Older(c, s)
      <4>1. s < a.seq => ~(now < a.at + Window)
        <5>1. now < a.at + Window => a.seq <= s
          BY <1>1, <3>4, WindowFacts
        <5> QED BY <1>1, <3>2, <5>1
      <4> QED BY <1>1, <1>4, <1>5, <3>1, <3>2, <3>4, <4>1
    <3>5. CASE a.from # c /\ Expired(a.from)
      <4>1. now - list[a.from].last >= Window
        BY <3>5 DEF Expired
      <4>2. list'[a.from] = [seq |-> 0, last |-> now]
        BY <1>5, <3>1, <3>5
      <4> QED BY <1>1, <1>4, <3>1, <3>2, <4>1, <4>2
    <3>6. CASE a.from # c /\ ~Expired(a.from)
      BY <1>4, <1>5, <3>1, <3>6
    <3> QED BY <3>3, <3>4, <3>5, <3>6
  <2> QED BY <1>3, <2>1, <2>2
<1>7. ASSUME NEW d \in DOMAIN list', list'[d].seq # 0
      PROVE  [from |-> d, seq |-> list'[d].seq, at |-> list'[d].last] \in accepted'
  <2>1. CASE d = c /\ ~Older(c, s)
    BY <1>3, <1>5, <2>1
  <2>2. CASE d = c /\ Older(c, s)
    BY <1>3, <1>5, <1>7, <2>2 DEF Known
  <2>3. CASE d # c
    <3>1. d \in DOMAIN list \ {c} /\ list'[d] = list[d]
      BY <1>4, <1>5, <1>7, <2>3
    <3>2. [from |-> d, seq |-> list[d].seq, at |-> list[d].last] \in accepted
      BY <1>7, <3>1 DEF Known
    <3> QED BY <1>3, <2>3, <3>1, <3>2
  <2> QED BY <2>1, <2>2, <2>3
<1> QED BY <1>2, <1>6, <1>7 DEF Known

LEMMA KnownStep == TypeOK /\ Known /\ [Next]_vars => Known'
<1> SUFFICES ASSUME TypeOK, Known, [Next]_vars PROVE Known'
  OBVIOUS
<1>1. ASSUME NEW m \in Datagram, Serve(m) PROVE Known'
  BY <1>1, KnownServe
<1>2. CASE Tick
  <2>1. now' = now + 1 /\ UNCHANGED <<list, accepted>>
    BY <1>2 DEF Tick, serverVars
  <2>2. now \in Int /\ Window \in Int /\ \A a \in accepted : a.at \in Int
    BY TypeFacts, TimeAssumption
  <2> QED BY <2>1, <2>2 DEF Known
<1>3. CASE UNCHANGED <<serverVars, now>>
  BY <1>3 DEF Known, serverVars
<1>4. ASSUME NEW c \in Client, ClientStep(c) PROVE UNCHANGED <<serverVars, now>>
  BY <1>4 DEF ClientStep, Send, StartReceiving, Receive, TimeOut, Report, Restart
<1>5. ASSUME NEW m \in Datagram, Handle(m), ~Serve(m) PROVE UNCHANGED <<serverVars, now>>
  BY <1>5 DEF Handle, LoseRequest, LoseResponse, Undeliverable
<1>6. CASE UNCHANGED vars
  BY <1>3, <1>6 DEF vars, serverVars
<1> QED BY <1>1, <1>2, <1>3, <1>4, <1>5, <1>6 DEF Next

-----------------------------------------------------------------------------
(* The accounting of responses. *)

LEMMA CountedStep == TypeOK /\ Counted /\ [Next]_vars => Counted'
<1> SUFFICES ASSUME TypeOK, Counted, [Next]_vars PROVE Counted'
  OBVIOUS
<1>1. CASE UNCHANGED clientVars
  BY <1>1 DEF Counted, clientVars
<1>2. ASSUME NEW m \in Datagram, Handle(m) PROVE UNCHANGED clientVars
  BY <1>2 DEF Handle, Serve, LoseRequest, LoseResponse, Undeliverable
<1>3. ASSUME NEW c \in Client, ClientStep(c) PROVE Counted'
  <2> SUFFICES ASSUME NEW d \in Client, phase'[d] # "sending"
               PROVE  Cardinality(recorded'[d]) = i'[d]
    BY DEF Counted
  <2>0. /\ phase \in [Client -> {"sending", "receiving", "done"}]
        /\ i \in [Client -> 0..N] /\ recorded \in [Client -> SUBSET SeqNo]
        /\ phase[d] # "sending" => Cardinality(recorded[d]) = i[d]
    BY DEF TypeOK, Counted
  <2>1. CASE Send(c) \/ Restart(c)
    BY <2>0, <2>1 DEF Send, Restart
  <2>2. CASE StartReceiving(c)
    BY <2>0, <2>2, FS_EmptySet DEF StartReceiving
  <2>3. CASE Receive(c)
    <3>1. CASE UNCHANGED <<i, recorded>>
      BY <2>0, <2>3, <3>1 DEF Receive
    <3>2. CASE \E m \in responses :
                 /\ m.seq \notin recorded[c]
                 /\ recorded' = [recorded EXCEPT ![c] = @ \cup {m.seq}]
                 /\ i' = [i EXCEPT ![c] = @ + 1]
      <4>1. PICK m \in responses :
               /\ m.seq \notin recorded[c]
               /\ recorded' = [recorded EXCEPT ![c] = @ \cup {m.seq}]
               /\ i' = [i EXCEPT ![c] = @ + 1]
        BY <3>2
      <4>2. IsFiniteSet(recorded[c])
        <5>1. IsFiniteSet(SeqNo)
          BY FS_Interval, TimeAssumption DEF SeqNo
        <5>2. recorded[c] \subseteq SeqNo
          BY <2>0
        <5> QED BY <5>1, <5>2, FS_Subset
      <4>3. Cardinality(recorded[c] \cup {m.seq}) = Cardinality(recorded[c]) + 1
        BY <4>1, <4>2, FS_AddElement
      <4> QED BY <2>0, <2>3, <4>1, <4>3 DEF Receive
    <3> QED BY <2>3, <3>1, <3>2 DEF Receive
  <2>4. CASE TimeOut(c) \/ Report(c)
    BY <2>0, <2>4 DEF TimeOut, Report
  <2> QED BY <1>3, <2>1, <2>2, <2>3, <2>4 DEF ClientStep
<1>4. CASE Tick
  BY <1>1, <1>4 DEF Tick
<1>5. CASE UNCHANGED vars
  BY <1>1, <1>5 DEF vars
<1> QED BY <1>1, <1>2, <1>3, <1>4, <1>5 DEF Next

-----------------------------------------------------------------------------
LEMMA Inductive == Spec => []IInv
<1>1. Init => IInv
  <2>1. Init => Known /\ Counted
    BY DEF Init, Known, Counted
  <2> QED BY <2>1, TypeInit DEF IInv
<1>2. IInv /\ [Next]_vars => IInv'
  BY TypeStep, KnownStep, CountedStep DEF IInv
<1> QED BY <1>1, <1>2, PTL DEF Spec

\* The variables keep their types: the server never stores a number or a time
\* that no request had, however datagrams are lost, repeated or reordered.
THEOREM TypeCorrect == Spec => []TypeOK
<1>1. IInv => TypeOK
  BY DEF IInv
<1> QED BY <1>1, Inductive, PTL

\* The client's report is complete exactly if it has been through all its
\* rounds: a slot of messages[] is filled once per round.
THEOREM ReportIsComplete == Spec => []CompleteReport
<1>1. IInv => CompleteReport
  <2> SUFFICES ASSUME IInv, NEW c \in Client, phase[c] = "done"
               PROVE  i[c] = N <=> recorded[c] = SeqNo
    BY DEF CompleteReport
  <2>1. recorded[c] \subseteq SeqNo /\ Cardinality(recorded[c]) = i[c]
    BY DEF IInv, TypeOK, Counted
  <2>2. IsFiniteSet(SeqNo) /\ Cardinality(SeqNo) = N
    BY FS_Interval, TimeAssumption DEF SeqNo
  <2> QED BY <2>1, <2>2, FS_Subset
<1> QED BY <1>1, Inductive, PTL

\* update_list keeps one number and one time per client, resets entries of
\* others and leaves the time of an older request alone; that is as good as
\* remembering every accepted request of the last Window seconds.
THEOREM ListRemembersWindow == Spec => Remembers
<1>1. Init => Window120!Init
  BY DEF Init, Window120!Init
<1>2. IInv /\ [Next]_vars => [Window120!Next]_(Window120!vars)
  <2> SUFFICES ASSUME IInv, [Next]_vars
               PROVE  [Window120!Next]_(Window120!vars)
    OBVIOUS
  <2>1. ASSUME NEW m \in Datagram, Serve(m)
        PROVE  Window120!Next
    <3>1. m.client \in Client /\ m.seq \in SeqNo /\ TypeOK /\ Known
      BY DEF Datagram, IInv
    <3>2. now' = now
      BY <2>1 DEF Serve
    <3>3. CASE Older(m.client, m.seq)
      <4> DEFINE a == [from |-> m.client, seq |-> list[m.client].seq,
                       at |-> list[m.client].last]
      <4>1. a \in Window120!Recent(m.client) /\ m.seq < a.seq
        BY <3>1, <3>3, WindowFacts DEF Window120!Recent
      <4>2. \A b \in Window120!Recent(m.client) : b.seq <= a.seq
        BY <3>1, <3>3, WindowFacts DEF Window120!Recent
      <4>3. printed' = <<m.client, m.seq, a.seq>> /\ accepted' = accepted
        BY <2>1, <3>3 DEF Serve
      <4> HIDE DEF a
      <4>4. Window120!Warn(m.client, m.seq)
        BY <3>2, <4>1, <4>2, <4>3 DEF Window120!Warn
      <4> QED BY <3>1, <4>4 DEF Window120!Next
    <3>4. CASE ~Older(m.client, m.seq)
      <4>1. \A b \in Window120!Recent(m.client) : b.seq <= m.seq
        BY <3>1, <3>4, WindowFacts DEF Window120!Recent
      <4>2. Window120!Accept(m.client, m.seq)
        BY <2>1, <3>2, <3>4, <4>1 DEF Serve, Window120!Accept
      <4> QED BY <3>1, <4>2 DEF Window120!Next
    <3> QED BY <3>3, <3>4
  <2>2. CASE Tick
    BY <2>2 DEF Tick, serverVars, Window120!Next, Window120!Tick
  <2>3. CASE UNCHANGED <<serverVars, now>>
    BY <2>3 DEF serverVars, Window120!vars
  <2>4. ASSUME NEW c \in Client, ClientStep(c) PROVE UNCHANGED <<serverVars, now>>
    BY <2>4 DEF ClientStep, Send, StartReceiving, Receive, TimeOut, Report, Restart
  <2>5. ASSUME NEW m \in Datagram, Handle(m), ~Serve(m)
        PROVE  UNCHANGED <<serverVars, now>>
    BY <2>5 DEF Handle, LoseRequest, LoseResponse, Undeliverable
  <2>6. CASE UNCHANGED vars
    BY <2>3, <2>6 DEF vars, serverVars
  <2> QED BY <2>1, <2>2, <2>3, <2>4, <2>5, <2>6 DEF Next
<1> QED BY <1>1, <1>2, Inductive, PTL DEF Spec, Remembers, Window120!Spec
=============================================================================
