------------------------------ MODULE HashProofs ------------------------------
(***************************************************************************)
(* Proofs about the hash server, for any clients, payloads, chunk sizes    *)
(* and buffers: types, the absence of mutual waits, and that the server    *)
(* implements the service of HashService.                                  *)
(***************************************************************************)
EXTENDS HashServer, SequenceTheorems, TLAPS

-----------------------------------------------------------------------------
(* The stages of a conversation. *)

\* What a client has sent, or still has to send, and the server has not read.
Flight(c) == up[c] \o out[c]

Last(c) == asked[c][Len(asked[c])]

\* The server waits for c's next request after k of them, or has done with c.
With(c, k) ==
  \/ /\ clntSock = c /\ server = "header" /\ counter = k /\ k <= hashnum[c]
     /\ hashreq_num = hashnum[c] /\ ctx = Prefix
  \/ clntSock # c /\ k = hashnum[c] /\ \A i \in 1..Len(backlog) : backlog[i] # c

\* The initialization is under way.
Greeting(c) ==
  /\ client[c] = "ack" /\ asked[c] = << >> /\ answered[c] = << >> /\ down[c] = << >>
  /\ clntSock = c => server = "init"
  /\ Flight(c) = <<1, hashnum[c]>> \/ ServerDead

Acknowledged(c) ==
  /\ client[c] = "ack" /\ asked[c] = << >> /\ answered[c] = << >> /\ Flight(c) = << >>
  /\ \E m \in Message : down[c] = <<m>>
  /\ With(c, 0)

\* Between two requests, or after the last.
Idle(c) ==
  /\ client[c] \in {"next", "stuck", "done"}
  /\ client[c] = "done" => Len(asked[c]) = hashnum[c]
  /\ Len(asked[c]) = Len(answered[c]) /\ Flight(c) = << >> /\ down[c] = << >>
  /\ With(c, Len(asked[c]))

\* One request is not answered, and the server serves its client.
Open(c) ==
  /\ client[c] = "response" /\ clntSock = c /\ down[c] = << >>
  /\ Len(asked[c]) = Len(answered[c]) + 1
  /\ counter = Len(answered[c]) /\ counter < hashreq_num /\ hashreq_num = hashnum[c]

Asking(c) ==
  /\ Open(c) /\ server = "header" /\ ctx = Prefix
  /\ Flight(c) = <<3, Len(Last(c))>> \o Last(c)

Reading(c) ==
  /\ Open(c) /\ server = "payload"
  /\ (ctx \o read_buffer) \o Flight(c) = Prefix \o Last(c)
  /\ Len(read_buffer) + Len(Flight(c)) = left

Responded(c) ==
  /\ client[c] = "response" /\ Flight(c) = << >>
  /\ Len(asked[c]) = Len(answered[c]) + 1
  /\ \E m \in Message : down[c] = <<m>> /\ m.type = 4 /\ m.checksum = Prefix \o Last(c)
  /\ With(c, Len(asked[c]))

Stage(c) ==
  Greeting(c) \/ Acknowledged(c) \/ Idle(c) \/ Asking(c) \/ Reading(c) \/ Responded(c)

Live(c) == client[c] \notin {"start", "dead", "spin"}

Stages == \A c \in Client : Live(c) => Stage(c)

\* A client that has not connected has left no trace, and the server has each
\* client at most once.
Fresh ==
  \A c \in Client : client[c] = "start" =>
    /\ up[c] = << >> /\ out[c] = << >> /\ down[c] = << >>
    /\ asked[c] = << >> /\ answered[c] = << >>
    /\ clntSock # c /\ \A i \in 1..Len(backlog) : backlog[i] # c

Queue ==
  /\ \A i, j \in 1..Len(backlog) : backlog[i] = backlog[j] => i = j
  /\ \A i \in 1..Len(backlog) : backlog[i] # clntSock

\* Without a death nothing is lost.
Unhurt ==
  (\A c \in Client : client[c] # "dead") =>
    server \notin {"spin", "dead"} /\ \A c \in Client : client[c] # "spin"

IInv == TypeOK /\ Stages /\ Fresh /\ Queue /\ Unhurt

-----------------------------------------------------------------------------
(* Sequences and messages. *)

\* Of the server's messages the one with type 4 carries a checksum.
LEMMA ResponseChecksum ==
  ASSUME NEW m \in Message, m.type = 4 PROVE m.checksum \in Seq(Int)
<1>1. CASE m \in [type : {2}, num : Nat]
  <2>1. m.type \in {2}
    BY <1>1
  <2> QED BY <2>1
<1>2. CASE m \in [type : {4}, counter : Nat, checksum : Seq(Int)]
  BY <1>2
<1> QED BY <1>1, <1>2 DEF Message

LEMMA Split ==
  ASSUME NEW S, NEW s \in Seq(S), NEW k \in 0..Len(s)
  PROVE  SubSeq(s, 1, k) \o SubSeq(s, k + 1, Len(s)) = s
<1>1. 1 \in 1..Len(s) + 1 /\ k \in 1-1..Len(s) /\ Len(s) \in k..Len(s)
  OBVIOUS
<1>2. SubSeq(s, 1, k) \o SubSeq(s, k + 1, Len(s)) = SubSeq(s, 1, Len(s))
  BY <1>1, ConcatAdjacentSubSeq
<1> QED BY <1>2, SubSeqFull

LEMMA Parts ==
  ASSUME NEW S, NEW s \in Seq(S), NEW k \in 0..Len(s)
  PROVE  /\ SubSeq(s, 1, k) \in Seq(S) /\ Len(SubSeq(s, 1, k)) = k
         /\ SubSeq(s, k + 1, Len(s)) \in Seq(S)
         /\ Len(SubSeq(s, k + 1, Len(s))) = Len(s) - k
  OBVIOUS

\* Bytes that move from one side of a cut to the other.
LEMMA Moved ==
  ASSUME NEW S, NEW u \in Seq(S), NEW v \in Seq(S), NEW k \in 0..Len(v)
  PROVE  (u \o SubSeq(v, 1, k)) \o SubSeq(v, k + 1, Len(v)) = u \o v
<1> DEFINE a == SubSeq(v, 1, k)
           b == SubSeq(v, k + 1, Len(v))
<1>1. a \in Seq(S) /\ b \in Seq(S)
  BY Parts
<1>2. a \o b = v
  BY Split
<1> HIDE DEF a, b
<1>3. (u \o a) \o b = u \o (a \o b)
  BY <1>1, ConcatAssociative, SMTT(30)
<1>4. (u \o a) \o b = u \o v
  BY <1>2, <1>3
<1> QED BY <1>4, Zenon DEF a, b

LEMMA SameSeq ==
  ASSUME NEW S, NEW a \in Seq(S), NEW b \in Seq(S), Len(a) = Len(b),
         \A i \in 1..Len(a) : a[i] = b[i]
  PROVE  a = b
  OBVIOUS

LEMMA FromThird ==
  ASSUME NEW S, NEW u \in Seq(S), Len(u) >= 2
  PROVE  /\ SubSeq(u, 3, Len(u)) \in Seq(S) /\ Len(SubSeq(u, 3, Len(u))) = Len(u) - 2
         /\ \A i \in 1..Len(u) - 2 : SubSeq(u, 3, Len(u))[i] = u[i + 2]
<1> DEFINE n == Len(u)
           r == SubSeq(u, 3, n)
<1>1. n \in Nat /\ n >= 2
  OBVIOUS
<1>2. /\ r \in Seq(S) /\ Len(r) = IF 3 <= n THEN n - 3 + 1 ELSE 0
      /\ \A j \in 1..n - 3 + 1 : r[j] = u[3 + j - 1]
  <2>1. \A j \in 3..n : u[j] \in S
    OBVIOUS
  <2> HIDE DEF n
  <2> QED BY <1>1, <2>1, SubSeqProperties
<1> HIDE DEF n, r
<1>3. Len(r) = n - 2 /\ \A i \in 1..n - 2 : r[i] = u[i + 2]
  BY ONLY <1>1, <1>2
<1> QED BY <1>2, <1>3, Zenon DEF r, n

\* The first two words of a stream do not depend on where it is cut further on.
LEMMA Cut ==
  ASSUME NEW S, NEW u \in Seq(S), NEW v \in Seq(S), Len(u) >= 2
  PROVE  /\ SubSeq(u, 3, Len(u)) \o v = SubSeq(u \o v, 3, Len(u \o v))
         /\ u[2] = (u \o v)[2]
<1>1. (u \o v)[2] = u[2]
  OBVIOUS
<1> DEFINE r == SubSeq(u, 3, Len(u))
           f == u \o v
           q == SubSeq(f, 3, Len(f))
<1>2. /\ r \in Seq(S) /\ Len(r) = Len(u) - 2
      /\ \A i \in 1..Len(r) : r[i] = u[i + 2]
  BY FromThird
<1>3. /\ f \in Seq(S) /\ Len(f) = Len(u) + Len(v)
      /\ \A i \in 1..Len(f) : f[i] = IF i <= Len(u) THEN u[i] ELSE v[i - Len(u)]
  <2>1. u \o v \in Seq(S) /\ Len(u \o v) = Len(u) + Len(v)
    BY ConcatProperties
  <2>2. \A i \in 1..Len(u) + Len(v) : (u \o v)[i] = IF i <= Len(u) THEN u[i] ELSE v[i - Len(u)]
    BY ConcatProperties
  <2> QED BY <2>1, <2>2, Zenon
<1> HIDE DEF f
<1>4. /\ q \in Seq(S) /\ Len(q) = Len(f) - 2
      /\ \A i \in 1..Len(q) : q[i] = f[i + 2]
  BY <1>3
<1> HIDE DEF r, q
<1> DEFINE rv == r \o v
<1>5. /\ rv \in Seq(S) /\ Len(rv) = Len(r) + Len(v)
      /\ \A i \in 1..Len(rv) : rv[i] = IF i <= Len(r) THEN r[i] ELSE v[i - Len(r)]
  <2>1. rv \in Seq(S) /\ Len(rv) = Len(r) + Len(v)
    BY <1>2, ConcatProperties
  <2>2. \A i \in 1..Len(r) + Len(v) : rv[i] = IF i <= Len(r) THEN r[i] ELSE v[i - Len(r)]
    BY <1>2, ConcatProperties
  <2> HIDE DEF rv
  <2> QED BY <2>1, <2>2, Zenon
<1> HIDE DEF rv
<1>6. rv = q
  <2>1. Len(rv) = Len(q)
    BY <1>2, <1>3, <1>4, <1>5
  <2>2. ASSUME NEW i \in 1..Len(rv) PROVE rv[i] = q[i]
    BY <2>1, <1>2, <1>3, <1>4, <1>5
  <2> QED BY <2>1, <2>2, <1>4, <1>5, SameSeq
<1> QED BY <1>1, <1>6 DEF rv, q, f, r


\* Two words in front of a payload.
LEMMA Rest ==
  ASSUME NEW S, NEW p \in Seq(S), NEW x \in S, NEW y \in S
  PROVE  /\ SubSeq(<<x, y>> \o p, 3, Len(<<x, y>> \o p)) = p
         /\ (<<x, y>> \o p)[2] = y
<1> DEFINE w == <<x, y>>
<1>1. w \in Seq(S) /\ Len(w) = 2 /\ w[2] = y
  OBVIOUS
<1> HIDE DEF w
<1>2. SubSeq(w, 3, Len(w)) \o p = SubSeq(w \o p, 3, Len(w \o p)) /\ w[2] = (w \o p)[2]
  <2>1. Len(w) >= 2
    BY <1>1
  <2> QED BY <1>1, <2>1, Cut, Zenon
<1>3. SubSeq(w, 3, Len(w)) \o p = p
  <2>1. SubSeq(w, 3, Len(w)) = << >>
    BY <1>1, SubSeqEmpty
  <2> QED BY <2>1, ConcatEmptySeq
<1> QED BY <1>1, <1>2, <1>3 DEF w

LEMMA Piece ==
  ASSUME NEW f \in Seq(Nat), NEW p \in Nat, NEW n \in Nat, p + n <= Len(f)
  PROVE  /\ SubSeq(f, p + 1, p + n) \in Seq(Nat)
         /\ Len(SubSeq(f, p + 1, p + n)) = n
         /\ p + n \in Nat
  OBVIOUS

LEMMA Words ==
  ASSUME NEW s \in Seq(Nat), Len(s) >= 2
  PROVE  s[2] \in Nat /\ SubSeq(s, 3, Len(s)) \in Seq(Nat)
  OBVIOUS

LEMMA Pieces ==
  ASSUME NEW s \in Seq(Nat), NEW k \in 0..Len(s)
  PROVE  /\ SubSeq(s, 1, k) \in Seq(Nat) /\ SubSeq(s, 1, k) \in Seq(Int)
         /\ Len(SubSeq(s, 1, k)) = k
         /\ SubSeq(s, k + 1, Len(s)) \in Seq(Nat)
  OBVIOUS

LEMMA PrefixType == Prefix \in Seq(Int)
  BY HashAssumption DEF Prefix

-----------------------------------------------------------------------------
(* Types. *)

LEMMA TypeInit == Init => TypeOK
  BY HashAssumption DEF Init, TypeOK, Wanted, ChunkDue

\* The client's actions; a checksum is read only where one has been sent.
LEMMA TypeClient ==
  ASSUME TypeOK, Stages, NEW c \in Client, Connect(c) \/ Kill(c) \/ ClientStep(c)
  PROVE  TypeOK'
<1> USE HashAssumption DEF TypeOK
<1>1. CASE Connect(c)
  <2>1. <<1, hashnum[c]>> \in Seq(Nat)
    OBVIOUS
  <2>2. out' \in [Client -> Seq(Nat)]
    BY <1>1, <2>1 DEF Connect
  <2>3. UNCHANGED <<up, down, position, asked, answered, serverVars>>
    BY <1>1 DEF Connect
  <2>4. backlog' \in Seq(Client)
    BY <1>1 DEF Connect
  <2>5. client' = [client EXCEPT ![c] = "ack"]
    BY <1>1 DEF Connect
  <2> QED BY <2>2, <2>3, <2>4, <2>5 DEF serverVars, requestVars, Wanted, ChunkDue
<1>2. CASE Transmit(c)
  <2>1. PICK k \in 1..Len(out[c]) :
          /\ up' = [up EXCEPT ![c] = @ \o SubSeq(out[c], 1, k)]
          /\ out' = [out EXCEPT ![c] = SubSeq(@, k + 1, Len(@))]
    BY <1>2 DEF Transmit
  <2>2. out[c] \in Seq(Nat) /\ up[c] \in Seq(Nat) /\ k \in 0..Len(out[c])
    BY <2>1
  <2>3. /\ up[c] \o SubSeq(out[c], 1, k) \in Seq(Nat)
        /\ SubSeq(out[c], k + 1, Len(out[c])) \in Seq(Nat)
    BY <2>2, Parts, ConcatProperties
  <2>4. up' \in [Client -> Seq(Nat)] /\ out' \in [Client -> Seq(Nat)]
    BY <2>1, <2>3
  <2> QED BY <1>2, <2>4 DEF Transmit, serverVars, requestVars, Wanted, ChunkDue
<1>3. ASSUME NEW at, Reads(c, at) PROVE down' \in [Client -> Seq(Message)]
  <2>1. down[c] \in Seq(Message) /\ down[c] # << >>
    BY <1>3 DEF Reads
  <2>2. Tail(down[c]) \in Seq(Message)
    BY <2>1
  <2> QED BY <2>2, <1>3 DEF Reads
<1>4. CASE GetAck(c)
  <2>1. client' = [client EXCEPT ![c] = "next"]
    BY <1>4 DEF GetAck, Reads
  <2> QED BY <1>3, <1>4, <2>1 DEF GetAck, serverVars, requestVars, Wanted, ChunkDue
<1>5. CASE Request(c)
  <2>1. PICK n \in Size[c] :
          /\ position[c] + n <= Len(File[c])
          /\ LET payload == SubSeq(File[c], position[c] + 1, position[c] + n)
             IN  /\ out' = [out EXCEPT ![c] = <<3, n>> \o payload]
                 /\ asked' = [asked EXCEPT ![c] = Append(@, payload)]
          /\ position' = [position EXCEPT ![c] = @ + n]
    BY <1>5 DEF Request
  <2> DEFINE payload == SubSeq(File[c], position[c] + 1, position[c] + n)
  <2>2. n \in Nat /\ position[c] \in Nat /\ File[c] \in Seq(Nat)
    OBVIOUS
  <2>3. payload \in Seq(Nat)
    BY <2>1, <2>2, Piece
  <2>4. <<3, n>> \o payload \in Seq(Nat)
    <3>1. <<3, n>> \in Seq(Nat)
      BY <2>2
    <3> HIDE DEF payload
    <3> QED BY <2>3, <3>1, ConcatProperties
  <2>5. asked[c] \in Seq(Seq(Nat))
    OBVIOUS
  <2>6. out' \in [Client -> Seq(Nat)]
    BY <2>1, <2>4
  <2>7. asked' \in [Client -> Seq(Seq(Nat))]
    <3>1. Append(asked[c], payload) \in Seq(Seq(Nat))
      BY <2>3, <2>5
    <3> QED BY <2>1, <3>1
  <2>8. position' \in [Client -> Nat]
    <3>1. position[c] + n \in Nat
      BY <2>1, <2>2, Piece
    <3>2. position' = [position EXCEPT ![c] = position[c] + n]
      BY <2>1
    <3> QED BY <3>1, <3>2
  <2> QED
    BY <1>5, <2>6, <2>7, <2>8 DEF Request, serverVars, requestVars, Wanted, ChunkDue
<1>6. CASE FileEnds(c)
  <2>1. Len(File[c]) \in Nat
    OBVIOUS
  <2>2. position' \in [Client -> Nat]
    BY <2>1, <1>6 DEF FileEnds
  <2> QED BY <1>6, <2>2 DEF FileEnds, serverVars, requestVars, Wanted, ChunkDue
<1>7. CASE GetResponse(c)
  <2>1. client[c] = "response" /\ down[c] # << >>
    BY <1>7 DEF GetResponse, Reads
  <2>2. PICK m \in Message : down[c] = <<m>> /\ m.type = 4
    BY <2>1 DEF Stages, Live, Stage, Greeting, Acknowledged, Idle, Open, Asking, Reading,
                Responded
  <2>3. Head(down[c]).checksum \in Seq(Int)
    <3>1. Head(down[c]) = m
      BY <2>2
    <3>2. m.checksum \in Seq(Int)
      BY <2>2, ResponseChecksum
    <3> QED BY <3>1, <3>2
  <2>4. answered' \in [Client -> Seq(Seq(Int))]
    BY <1>7, <2>3 DEF GetResponse
  <2>5. client' = [client EXCEPT ![c] = "next"]
    BY <1>7 DEF GetResponse, Reads
  <2>6. down' \in [Client -> Seq(Message)]
    BY <1>3, <1>7 DEF GetResponse
  <2> QED
    BY <1>7, <2>4, <2>5, <2>6 DEF GetResponse, serverVars, requestVars, Wanted, ChunkDue
<1>8. CASE Close(c)
  BY <1>8 DEF Close, serverVars, requestVars, Wanted, ChunkDue
<1>9. CASE Kill(c)
  <2>1. client' \in [Client -> {"start", "ack", "next", "response", "done", "stuck",
                                "spin", "dead"}]
    BY <1>9 DEF Kill
  <2>2. out' \in [Client -> Seq(Nat)]
    <3>1. << >> \in Seq(Nat)
      OBVIOUS
    <3> QED BY <1>9, <3>1 DEF Kill
  <2>3. UNCHANGED <<up, down, position, asked, answered, backlog, serverVars>>
    BY <1>9 DEF Kill
  <2> QED BY <2>1, <2>2, <2>3 DEF serverVars, requestVars, Wanted, ChunkDue
<1>10. CASE ServerGone(c)
  <2>1. UNCHANGED <<up, down, position, asked, answered, backlog, serverVars>>
    BY <1>10 DEF ServerGone
  <2>2. /\ out' = out \/ out' = [out EXCEPT ![c] = << >>]
        /\ client' = client \/ client' = [client EXCEPT ![c] = "dead"]
             \/ client' = [client EXCEPT ![c] = "spin"]
    BY <1>10 DEF ServerGone
  <2>3. out' \in [Client -> Seq(Nat)]
    <3>1. << >> \in Seq(Nat)
      OBVIOUS
    <3> QED BY <2>2, <3>1
  <2> QED BY <2>1, <2>2, <2>3 DEF serverVars, requestVars, Wanted, ChunkDue
<1> QED
  BY <1>1, <1>2, <1>4, <1>5, <1>6, <1>7, <1>8, <1>9, <1>10 DEF ClientStep

LEMMA SendsTypes ==
  ASSUME TypeOK, clntSock # None, NEW m \in Message, NEW next, Sends(m, next)
  PROVE  down' \in [Client -> Seq(Message)] /\ server' \in {next, "dead"}
<1>1. clntSock \in Client /\ down \in [Client -> Seq(Message)]
  BY DEF TypeOK
<1>2. Append(down[clntSock], m) \in Seq(Message)
  BY <1>1
<1> QED BY <1>1, <1>2 DEF Sends

\* A recv takes what is there, but no more than it wants.
LEMMA RecvPicks ==
  ASSUME TypeOK, Recv
  PROVE  \E k \in 1..Len(up[clntSock]) :
           /\ k <= Wanted - Len(read_buffer)
           /\ read_buffer' = read_buffer \o SubSeq(up[clntSock], 1, k)
           /\ up' = [up EXCEPT ![clntSock] = SubSeq(@, k + 1, Len(@))]
<1> DEFINE c == clntSock
           missing == Wanted - Len(read_buffer)
           k == IF Len(up[c]) < missing THEN Len(up[c]) ELSE missing
<1>1. /\ k > 0 /\ read_buffer' = read_buffer \o SubSeq(up[c], 1, k)
      /\ up' = [up EXCEPT ![c] = SubSeq(@, k + 1, Len(@))]
  BY DEF Recv
<1>2. Len(up[c]) \in Nat /\ missing \in Int
  BY HashAssumption DEF TypeOK, Recv, Wanted, ChunkDue
<1>3. k \in 1..Len(up[c]) /\ k <= missing
  BY <1>1, <1>2
<1> QED BY <1>1, <1>3

LEMMA TypeServer ==
  ASSUME TypeOK, ServerStep
  PROVE  TypeOK'
<1> USE HashAssumption DEF TypeOK
<1>1. CASE Accept
  <2>1. Head(backlog) \in Client /\ Tail(backlog) \in Seq(Client)
    BY <1>1 DEF Accept
  <2> QED BY <1>1, <2>1 DEF Accept, clientVars, requestVars, Wanted, ChunkDue
<1> DEFINE c == clntSock
<1>2. CASE Initialize
  <2>1. c \in Client /\ up[c] \in Seq(Nat) /\ Len(up[c]) >= 2
    BY <1>2 DEF Initialize
  <2>2. up[c][2] \in Nat /\ SubSeq(up[c], 3, Len(up[c])) \in Seq(Nat)
    BY <2>1, Words
  <2>3. [type |-> 2, num |-> up[c][2]] \in Message
    BY <2>2 DEF Message
  <2>4. down' \in [Client -> Seq(Message)] /\ server' \in {"header", "dead"}
    BY <1>2, <2>1, <2>3, SendsTypes DEF Initialize
  <2>5. up' \in [Client -> Seq(Nat)]
    BY <1>2, <2>1, <2>2 DEF Initialize
  <2>6. hashreq_num' \in Nat /\ ctx' \in Seq(Int) /\ counter' \in Nat
    BY <1>2, <2>2, PrefixType DEF Initialize
  <2> QED
    BY <1>2, <2>1, <2>4, <2>5, <2>6
       DEF Initialize, clientVars, requestVars, Wanted, ChunkDue
<1>3. CASE Header
  <2>1. c \in Client /\ up[c] \in Seq(Nat) /\ Len(up[c]) >= 2
    BY <1>3 DEF Header
  <2>2. up[c][2] \in Nat /\ SubSeq(up[c], 3, Len(up[c])) \in Seq(Nat)
    BY <2>1, Words
  <2>3. up' \in [Client -> Seq(Nat)]
    BY <1>3, <2>1, <2>2 DEF Header
  <2>4. /\ left' \in Nat /\ mes_length' \in Nat /\ read_buffer' = << >>
        /\ server' = "payload"
    BY <1>3, <2>2 DEF Header
  <2>5. Len(read_buffer') <= Wanted'
    BY <2>4 DEF Wanted, ChunkDue
  <2>6. UNCHANGED <<clientVars, down, backlog, clntSock, hashreq_num, counter, ctx>>
    BY <1>3 DEF Header
  <2>7. read_buffer' \in Seq(Int) /\ c # None
    BY <2>1, <2>4
  <2> QED BY <2>3, <2>4, <2>5, <2>6, <2>7, Zenon DEF clientVars
<1>4. CASE Recv
  <2>1. PICK k \in 1..Len(up[c]) :
          /\ k <= Wanted - Len(read_buffer)
          /\ read_buffer' = read_buffer \o SubSeq(up[c], 1, k)
          /\ up' = [up EXCEPT ![c] = SubSeq(@, k + 1, Len(@))]
    BY <1>4, RecvPicks
  <2>2. c \in Client /\ up[c] \in Seq(Nat) /\ k \in 0..Len(up[c])
    BY <1>4, <2>1 DEF Recv
  <2>3. /\ SubSeq(up[c], 1, k) \in Seq(Nat) /\ Len(SubSeq(up[c], 1, k)) = k
        /\ SubSeq(up[c], k + 1, Len(up[c])) \in Seq(Nat)
    BY <2>2, Pieces
  <2>4. up' \in [Client -> Seq(Nat)]
    BY <2>1, <2>2, <2>3
  <2>5. SubSeq(up[c], 1, k) \in Seq(Int)
    BY <2>2, Pieces
  <2>6. read_buffer' \in Seq(Int) /\ Len(read_buffer') = Len(read_buffer) + k
    BY <2>1, <2>3, <2>5, ConcatProperties
  <2>7. Wanted' = Wanted
    BY <1>4 DEF Recv, Wanted, ChunkDue
  <2>8. Len(read_buffer') <= Wanted'
    <3>1. Wanted \in Int /\ Len(read_buffer) \in Int /\ k \in Int
      BY DEF Wanted, ChunkDue
    <3> HIDE DEF TypeOK
    <3> QED BY <2>1, <2>6, <2>7, <3>1
  <2> QED BY <1>4, <2>4, <2>6, <2>8 DEF Recv, clientVars
<1>5. CASE Update
  <2>1. left' \in Nat /\ read_buffer' = << >> /\ mes_length' = mes_length
    BY <1>5 DEF Update, ChunkDue
  <2>2. ctx' \in Seq(Int)
    BY <1>5, ConcatProperties DEF Update
  <2>3. Len(read_buffer') <= Wanted'
    BY <2>1 DEF Wanted, ChunkDue
  <2>4. UNCHANGED <<clientVars, up, down, backlog, server, clntSock, hashreq_num, counter>>
    BY <1>5 DEF Update
  <2>5. read_buffer' \in Seq(Int) /\ mes_length' \in Nat
    BY <2>1
  <2> QED BY <2>1, <2>2, <2>3, <2>4, <2>5, Zenon DEF clientVars
<1>6. CASE Respond
  <2>1. ctx \o read_buffer \in Seq(Int) /\ c \in Client
    BY <1>6, ConcatProperties DEF Respond
  <2>2. [type |-> 4, counter |-> counter, checksum |-> ctx \o read_buffer] \in Message
    BY <2>1 DEF Message
  <2>3. down' \in [Client -> Seq(Message)] /\ server' \in {"header", "dead"}
    BY <1>6, <2>1, <2>2, SendsTypes DEF Respond
  <2>4. ctx' \in Seq(Int) /\ counter' \in Nat
    BY <1>6, PrefixType DEF Respond
  <2> QED
    BY <1>6, <2>1, <2>3, <2>4 DEF Respond, clientVars, requestVars, Wanted, ChunkDue
<1>7. CASE Finish
  BY <1>7 DEF Finish, clientVars, requestVars, Wanted, ChunkDue
<1>8. CASE ClientGone
  BY <1>8 DEF ClientGone, clientVars, requestVars, Wanted, ChunkDue
<1> QED BY <1>1, <1>2, <1>3, <1>4, <1>5, <1>6, <1>7, <1>8 DEF ServerStep

-----------------------------------------------------------------------------
(* The stages are preserved. *)

\* What a client's stage depends on of the client itself.
Same(d) ==
  /\ client'[d] = client[d] /\ Flight(d)' = Flight(d) /\ down'[d] = down[d]
  /\ asked'[d] = asked[d] /\ answered'[d] = answered[d]

InBacklog(d) == \E i \in 1..Len(backlog) : backlog[i] = d

\* A step of another client's.
LEMMA Frame ==
  ASSUME NEW d, Stage(d), Same(d), UNCHANGED serverVars, InBacklog(d)' => InBacklog(d)
  PROVE  Stage(d)'
<1>1. Last(d)' = Last(d) /\ Prefix' = Prefix
  BY DEF Same, Last, Prefix
<1>2. \A k : With(d, k) => With(d, k)'
  BY <1>1 DEF With, InBacklog, serverVars
<1>3. Open(d) => Open(d)'
  BY DEF Open, Same, serverVars
<1>4. CASE Greeting(d)
  BY <1>4 DEF Greeting, Same, serverVars, ServerDead, Stage
<1>5. CASE Acknowledged(d)
  BY <1>2, <1>5 DEF Acknowledged, Same, Stage
<1>6. CASE Idle(d)
  BY <1>2, <1>6 DEF Idle, Same, Stage
<1>7. CASE Asking(d)
  BY <1>1, <1>3, <1>7 DEF Asking, Same, serverVars, Stage
<1>8. CASE Reading(d)
  BY <1>1, <1>3, <1>8 DEF Reading, Same, serverVars, requestVars, Stage
<1>9. CASE Responded(d)
  BY <1>1, <1>2, <1>9 DEF Responded, Same, Stage
<1> QED BY <1>4, <1>5, <1>6, <1>7, <1>8, <1>9 DEF Stage

\* A step of the server's that is about another client, or accepts this one.
LEMMA Bystander ==
  ASSUME NEW d, Stage(d), Same(d), d # clntSock,
         ServerDead => ServerDead', InBacklog(d)' => InBacklog(d),
         clntSock' = d => server' = "init" /\ InBacklog(d)
  PROVE  Stage(d)'
<1>1. Last(d)' = Last(d) /\ Prefix' = Prefix
  BY DEF Same, Last, Prefix
<1>2. \A k : With(d, k) => With(d, k)'
  BY <1>1 DEF With, InBacklog
<1>3. CASE Greeting(d)
  BY <1>3 DEF Greeting, Same, Stage
<1>4. CASE Acknowledged(d)
  BY <1>2, <1>4 DEF Acknowledged, Same, Stage
<1>5. CASE Idle(d)
  BY <1>2, <1>5 DEF Idle, Same, Stage
<1>6. CASE Responded(d)
  BY <1>1, <1>2, <1>6 DEF Responded, Same, Stage
<1> QED BY <1>3, <1>4, <1>5, <1>6 DEF Stage, Asking, Reading, Open

\* A client's own stage after its own step.
LEMMA OwnStep ==
  ASSUME TypeOK, Stages, Fresh, NEW c \in Client,
         Connect(c) \/ Kill(c) \/ ClientStep(c), Live(c)'
  PROVE  Stage(c)'
<1> USE HashAssumption
<1>0. /\ up \in [Client -> Seq(Nat)] /\ out \in [Client -> Seq(Nat)]
      /\ up[c] \in Seq(Nat) /\ out[c] \in Seq(Nat) /\ down[c] \in Seq(Message)
      /\ asked[c] \in Seq(Seq(Nat)) /\ answered[c] \in Seq(Seq(Int))
      /\ client \in [Client -> {"start", "ack", "next", "response", "done", "stuck",
                              "spin", "dead"}]
      /\ asked \in [Client -> Seq(Seq(Nat))] /\ answered \in [Client -> Seq(Seq(Int))]
      /\ down \in [Client -> Seq(Message)] /\ position \in [Client -> Nat]
      /\ hashnum[c] \in Nat /\ counter \in Nat
  BY DEF TypeOK
<1>00. Flight(c) = << >> => up[c] = << >> /\ out[c] = << >>
  BY <1>0 DEF Flight
<1>1. CASE Connect(c)
  <2>1. /\ up'[c] = << >> /\ out'[c] = <<1, hashnum[c]>> /\ client'[c] = "ack"
        /\ down'[c] = << >> /\ asked'[c] = << >> /\ answered'[c] = << >>
        /\ clntSock' # c
    BY <1>1, <1>0 DEF Connect, Fresh, serverVars
  <2>2. Flight(c)' = <<1, hashnum[c]>>
    BY <2>1, <1>0 DEF Flight
  <2> QED BY <2>1, <2>2 DEF Greeting, Stage
<1>2. CASE Transmit(c)
  <2>1. Flight(c)' = Flight(c)
    <3>1. PICK k \in 1..Len(out[c]) :
            /\ up' = [up EXCEPT ![c] = @ \o SubSeq(out[c], 1, k)]
            /\ out' = [out EXCEPT ![c] = SubSeq(@, k + 1, Len(@))]
      BY <1>2 DEF Transmit
    <3>2. up'[c] = up[c] \o SubSeq(out[c], 1, k) /\ out'[c] = SubSeq(out[c], k + 1, Len(out[c]))
      BY <3>1, <1>0
    <3>3. k \in 0..Len(out[c])
      BY <1>0
    <3>4. (up[c] \o SubSeq(out[c], 1, k)) \o SubSeq(out[c], k + 1, Len(out[c])) = up[c] \o out[c]
      <4> DEFINE u == up[c]
                 v == out[c]
      <4>1. u \in Seq(Nat) /\ v \in Seq(Nat) /\ k \in 0..Len(v)
        BY <3>3, <1>0
      <4> HIDE DEF u, v
      <4>2. (u \o SubSeq(v, 1, k)) \o SubSeq(v, k + 1, Len(v)) = u \o v
        BY ONLY <4>1, Moved
      <4> QED BY <4>2 DEF u, v
    <3>5. up'[c] \o out'[c] = up[c] \o out[c]
      BY <3>2, <3>4, Zenon
    <3> QED BY <3>5, Zenon DEF Flight
  <2>2. UNCHANGED <<client, down, asked, answered, backlog, serverVars>>
    BY <1>2 DEF Transmit
  <2>3. Live(c)
    BY <2>2 DEF Live
  <2>4. Stage(c)
    BY <2>3 DEF Stages
  <2> QED BY <2>1, <2>2, <2>4, Frame DEF Same, InBacklog
<1>3. CASE GetAck(c)
  <2>1. client[c] = "ack" /\ down[c] # << >>
    BY <1>3 DEF GetAck, Reads
  <2>2. Acknowledged(c)
    BY <2>1 DEF Stages, Live, Stage, Greeting, Idle, Asking, Reading, Open, Responded
  <2>3. client'[c] = "next" /\ down'[c] = Tail(down[c])
    BY <1>3, <1>0 DEF GetAck, Reads
  <2>4. down'[c] = << >>
    BY <2>2, <2>3, <1>0 DEF Acknowledged
  <2>5. UNCHANGED <<out, up, asked, answered, backlog, serverVars>>
    BY <1>3 DEF GetAck
  <2>6. With(c, 0)'
    BY <2>2, <2>5 DEF Acknowledged, With, serverVars, Prefix
  <2>7. Len(asked'[c]) = 0 /\ Len(answered'[c]) = 0
    BY <2>2, <2>5 DEF Acknowledged
  <2>8. Flight(c)' = << >>
    BY <2>2, <2>5 DEF Acknowledged, Flight
  <2> QED BY <2>3, <2>4, <2>6, <2>7, <2>8 DEF Idle, Stage
<1>4. ASSUME client[c] = "next" PROVE Idle(c)
  BY <1>4 DEF Stages, Live, Stage, Greeting, Acknowledged, Asking, Reading, Open, Responded
<1>5. CASE Request(c)
  <2>1. /\ Idle(c) /\ Len(asked[c]) < hashnum[c] /\ client'[c] = "response"
        /\ UNCHANGED <<up, down, answered, backlog, serverVars>>
    BY <1>4, <1>5, <1>0 DEF Request
  <2>2. PICK n \in Size[c] :
          /\ position[c] + n <= Len(File[c])
          /\ LET payload == SubSeq(File[c], position[c] + 1, position[c] + n)
             IN  /\ out' = [out EXCEPT ![c] = <<3, n>> \o payload]
                 /\ asked' = [asked EXCEPT ![c] = Append(@, payload)]
    BY <1>5 DEF Request
  <2> DEFINE payload == SubSeq(File[c], position[c] + 1, position[c] + n)
  <2>3. n \in Nat /\ position[c] \in Nat /\ File[c] \in Seq(Nat)
    BY <1>0
  <2>4. payload \in Seq(Nat) /\ Len(payload) = n
    <3>1. position[c] + n <= Len(File[c])
      BY <2>2
    <3> DEFINE f == File[c]
               p == position[c]
    <3>2. f \in Seq(Nat) /\ p \in Nat /\ n \in Nat /\ p + n <= Len(f)
      BY <3>1, <2>3
    <3> HIDE DEF f, p
    <3>3. SubSeq(f, p + 1, p + n) \in Seq(Nat) /\ Len(SubSeq(f, p + 1, p + n)) = n
      BY ONLY <3>2, Piece
    <3> QED BY <3>3 DEF f, p
  <2>5. out'[c] = <<3, n>> \o payload /\ asked'[c] = Append(asked[c], payload)
    BY <2>2, <1>0
  <2> HIDE DEF payload
  <2>6. Len(asked'[c]) = Len(asked[c]) + 1 /\ Last(c)' = payload
    BY <2>4, <2>5, <1>0 DEF Last
  <2>7. Flight(c)' = <<3, Len(Last(c)')>> \o Last(c)'
    <3>1. up'[c] = << >>
      BY <2>1, <1>00 DEF Idle
    <3>2. <<3, n>> \o payload \in Seq(Nat)
      BY <2>3, <2>4
    <3>3. up'[c] \o out'[c] = <<3, n>> \o payload
      BY <3>1, <3>2, <2>5, ConcatEmptySeq
    <3> QED BY <3>3, <2>4, <2>6 DEF Flight
  <2>8. /\ clntSock = c /\ server = "header" /\ counter = Len(answered[c])
        /\ hashreq_num = hashnum[c] /\ ctx = Prefix /\ Len(answered[c]) = Len(asked[c])
        /\ down[c] = << >>
    BY <2>1 DEF Idle, With
  <2>9. Open(c)'
    BY <2>1, <2>6, <2>8 DEF Open, serverVars
  <2>10. server' = "header" /\ ctx' = Prefix'
    BY <2>1, <2>8 DEF serverVars, Prefix
  <2> QED BY <2>7, <2>9, <2>10 DEF Asking, Stage
<1>6. CASE FileEnds(c) \/ Close(c)
  <2>1. /\ Idle(c) /\ UNCHANGED <<out, up, down, asked, answered, backlog, serverVars>>
        /\ client'[c] = "stuck" \/ (client'[c] = "done" /\ Len(asked[c]) = hashnum[c])
    BY <1>4, <1>6, <1>0 DEF FileEnds, Close
  <2>2. With(c, Len(asked[c])) => With(c, Len(asked[c]))'
    BY <2>1 DEF With, serverVars, Prefix
  <2> QED BY <2>1, <2>2 DEF Idle, Flight, Stage
<1>7. CASE GetResponse(c)
  <2>1. client[c] = "response" /\ down[c] # << >>
    BY <1>7 DEF GetResponse, Reads
  <2>2. Responded(c)
    BY <2>1 DEF Stages, Live, Stage, Greeting, Acknowledged, Idle, Asking, Reading, Open
  <2>3. /\ client'[c] = "next" /\ down'[c] = Tail(down[c])
        /\ answered'[c] = Append(answered[c], Head(down[c]).checksum)
        /\ UNCHANGED <<out, up, asked, backlog, serverVars>>
    BY <1>7, <1>0 DEF GetResponse, Reads
  <2>4. down'[c] = << >>
    BY <2>2, <2>3, <1>0 DEF Responded
  <2>5. Len(answered'[c]) = Len(answered[c]) + 1
    BY <2>3, <1>0
  <2>6. With(c, Len(asked[c])) => With(c, Len(asked[c]))'
    BY <2>3 DEF With, serverVars, Prefix
  <2> QED BY <2>2, <2>3, <2>4, <2>5, <2>6 DEF Responded, Idle, Flight, Stage
<1>8. CASE Kill(c)
  BY <1>8, <1>0 DEF Kill, Live
<1>9. CASE ServerGone(c)
  <2>1. /\ ServerDead /\ ServerDead'
        /\ UNCHANGED <<up, down, asked, answered, backlog, serverVars>>
    BY <1>9 DEF ServerGone, ServerDead, serverVars
  <2>2. client'[c] = client[c] /\ out[c] # << >>
    <3>1. client'[c] \notin {"dead", "spin", "start"}
      BY DEF Live
    <3>2. client' = client
      BY <1>9, <1>0, <3>1 DEF ServerGone
    <3>3. client[c] # "start"
      BY <3>1, <3>2
    <3> QED BY <1>9, <1>0, <3>1, <3>2, <3>3 DEF ServerGone
  <2>3. Stage(c)
    BY <2>2 DEF Stages, Live
  <2>4. Greeting(c)
    BY <2>1, <2>2, <2>3, <1>00
       DEF Stage, Acknowledged, Idle, Asking, Reading, Responded, ServerDead
  <2> QED BY <2>1, <2>2, <2>4 DEF Greeting, Stage, serverVars
<1> QED
  BY <1>1, <1>2, <1>3, <1>5, <1>6, <1>7, <1>8, <1>9 DEF ClientStep

\* What a client's step leaves alone.
LEMMA Others ==
  ASSUME TypeOK, NEW c \in Client, Connect(c) \/ Kill(c) \/ ClientStep(c)
  PROVE  /\ UNCHANGED serverVars
         /\ \A d \in Client \ {c} : Same(d)
         /\ \/ UNCHANGED backlog
            \/ client[c] = "start" /\ backlog' = Append(backlog, c)
<1>0. /\ up \in [Client -> Seq(Nat)] /\ out \in [Client -> Seq(Nat)]
      /\ client \in [Client -> {"start", "ack", "next", "response", "done", "stuck",
                              "spin", "dead"}]
      /\ asked \in [Client -> Seq(Seq(Nat))] /\ answered \in [Client -> Seq(Seq(Int))]
      /\ down \in [Client -> Seq(Message)]
  BY DEF TypeOK
<1>1. UNCHANGED serverVars
  BY DEF Connect, Kill, ClientStep, Transmit, GetAck, Request, FileEnds, GetResponse, Close,
         ServerGone
<1>2. \/ UNCHANGED backlog
      \/ client[c] = "start" /\ backlog' = Append(backlog, c)
  <2>1. CASE Connect(c)
    BY <2>1 DEF Connect
  <2>2. ASSUME Kill(c) \/ ClientStep(c) PROVE UNCHANGED backlog
    BY <2>2 DEF Kill, ClientStep, Transmit, GetAck, Request, FileEnds, GetResponse, Close,
                ServerGone
  <2> QED BY <2>1, <2>2
<1>3. ASSUME NEW d \in Client \ {c} PROVE Same(d)
  <2>1. client'[d] = client[d]
    BY <1>0 DEF Connect, Kill, ClientStep, Transmit, GetAck, Request, FileEnds,
                GetResponse, Close, ServerGone, Reads
  <2>2. up'[d] = up[d]
    BY <1>0 DEF Connect, Kill, ClientStep, Transmit, GetAck, Request, FileEnds,
                GetResponse, Close, ServerGone, Reads
  <2>3. out'[d] = out[d]
    BY <1>0 DEF Connect, Kill, ClientStep, Transmit, GetAck, Request, FileEnds,
                GetResponse, Close, ServerGone, Reads
  <2>4. down'[d] = down[d]
    BY <1>0 DEF Connect, Kill, ClientStep, Transmit, GetAck, Request, FileEnds,
                GetResponse, Close, ServerGone, Reads
  <2>5. asked'[d] = asked[d] /\ answered'[d] = answered[d]
    BY <1>0 DEF Connect, Kill, ClientStep, Transmit, GetAck, Request, FileEnds,
                GetResponse, Close, ServerGone, Reads
  <2> QED BY <2>1, <2>2, <2>3, <2>4, <2>5 DEF Same, Flight
<1> QED BY <1>1, <1>2, <1>3

LEMMA ClientKeeps ==
  ASSUME IInv, NEW c \in Client, Connect(c) \/ Kill(c) \/ ClientStep(c)
  PROVE  IInv'
<1>1. TypeOK /\ Stages /\ Fresh /\ Queue /\ Unhurt
  BY DEF IInv
<1>2. TypeOK'
  BY <1>1, TypeClient
<1>3. /\ UNCHANGED serverVars
      /\ \A d \in Client \ {c} : Same(d)
      /\ \/ UNCHANGED backlog
         \/ client[c] = "start" /\ backlog' = Append(backlog, c)
  BY <1>1, Others
<1>4. backlog \in Seq(Client)
  BY <1>1 DEF TypeOK
<1>5. ASSUME NEW d \in Client \ {c}, InBacklog(d)' PROVE InBacklog(d)
  BY <1>3, <1>4, <1>5 DEF InBacklog
<1>6. Stages'
  <2> SUFFICES ASSUME NEW d \in Client, Live(d)' PROVE Stage(d)'
    BY DEF Stages
  <2>1. CASE d = c
    BY <1>1, <2>1, OwnStep
  <2>2. CASE d # c
    <3>1. Same(d) /\ (InBacklog(d)' => InBacklog(d))
      BY <1>3, <1>5, <2>2
    <3>2. Live(d)
      BY <3>1 DEF Live, Same
    <3>3. Stage(d)
      BY <1>1, <3>2 DEF Stages
    <3> QED BY <3>1, <3>3, <1>3, Frame
  <2> QED BY <2>1, <2>2
<1>7. client'[c] # "start"
  <2>1. client \in [Client -> {"start", "ack", "next", "response", "done", "stuck",
                              "spin", "dead"}]
        /\ out \in [Client -> Seq(Nat)]
    BY <1>1 DEF TypeOK
  <2>2. client[c] = "start" => out[c] = << >>
    BY <1>1 DEF Fresh
  <2>3. CASE ServerGone(c)
    <3>1. client[c] = "start" /\ client' = client => FALSE
      <4>1. out[c] = << >> => [out EXCEPT ![c] = << >>] = out
        BY <2>1
      <4> QED BY <2>2, <2>3, <4>1 DEF ServerGone
    <3>2. client' = client \/ client' = [client EXCEPT ![c] = "dead"]
            \/ client' = [client EXCEPT ![c] = "spin"]
      BY <2>3 DEF ServerGone
    <3> QED BY <2>1, <3>1, <3>2
  <2>4. CASE Transmit(c)
    <3>1. out[c] # << >> /\ client' = client
      BY <2>1, <2>4 DEF Transmit
    <3> QED BY <2>2, <3>1
  <2> QED
    BY <2>1, <2>3, <2>4 DEF Connect, Kill, ClientStep, GetAck, Request, FileEnds,
                            GetResponse, Close, Reads
<1>8. Fresh'
  <2> SUFFICES ASSUME NEW d \in Client, client'[d] = "start"
               PROVE  /\ up'[d] = << >> /\ out'[d] = << >> /\ down'[d] = << >>
                      /\ asked'[d] = << >> /\ answered'[d] = << >>
                      /\ clntSock' # d /\ ~InBacklog(d)'
    BY DEF Fresh, InBacklog
  <2>1. d # c
    BY <1>7
  <2>2. Same(d) /\ client[d] = "start"
    BY <1>3, <2>1 DEF Same
  <2>3. /\ up[d] = << >> /\ out[d] = << >> /\ down[d] = << >> /\ asked[d] = << >>
        /\ answered[d] = << >> /\ clntSock # d /\ ~InBacklog(d)
    BY <1>1, <2>2 DEF Fresh, InBacklog
  <2>4. up'[d] = << >> /\ out'[d] = << >>
    <3>1. Flight(d)' = << >> /\ up'[d] \in Seq(Nat) /\ out'[d] \in Seq(Nat)
      BY <1>2, <2>2, <2>3 DEF Same, Flight, TypeOK
    <3> QED BY <3>1 DEF Flight
  <2> QED BY <1>3, <1>5, <2>1, <2>2, <2>3, <2>4 DEF Same, serverVars
<1>9. Queue'
  <2>1. client[c] = "start" => clntSock # c /\ ~InBacklog(c)
    BY <1>1 DEF Fresh, InBacklog
  <2>2. clntSock' = clntSock
    BY <1>3 DEF serverVars
  <2>3. CASE UNCHANGED backlog
    BY <1>1, <2>2, <2>3 DEF Queue
  <2>4. CASE client[c] = "start" /\ backlog' = Append(backlog, c)
    BY <1>1, <1>4, <2>1, <2>2, <2>4 DEF Queue, InBacklog
  <2> QED BY <1>3, <2>3, <2>4
<1>10. Unhurt'
  <2> SUFFICES ASSUME \A d \in Client : client'[d] # "dead"
               PROVE  server' \notin {"spin", "dead"} /\ \A d \in Client : client'[d] # "spin"
    BY DEF Unhurt
  <2>1. client \in [Client -> {"start", "ack", "next", "response", "done", "stuck",
                              "spin", "dead"}]
    BY <1>1 DEF TypeOK
  <2>2. client[c] = "dead" => client'[c] = "dead"
    BY <2>1 DEF Connect, Kill, ClientStep, Transmit, GetAck, Request, FileEnds,
                GetResponse, Close, ServerGone, Reads, Gone
  <2>3. \A d \in Client : client[d] # "dead"
    BY <1>3, <2>2 DEF Same
  <2>4. server \notin {"spin", "dead"} /\ \A d \in Client : client[d] # "spin"
    BY <1>1, <2>3 DEF Unhurt
  <2>5. client'[c] # "spin"
    BY <2>1, <2>4 DEF Connect, Kill, ClientStep, Transmit, GetAck, Request, FileEnds,
                GetResponse, Close, ServerGone, Reads, ServerDead
  <2> QED BY <1>3, <2>4, <2>5 DEF Same, serverVars
<1> QED BY <1>2, <1>6, <1>8, <1>9, <1>10 DEF IInv

-----------------------------------------------------------------------------
(* The server's steps. *)

LEMMA ServerOthers ==
  ASSUME TypeOK, ServerStep
  PROVE  /\ ~ServerDead /\ UNCHANGED clientVars
         /\ \A d \in Client : InBacklog(d)' => InBacklog(d)
         /\ \A d \in Client \ {clntSock} :
              Same(d) /\ (clntSock' = d => server' = "init" /\ InBacklog(d))
<1>0. /\ up \in [Client -> Seq(Nat)] /\ down \in [Client -> Seq(Message)]
      /\ backlog \in Seq(Client) /\ clntSock \in Client \cup {None}
      /\ clntSock = None <=> server = "accept"
  BY DEF TypeOK
<1>1. ~ServerDead /\ UNCHANGED clientVars
  BY DEF ServerStep, ServerDead, Accept, Initialize, Header, Recv, Update, Respond, Finish,
         ClientGone
<1>2. Accept \/ UNCHANGED backlog
  BY DEF ServerStep, Initialize, Header, Recv, Update, Respond, Finish, ClientGone
<1>3. ASSUME Accept PROVE /\ \A d \in Client : InBacklog(d)' => InBacklog(d)
                          /\ InBacklog(clntSock') /\ server' = "init"
                          /\ UNCHANGED <<up, down>>
  <2>1. backlog # << >> /\ backlog' = Tail(backlog) /\ clntSock' = Head(backlog)
    BY <1>3 DEF Accept
  <2>2. /\ Len(backlog') = Len(backlog) - 1
        /\ \A i \in 1..Len(backlog') : backlog'[i] = backlog[i + 1]
        /\ clntSock' = backlog[1] /\ Len(backlog) \in Nat \ {0}
    BY <1>0, <2>1
  <2>3. \A d \in Client : InBacklog(d)' => InBacklog(d)
    BY <2>2 DEF InBacklog
  <2>4. InBacklog(clntSock')
    BY <2>2 DEF InBacklog
  <2> QED BY <1>3, <2>3, <2>4 DEF Accept
<1>4. \A d \in Client : InBacklog(d)' => InBacklog(d)
  BY <1>2, <1>3 DEF InBacklog
<1>5. ASSUME NEW d \in Client \ {clntSock}
      PROVE  Same(d) /\ (clntSock' = d => server' = "init" /\ InBacklog(d))
  <2>1. up'[d] = up[d]
    BY <1>0 DEF ServerStep, Accept, Initialize, Header, Recv, Update, Respond, Finish,
                ClientGone
  <2>2. down'[d] = down[d]
    BY <1>0 DEF ServerStep, Accept, Initialize, Header, Recv, Update, Respond, Finish,
                ClientGone, Sends
  <2>3. Accept \/ clntSock' \in {clntSock, None}
    BY DEF ServerStep, Initialize, Header, Recv, Update, Respond, Finish, ClientGone
  <2>4. clntSock' = d => server' = "init" /\ InBacklog(d)
    BY <1>3, <2>3, HashAssumption
  <2> QED BY <1>1, <2>1, <2>2, <2>4 DEF Same, clientVars, Flight
<1> QED BY <1>1, <1>4, <1>5

\* What the stage of the client it serves says of the server.
LEMMA Serving ==
  ASSUME TypeOK, ~ServerDead, NEW c \in Client, c = clntSock, Stage(c)
  PROVE  /\ server = "init" => Greeting(c) /\ Flight(c) = <<1, hashnum[c]>>
         /\ server = "payload" => Reading(c)
         /\ Gone(c) => server = "header" /\ ~MoreRequests
         /\ server = "header" => Flight(c) = << >> \/ Asking(c)
<1>1. server = "init" => Greeting(c)
  BY DEF Stage, Acknowledged, Idle, Asking, Reading, Responded, With
<1>2. Greeting(c) => Flight(c) = <<1, hashnum[c]>> /\ server = "init"
  BY DEF Greeting
<1>3. server = "payload" => Reading(c)
  BY DEF Stage, Greeting, Acknowledged, Idle, Asking, Responded, With
<1>4. Gone(c) => server = "header" /\ ~MoreRequests
  <2>1. Gone(c) => Idle(c) /\ client[c] = "done"
    BY DEF Gone, Stage, Greeting, Acknowledged, Idle, Asking, Reading, Responded, Open
  <2>2. hashnum[c] \in Nat
    BY HashAssumption
  <2> QED BY <2>1, <2>2 DEF Idle, With, MoreRequests
<1>5. server = "header" => Flight(c) = << >> \/ Asking(c)
  BY DEF Stage, Greeting, Acknowledged, Idle, Reading, Responded
<1> QED BY <1>1, <1>2, <1>3, <1>4, <1>5

LEMMA Wider == \A s \in Seq(Nat) : s \in Seq(Int)
  OBVIOUS

\* The server takes the initialization of a client that is waiting for it.
LEMMA InitializeOwn ==
  ASSUME TypeOK, NEW c \in Client, c = clntSock, ~ServerDead, Stage(c), Initialize
  PROVE  Stage(c)' /\ server' = "header"
<1>1. /\ server = "init" /\ Len(up[c]) >= 2 /\ hashreq_num' = up[c][2]
      /\ up' = [up EXCEPT ![c] = SubSeq(@, 3, Len(@))]
      /\ Sends([type |-> 2, num |-> up[c][2]], "header")
      /\ ctx' = Prefix /\ counter' = 0
      /\ UNCHANGED <<clientVars, backlog, clntSock, requestVars>>
  BY DEF Initialize
<1>2. Greeting(c) /\ Flight(c) = <<1, hashnum[c]>>
  BY <1>1, Serving
<1>3. /\ up \in [Client -> Seq(Nat)] /\ out[c] \in Seq(Nat) /\ up[c] \in Seq(Nat)
      /\ hashnum[c] \in Nat /\ down \in [Client -> Seq(Message)]
  BY HashAssumption DEF TypeOK
<1>4. SubSeq(up[c], 3, Len(up[c])) \o out[c] = << >> /\ up[c][2] = hashnum[c]
  <2> DEFINE u == up[c]
             v == out[c]
             h == hashnum[c]
             p == << >>
             f == <<1, h>> \o p
  <2>1. u \in Seq(Nat) /\ v \in Seq(Nat) /\ Len(u) >= 2 /\ h \in Nat /\ 1 \in Nat
    BY <1>1, <1>3
  <2>2. p \in Seq(Nat) /\ f = <<1, h>>
    BY <1>3
  <2>3. u \o v = f
    BY <1>2, <2>2, Zenon DEF Flight
  <2> HIDE DEF u, v, h, p
  <2>4. SubSeq(f, 3, Len(f)) = p /\ f[2] = h
    BY ONLY <2>1, <2>2, Rest
  <2> HIDE DEF f
  <2>5. SubSeq(u, 3, Len(u)) \o v = SubSeq(u \o v, 3, Len(u \o v)) /\ u[2] = (u \o v)[2]
    BY ONLY <2>1, Cut
  <2>6. SubSeq(u, 3, Len(u)) \o v = p /\ u[2] = h
    BY ONLY <2>3, <2>4, <2>5, Zenon
  <2> QED BY <2>6 DEF u, v, p, h
<1>5. Flight(c)' = << >>
  <2>1. up'[c] = SubSeq(up[c], 3, Len(up[c])) /\ out' = out
    BY <1>1, <1>3 DEF clientVars
  <2> QED BY <2>1, <1>4 DEF Flight
<1>6. client[c] = "ack" /\ asked[c] = << >> /\ answered[c] = << >> /\ down[c] = << >>
  BY <1>2 DEF Greeting
<1>7. /\ down' = [down EXCEPT ![c] = Append(@, [type |-> 2, num |-> up[c][2]])]
      /\ server' = "header"
  BY <1>1, <1>6 DEF Sends, Gone
<1>8. \E m \in Message : down'[c] = <<m>>
  <2> DEFINE m == [type |-> 2, num |-> hashnum[c]]
  <2>1. m \in Message
    BY <1>3 DEF Message
  <2>2. down'[c] = Append(down[c], m)
    BY <1>3, <1>4, <1>7
  <2> HIDE DEF m
  <2>3. down'[c] = <<m>>
    BY <1>6, <2>2
  <2> QED BY <2>1, <2>3
<1>9. With(c, 0)'
  BY <1>1, <1>3, <1>4, <1>7 DEF With, Prefix
<1> QED
  BY <1>1, <1>5, <1>6, <1>7, <1>8, <1>9 DEF Stage, Acknowledged, clientVars

\* The header of the request is read, the payload is still to come.
LEMMA HeaderOwn ==
  ASSUME TypeOK, NEW c \in Client, c = clntSock, ~ServerDead, Stage(c), Header
  PROVE  Stage(c)' /\ server' = "payload"
<1>1. /\ server = "header" /\ Len(up[c]) >= 2
      /\ left' = up[c][2] /\ up' = [up EXCEPT ![c] = SubSeq(@, 3, Len(@))]
      /\ read_buffer' = << >> /\ server' = "payload"
      /\ UNCHANGED <<clientVars, down, backlog, clntSock, hashreq_num, counter, ctx>>
  BY DEF Header
<1>2. /\ up \in [Client -> Seq(Nat)] /\ out[c] \in Seq(Nat) /\ up[c] \in Seq(Nat)
      /\ asked[c] \in Seq(Seq(Nat)) /\ answered[c] \in Seq(Seq(Int))
  BY DEF TypeOK
<1>3. Asking(c)
  <2>1. Flight(c) = << >> => Len(up[c]) = 0
    BY <1>2 DEF Flight
  <2> QED BY <1>1, <2>1, Serving
<1>4. Last(c) \in Seq(Nat) /\ Len(Last(c)) \in Nat
  <2>1. Len(asked[c]) \in 1..Len(asked[c])
    BY <1>2, <1>3 DEF Asking, Open
  <2> QED BY <1>2, <2>1 DEF Last
<1>5. SubSeq(up[c], 3, Len(up[c])) \o out[c] = Last(c) /\ up[c][2] = Len(Last(c))
  <2> DEFINE u == up[c]
             v == out[c]
             p == Last(c)
             n == Len(p)
             f == <<3, n>> \o p
  <2>1. u \in Seq(Nat) /\ v \in Seq(Nat) /\ Len(u) >= 2
    BY <1>1, <1>2
  <2>2. p \in Seq(Nat) /\ n \in Nat /\ 3 \in Nat
    BY <1>4
  <2>3. u \o v = f
    BY <1>3, Zenon DEF Asking, Flight
  <2> HIDE DEF u, v, n, p
  <2>4. SubSeq(f, 3, Len(f)) = p /\ f[2] = n
    BY ONLY <2>2, Rest
  <2> HIDE DEF f
  <2>5. SubSeq(u, 3, Len(u)) \o v = SubSeq(u \o v, 3, Len(u \o v)) /\ u[2] = (u \o v)[2]
    BY ONLY <2>1, Cut
  <2>6. SubSeq(u, 3, Len(u)) \o v = p /\ u[2] = n
    BY ONLY <2>3, <2>4, <2>5, Zenon
  <2> QED BY <2>6 DEF u, v, p, n
<1>6. Last(c)' = Last(c) /\ Prefix' = Prefix
  BY <1>1 DEF Last, Prefix, clientVars
<1>7. Flight(c)' = Last(c)
  <2>1. up'[c] = SubSeq(up[c], 3, Len(up[c])) /\ out' = out
    BY <1>1, <1>2 DEF clientVars
  <2> QED BY <2>1, <1>5 DEF Flight
<1>8. Open(c)'
  BY <1>1, <1>3 DEF Asking, Open, clientVars
<1>9. (ctx' \o read_buffer') \o Flight(c)' = Prefix \o Last(c)
  <2>1. Prefix \o << >> = Prefix
    BY PrefixType, ConcatEmptySeq
  <2> QED BY <1>1, <1>3, <1>7, <2>1 DEF Asking
<1>10. Len(read_buffer') + Len(Flight(c)') = left'
  <2>1. Len(<< >>) = 0
    OBVIOUS
  <2> QED BY <1>1, <1>4, <1>5, <1>7, <2>1
<1> QED BY <1>1, <1>6, <1>8, <1>9, <1>10 DEF Stage, Reading

\* Concatenation as an operator the provers do not know.
Cat(s, t) == s \o t

LEMMA Assoc ==
  /\ \A a, b, c \in Seq(Int) : Cat(Cat(a, b), c) = Cat(a, Cat(b, c))
  /\ \A a, b \in Seq(Int) : Cat(a, b) \in Seq(Int)
<1>1. ASSUME NEW a \in Seq(Int), NEW b \in Seq(Int), NEW c \in Seq(Int)
      PROVE  (a \o b) \o c = a \o (b \o c) /\ a \o b \in Seq(Int)
  BY ConcatAssociative, ConcatProperties, SMTT(30)
<1> QED BY <1>1 DEF Cat

LEMMA RecvOwn ==
  ASSUME TypeOK, NEW c \in Client, c = clntSock, ~ServerDead, Stage(c), Recv
  PROVE  Stage(c)' /\ server' = "payload"
<1>1. /\ server = "payload"
      /\ UNCHANGED <<clientVars, down, backlog, server, clntSock, hashreq_num,
                     counter, ctx, mes_length, left>>
  BY DEF Recv
<1>2. Reading(c)
  BY <1>1, Serving
<1>3. /\ up \in [Client -> Seq(Nat)] /\ out[c] \in Seq(Nat) /\ up[c] \in Seq(Nat)
      /\ read_buffer \in Seq(Int) /\ ctx \in Seq(Int) /\ left \in Nat
  BY DEF TypeOK
<1>4. PICK k \in 1..Len(up[c]) :
        /\ read_buffer' = read_buffer \o SubSeq(up[c], 1, k)
        /\ up' = [up EXCEPT ![c] = SubSeq(@, k + 1, Len(@))]
  BY RecvPicks
<1> DEFINE s == SubSeq(up[c], 1, k)
           t == SubSeq(up[c], k + 1, Len(up[c]))
           u == up[c]
           v == out[c]
<1>5. k \in 0..Len(up[c]) /\ k \in Nat
  BY <1>3
<1>6. /\ s \in Seq(Nat) /\ t \in Seq(Nat) /\ s \in Seq(Int) /\ Len(s) = k
      /\ Len(t) = Len(u) - k /\ s \o t = u
  BY <1>3, <1>5, Pieces, Parts, Split
<1>7. read_buffer' = read_buffer \o s /\ up'[c] = t /\ out' = out
  BY <1>1, <1>3, <1>4 DEF clientVars
<1>8. u \in Seq(Nat) /\ v \in Seq(Nat) /\ v \in Seq(Int) /\ t \in Seq(Int)
  BY <1>3, <1>6, Wider
<1>9. Flight(c) = u \o v /\ Flight(c)' = t \o v
  BY <1>7 DEF Flight
<1> HIDE DEF s, t, u, v
<1>10. (ctx \o (read_buffer \o s)) \o (t \o v) = (ctx \o read_buffer) \o (u \o v)
  <2>1. Cat(Cat(ctx, Cat(read_buffer, s)), Cat(t, v))
          = Cat(Cat(ctx, read_buffer), Cat(Cat(s, t), v))
    BY <1>3, <1>6, <1>8, Assoc
  <2> QED BY <2>1, <1>6 DEF Cat
<1>11. Last(c)' = Last(c) /\ Prefix' = Prefix
  BY <1>1 DEF Last, Prefix, clientVars
<1>12. (ctx' \o read_buffer') \o Flight(c)' = Prefix' \o Last(c)'
  BY <1>1, <1>2, <1>7, <1>9, <1>10, <1>11, Zenon DEF Reading
<1>13. Len(read_buffer') + Len(Flight(c)') = left'
  <2>1. Len(u \o v) = Len(u) + Len(v) /\ Len(t \o v) = Len(t) + Len(v)
    BY ONLY <1>6, <1>8, ConcatProperties
  <2>2. Len(read_buffer \o s) = Len(read_buffer) + Len(s)
    BY ONLY <1>3, <1>6, ConcatProperties
  <2>3. Len(read_buffer) + Len(u \o v) = left
    BY <1>2, <1>9 DEF Reading
  <2>4. Len(read_buffer) \in Nat /\ Len(u) \in Nat /\ Len(v) \in Nat
    BY <1>3, <1>8
  <2>5. Len(read_buffer \o s) + Len(t \o v) = left
    BY ONLY <2>1, <2>2, <2>3, <2>4, <1>6, <1>5
  <2> QED BY <2>5, <1>1, <1>7, <1>9, Zenon
<1>14. Open(c)'
  BY <1>1, <1>2 DEF Reading, Open, clientVars
<1> QED BY <1>1, <1>12, <1>13, <1>14 DEF Stage, Reading

LEMMA UpdateOwn ==
  ASSUME TypeOK, NEW c \in Client, c = clntSock, ~ServerDead, Stage(c), Update
  PROVE  Stage(c)' /\ server' = "payload"
<1>1. /\ server = "payload" /\ Len(read_buffer) = Chunk
      /\ ctx' = ctx \o read_buffer /\ left' = left - Chunk /\ read_buffer' = << >>
      /\ UNCHANGED <<clientVars, up, down, backlog, server, clntSock, hashreq_num,
                     counter, mes_length>>
  BY DEF Update
<1>2. Reading(c)
  BY <1>1, Serving
<1>3. Last(c)' = Last(c) /\ Prefix' = Prefix /\ Flight(c)' = Flight(c)
  BY <1>1 DEF Last, Prefix, clientVars, Flight
<1>4. (ctx' \o read_buffer') \o Flight(c)' = Prefix' \o Last(c)'
  <2>1. (ctx \o read_buffer) \o << >> = ctx \o read_buffer
    BY DEF TypeOK
  <2> QED BY <1>1, <1>2, <1>3, <2>1, Zenon DEF Reading
<1>5. Len(read_buffer') + Len(Flight(c)') = left'
  <2>1. Len(<< >>) = 0 /\ Len(Flight(c)) \in Nat /\ Chunk \in Nat
    BY HashAssumption DEF TypeOK, Flight
  <2> QED BY <1>1, <1>2, <1>3, <2>1 DEF Reading
<1>6. Open(c)'
  BY <1>1, <1>2 DEF Reading, Open, clientVars
<1> QED BY <1>1, <1>4, <1>5, <1>6 DEF Stage, Reading

\* What a response holds when it is sent.
LEMMA Digested ==
  ASSUME TypeOK, NEW c \in Client, Reading(c), Len(read_buffer) = left
  PROVE  ctx \o read_buffer = Prefix \o Last(c) /\ Flight(c) = << >>
<1>1. Flight(c) \in Seq(Nat) /\ left \in Nat
  BY DEF TypeOK, Flight
<1>2. Len(Flight(c)) = 0
  BY <1>1 DEF Reading
<1>3. Flight(c) = << >>
  BY <1>1, <1>2
<1>4. (ctx \o read_buffer) \o << >> = ctx \o read_buffer
  BY DEF TypeOK
<1> QED BY <1>3, <1>4, Zenon DEF Reading

LEMMA RespondOwn ==
  ASSUME TypeOK, NEW c \in Client, c = clntSock, ~ServerDead, Stage(c), Respond
  PROVE  Stage(c)' /\ server' = "header"
<1> DEFINE m == [type |-> 4, counter |-> counter, checksum |-> ctx \o read_buffer]
<1>1. /\ server = "payload" /\ Len(read_buffer) = left /\ Sends(m, "header")
      /\ ctx' = Prefix /\ counter' = counter + 1
      /\ UNCHANGED <<clientVars, up, backlog, clntSock, hashreq_num, requestVars>>
  BY DEF Respond
<1>2. Reading(c)
  BY <1>1, Serving
<1>3. ctx \o read_buffer = Prefix \o Last(c) /\ Flight(c) = << >>
  BY <1>1, <1>2, Digested
<1>4. client[c] = "response" /\ down[c] = << >>
  BY <1>2 DEF Reading, Open
<1>5. m \in Message /\ m.type = 4 /\ m.checksum = Prefix \o Last(c)
  <2>1. ctx \o read_buffer \in Seq(Int) /\ counter \in Nat
    BY ConcatProperties DEF TypeOK
  <2> QED BY <2>1, <1>3 DEF Message
<1>6. server' = "header" /\ down' = [down EXCEPT ![c] = Append(@, m)]
  BY <1>1, <1>4 DEF Sends, Gone
<1> HIDE DEF m
<1>7. down'[c] = <<m>>
  BY <1>4, <1>6 DEF TypeOK
<1>8. Last(c)' = Last(c) /\ Prefix' = Prefix /\ Flight(c)' = << >>
  BY <1>1, <1>3 DEF Last, Prefix, clientVars, Flight
<1>9. With(c, Len(asked[c]))'
  <2>1. /\ clntSock' = c /\ server' = "header" /\ ctx' = Prefix' /\ hashreq_num' = hashnum[c]
        /\ Len(asked'[c]) = Len(asked[c]) /\ counter' = counter + 1
    BY <1>1, <1>2, <1>6, <1>8 DEF Reading, Open, clientVars
  <2>2. /\ counter < hashnum[c] /\ Len(asked[c]) = counter + 1
        /\ counter \in Nat /\ hashnum[c] \in Nat
    BY <1>2, HashAssumption DEF Reading, Open, TypeOK
  <2>3. counter' = Len(asked'[c]) /\ Len(asked'[c]) <= hashnum[c]
    BY <2>1, <2>2
  <2> QED BY <2>1, <2>3 DEF With
<1>10. client' = client /\ asked' = asked /\ answered' = answered
  BY <1>1 DEF clientVars
<1>11. Len(asked'[c]) = Len(answered'[c]) + 1
  BY <1>2, <1>10 DEF Reading, Open
<1>12. \E r \in Message : down'[c] = <<r>> /\ r.type = 4 /\ r.checksum = Prefix' \o Last(c)'
  BY <1>5, <1>7, <1>8
<1> QED BY <1>4, <1>6, <1>8, <1>9, <1>10, <1>11, <1>12 DEF Stage, Responded

LEMMA FinishOwn ==
  ASSUME TypeOK, Queue, NEW c \in Client, c = clntSock, ~ServerDead, Stage(c), Finish
  PROVE  Stage(c)' /\ server' = "accept"
<1>1. /\ server = "header" /\ ~MoreRequests /\ server' = "accept" /\ clntSock' = None
      /\ UNCHANGED <<clientVars, up, down, backlog, hashreq_num, counter, ctx, requestVars>>
  BY DEF Finish
<1>2. Last(c)' = Last(c) /\ Prefix' = Prefix /\ Flight(c)' = Flight(c)
  BY <1>1 DEF Last, Prefix, clientVars, Flight
<1>3. ASSUME NEW k \in Nat, With(c, k) PROVE With(c, k)'
  <2>1. counter = k /\ k <= hashnum[c] /\ hashreq_num = hashnum[c] /\ hashnum[c] \in Nat
    BY <1>3, HashAssumption DEF With
  <2>2. k = hashnum[c]
    BY <1>1, <2>1 DEF MoreRequests
  <2>3. c # None
    BY HashAssumption
  <2> QED BY <1>1, <2>2, <2>3 DEF With, Queue
<1>4. Len(asked[c]) \in Nat
  BY DEF TypeOK
<1>5. ~Greeting(c) /\ ~Asking(c) /\ ~Reading(c)
  BY <1>1 DEF Greeting, Asking, Reading, Open, MoreRequests
<1>6. CASE Acknowledged(c)
  BY <1>1, <1>2, <1>3, <1>6 DEF Acknowledged, Stage, clientVars
<1>7. CASE Idle(c)
  BY <1>1, <1>2, <1>3, <1>4, <1>7 DEF Idle, Stage, clientVars
<1>8. CASE Responded(c)
  BY <1>1, <1>2, <1>3, <1>4, <1>8 DEF Responded, Stage, clientVars
<1> QED BY <1>5, <1>6, <1>7, <1>8 DEF Stage

\* The client the server serves, whatever the server does; it is not lost.
LEMMA ServerOwn ==
  ASSUME TypeOK, Queue, ServerStep, NEW c \in Client, c = clntSock, Stage(c)
  PROVE  Stage(c)' /\ server' \notin {"spin", "dead"}
<1>1. ~ServerDead
  BY ServerOthers
<1>2. server # "accept"
  BY HashAssumption DEF TypeOK
<1>3. ~Accept
  BY <1>2 DEF Accept
<1>4. ~ClientGone
  <2>1. SUFFICES ASSUME ClientGone PROVE FALSE
    OBVIOUS
  <2>2. Gone(c) /\ Len(up[c]) < Missing
    BY <2>1 DEF ClientGone
  <2>3. server = "header" /\ ~MoreRequests
    BY <1>1, <2>2, Serving
  <2>4. Missing = 0
    BY <2>3 DEF Missing
  <2>5. Len(up[c]) \in Nat
    BY DEF TypeOK
  <2> QED BY <2>2, <2>4, <2>5
<1>5. Initialize \/ Header \/ Recv \/ Update \/ Respond \/ Finish
  BY <1>3, <1>4 DEF ServerStep
<1>6. Stage(c)' /\ server' \in {"header", "payload", "accept"}
  BY <1>1, <1>5, InitializeOwn, HeaderOwn, RecvOwn, UpdateOwn, RespondOwn, FinishOwn
<1> QED BY <1>6

LEMMA ServerKeeps ==
  ASSUME IInv, ServerStep
  PROVE  IInv'
<1>1. TypeOK /\ Stages /\ Fresh /\ Queue /\ Unhurt
  BY DEF IInv
<1>2. TypeOK'
  BY <1>1, TypeServer
<1>3. /\ ~ServerDead /\ UNCHANGED clientVars
      /\ \A d \in Client : InBacklog(d)' => InBacklog(d)
      /\ \A d \in Client \ {clntSock} :
           Same(d) /\ (clntSock' = d => server' = "init" /\ InBacklog(d))
  BY <1>1, ServerOthers
<1>4. Stages'
  <2> SUFFICES ASSUME NEW d \in Client, Live(d)' PROVE Stage(d)'
    BY DEF Stages
  <2>1. Stage(d)
    BY <1>1, <1>3 DEF Stages, Live, clientVars
  <2>2. CASE d = clntSock
    BY <1>1, <2>1, <2>2, ServerOwn
  <2>3. CASE d # clntSock
    BY <1>3, <2>1, <2>3, Bystander
  <2> QED BY <2>2, <2>3
<1>5. Fresh'
  <2> SUFFICES ASSUME NEW d \in Client, client'[d] = "start"
               PROVE  /\ up'[d] = << >> /\ out'[d] = << >> /\ down'[d] = << >>
                      /\ asked'[d] = << >> /\ answered'[d] = << >>
                      /\ clntSock' # d /\ ~InBacklog(d)'
    BY DEF Fresh, InBacklog
  <2>1. client[d] = "start"
    BY <1>3 DEF clientVars
  <2>2. /\ up[d] = << >> /\ out[d] = << >> /\ down[d] = << >> /\ asked[d] = << >>
        /\ answered[d] = << >> /\ clntSock # d /\ ~InBacklog(d)
    BY <1>1, <2>1 DEF Fresh, InBacklog
  <2>3. Same(d) /\ clntSock' # d /\ ~InBacklog(d)'
    BY <1>3, <2>2
  <2>4. up'[d] = << >>
    <3>1. Flight(d)' = << >> /\ up'[d] \in Seq(Nat) /\ out'[d] \in Seq(Nat)
      BY <1>2, <2>2, <2>3 DEF Same, Flight, TypeOK
    <3> QED BY <3>1 DEF Flight
  <2> QED BY <1>3, <2>2, <2>3, <2>4 DEF Same, clientVars
<1>6. Queue'
  <2>1. backlog \in Seq(Client) /\ clntSock \in Client \cup {None} /\ None \notin Client
    BY <1>1, HashAssumption DEF TypeOK
  <2>2. CASE Accept
    <3>1. backlog # << >> /\ backlog' = Tail(backlog) /\ clntSock' = Head(backlog)
      BY <2>2 DEF Accept
    <3>2. /\ Len(backlog') = Len(backlog) - 1 /\ Len(backlog) \in Nat \ {0}
          /\ \A i \in 1..Len(backlog') : backlog'[i] = backlog[i + 1]
          /\ clntSock' = backlog[1]
      BY <2>1, <3>1
    <3>3. \A i, j \in 1..Len(backlog) : backlog[i] = backlog[j] => i = j
      BY <1>1 DEF Queue
    <3>4. ASSUME NEW i \in 1..Len(backlog') PROVE backlog'[i] # clntSock'
      <4>1. i + 1 \in 1..Len(backlog) /\ 1 \in 1..Len(backlog) /\ i + 1 # 1
        BY <3>2
      <4> QED BY <3>2, <3>3, <4>1
    <3>5. ASSUME NEW i \in 1..Len(backlog'), NEW j \in 1..Len(backlog'),
                 backlog'[i] = backlog'[j]
          PROVE  i = j
      <4>1. i + 1 \in 1..Len(backlog) /\ j + 1 \in 1..Len(backlog)
        BY <3>2
      <4>2. i + 1 = j + 1
        BY <3>2, <3>3, <3>5, <4>1
      <4> QED BY <4>2
    <3> QED BY <3>4, <3>5 DEF Queue
  <2>3. CASE ~Accept
    <3>1. backlog' = backlog /\ clntSock' \in {clntSock, None}
      BY <2>3 DEF ServerStep, Initialize, Header, Recv, Update, Respond, Finish, ClientGone
    <3>2. \A i \in 1..Len(backlog) : backlog[i] # None
      BY <2>1
    <3> QED BY <1>1, <3>1, <3>2 DEF Queue
  <2> QED BY <2>2, <2>3
<1>7. Unhurt'
  <2> SUFFICES ASSUME \A d \in Client : client'[d] # "dead"
               PROVE  server' \notin {"spin", "dead"} /\ \A d \in Client : client'[d] # "spin"
    BY DEF Unhurt
  <2>1. client' = client
    BY <1>3 DEF clientVars
  <2>2. server \notin {"spin", "dead"} /\ \A d \in Client : client[d] # "spin"
    BY <1>1, <2>1 DEF Unhurt
  <2>3. server' \notin {"spin", "dead"}
    <3>1. CASE clntSock = None
      <4>1. server = "accept"
        BY <1>1, <3>1 DEF TypeOK
      <4> QED
        BY <4>1 DEF ServerStep, Accept, Initialize, Header, Recv, Update, Respond, Finish,
                    ClientGone
    <3>2. CASE clntSock # None
      <4>1. clntSock \in Client
        BY <1>1, <3>2 DEF TypeOK
      <4>2. client[clntSock] # "start"
        BY <1>1, <4>1 DEF Fresh
      <4>3. Stage(clntSock)
        BY <1>1, <2>1, <2>2, <4>1, <4>2 DEF Stages, Live
      <4> QED BY <1>1, <4>1, <4>3, ServerOwn
    <3> QED BY <3>1, <3>2
  <2> QED BY <2>1, <2>2, <2>3
<1> QED BY <1>2, <1>4, <1>5, <1>6, <1>7 DEF IInv

LEMMA InitIInv == Init => IInv
<1> SUFFICES ASSUME Init PROVE IInv
  OBVIOUS
<1>1. TypeOK
  BY TypeInit
<1>2. client = [c \in Client |-> "start"] /\ server = "accept" /\ backlog = << >>
      /\ clntSock = None
  BY DEF Init
<1>3. Stages
  BY <1>2 DEF Stages, Live
<1>4. Fresh
  <2>1. \A c \in Client : clntSock # c
    BY <1>2, HashAssumption
  <2> QED BY <1>2, <2>1 DEF Init, Fresh
<1>5. Queue /\ Unhurt
  BY <1>2 DEF Queue, Unhurt
<1> QED BY <1>1, <1>3, <1>4, <1>5 DEF IInv

LEMMA Stutter == ASSUME IInv, UNCHANGED vars PROVE IInv'
<1>1. UNCHANGED <<client, out, position, asked, answered, up, down, backlog, server,
                  clntSock, hashreq_num, counter, ctx, mes_length, left, read_buffer>>
  BY DEF vars, clientVars, serverVars, requestVars
<1>2. TypeOK'
  BY <1>1 DEF IInv, TypeOK, Message, Wanted, ChunkDue
<1>3. \A c : Stage(c) => Stage(c)'
  BY <1>1, Frame DEF Same, Flight, InBacklog, serverVars, requestVars
<1>4. Stages'
  BY <1>1, <1>3 DEF IInv, Stages, Live
<1>5. Fresh' /\ Queue' /\ Unhurt'
  BY <1>1 DEF IInv, Fresh, Queue, Unhurt
<1> QED BY <1>2, <1>4, <1>5 DEF IInv

LEMMA Inductive == Spec => []IInv
<1>1. Init => IInv
  BY InitIInv
<1>2. IInv /\ [Next]_vars => IInv'
  <2> SUFFICES ASSUME IInv, [Next]_vars PROVE IInv'
    OBVIOUS
  <2>1. CASE Next
    BY <2>1, ClientKeeps, ServerKeeps DEF Next
  <2>2. CASE UNCHANGED vars
    BY <2>2, Stutter
  <2> QED BY <2>1, <2>2
<1> QED BY <1>1, <1>2, PTL DEF Spec

-----------------------------------------------------------------------------
(* The results. *)

\* Types are kept, and no recv of the server's takes more than read_n_bytes wants.
THEOREM Types == Spec => []TypeOK
<1>1. IInv => TypeOK
  BY DEF IInv
<1> QED BY Inductive, <1>1, PTL

\* When a client waits for a message of the server that serves it, the server
\* has all the bytes its current read_n_bytes wants, or is not reading.
THEOREM NeverBothWait == Spec => []NoMutualWait
<1>1. IInv => NoMutualWait
  <2> SUFFICES ASSUME IInv, NEW c \in Client,
                      client[c] \in {"ack", "response"}, out[c] = << >>, down[c] = << >>,
                      clntSock = c, Len(up[c]) < Missing
               PROVE  FALSE
    BY DEF NoMutualWait
  <2>1. /\ TypeOK /\ Stage(c) /\ up[c] \in Seq(Nat) /\ Len(up[c]) \in Nat
        /\ asked[c] \in Seq(Seq(Nat))
    <3>1. TypeOK /\ Stages /\ Live(c)
      BY DEF IInv, Live
    <3>2. Stage(c)
      BY <3>1 DEF Stages
    <3>3. up[c] \in Seq(Nat) /\ asked[c] \in Seq(Seq(Nat))
      BY <3>1 DEF TypeOK
    <3>4. Len(up[c]) \in Nat
      BY <3>3
    <3> QED BY <3>1, <3>2, <3>3, <3>4, Zenon
  <2>2. Flight(c) = up[c]
    BY <2>1, ConcatEmptySeq DEF Flight
  <2>3. ~Acknowledged(c) /\ ~Idle(c) /\ ~Responded(c)
    BY DEF Acknowledged, Idle, Responded
  <2>4. CASE Greeting(c)
    <3>1. server = "init" /\ up[c] = <<1, hashnum[c]>>
      BY <2>2, <2>4 DEF Greeting, ServerDead
    <3>2. Len(up[c]) = 2 /\ Missing = 2
      BY <3>1 DEF Missing
    <3> QED BY <3>2
  <2>5. CASE Asking(c)
    <3>1. Missing = 2
      BY <2>5 DEF Asking, Open, Missing, MoreRequests
    <3>2. Last(c) \in Seq(Nat)
      <4>1. Len(asked[c]) \in 1..Len(asked[c])
        BY <2>1, <2>5 DEF Asking, Open, IInv, TypeOK
      <4> QED BY <2>1, <4>1 DEF Last
    <3>3. \A p \in Seq(Nat) : Len(<<3, Len(p)>> \o p) >= 2
      OBVIOUS
    <3>4. Len(up[c]) >= 2
      BY <2>2, <2>5, <3>2, <3>3, Zenon DEF Asking
    <3> QED BY <2>1, <3>1, <3>4
  <2>6. CASE Reading(c)
    <3>1. Missing = Wanted - Len(read_buffer)
      BY <2>6 DEF Reading, Missing
    <3>2. Len(read_buffer) + Len(up[c]) = left
      BY <2>2, <2>6 DEF Reading
    <3>3. Wanted <= left /\ Wanted \in Int /\ left \in Nat /\ Len(read_buffer) \in Nat
      BY <2>1, HashAssumption DEF Wanted, ChunkDue, TypeOK
    <3> QED BY <2>1, <3>1, <3>2, <3>3
  <2> QED BY <2>1, <2>3, <2>4, <2>5, <2>6 DEF Stage
<1> QED BY Inductive, <1>1, PTL

\* The server's endless read of a stream that ended, and its death of a send,
\* take the death of a client.
THEOREM NoHarmWithoutKills == Spec => []OnlyKillsHurt
<1>1. IInv => OnlyKillsHurt
  BY DEF IInv, Unhurt, OnlyKillsHurt
<1> QED BY Inductive, <1>1, PTL

LEMMA ServiceInit == Init => Service!Init
  BY DEF Init, Service!Init

LEMMA RequestAsks ==
  ASSUME IInv, NEW c \in Client, Request(c)
  PROVE  \E p \in {SubSeq(File[c], cut[1], cut[2]) :
                     cut \in (1..Len(File[c])) \X (1..Len(File[c]))} :
           /\ asked' = [asked EXCEPT ![c] = Append(@, p)]
           /\ UNCHANGED answered
<1>1. PICK n \in Size[c] :
        /\ position[c] + n <= Len(File[c])
        /\ asked' = [asked EXCEPT ![c] =
             Append(@, SubSeq(File[c], position[c] + 1, position[c] + n))]
  BY DEF Request
<1>2. n \in Nat \ {0} /\ position[c] \in Nat /\ Len(File[c]) \in Nat
  <2>1. position \in [Client -> Nat]
    BY DEF IInv, TypeOK
  <2>2. Size[c] \in SUBSET (Nat \ {0}) /\ File[c] \in Seq(Nat)
    BY HashAssumption
  <2>3. Len(File[c]) \in Nat
    BY <2>2
  <2> QED BY <2>1, <2>2, <2>3
<1>3. position[c] + 1 \in 1..Len(File[c]) /\ position[c] + n \in 1..Len(File[c])
  <2>1. position[c] + n <= Len(File[c])
    BY <1>1
  <2> QED BY ONLY <1>2, <2>1
<1>4. UNCHANGED answered
  BY DEF Request
<1> DEFINE p == SubSeq(File[c], position[c] + 1, position[c] + n)
<1>5. p \in {SubSeq(File[c], cut[1], cut[2]) : cut \in (1..Len(File[c])) \X (1..Len(File[c]))}
  <2> DEFINE w == <<position[c] + 1, position[c] + n>>
  <2>1. w \in (1..Len(File[c])) \X (1..Len(File[c])) /\ p = SubSeq(File[c], w[1], w[2])
    BY <1>3
  <2> HIDE DEF w, p
  <2> QED BY <2>1
<1>6. asked' = [asked EXCEPT ![c] = Append(@, p)]
  BY <1>1
<1> HIDE DEF p
<1> QED BY <1>4, <1>5, <1>6, Zenon

LEMMA ResponseAnswers ==
  ASSUME IInv, NEW c \in Client, GetResponse(c)
  PROVE  Service!Answer(c)
<1>1. client[c] = "response" /\ down[c] # << >>
  BY DEF GetResponse, Reads
<1>2. Responded(c)
  BY <1>1 DEF IInv, Stages, Live, Stage, Greeting, Acknowledged, Idle, Asking, Reading, Open
<1>3. PICK m \in Message : down[c] = <<m>> /\ m.checksum = Prefix \o Last(c)
  BY <1>2 DEF Responded
<1>4. Head(down[c]).checksum = Prefix \o Last(c)
  <2>1. Head(down[c]) = m
    BY <1>3
  <2> QED BY <1>3, <2>1
<1>5. Len(asked[c]) = Len(answered[c]) + 1 /\ Len(answered[c]) \in Nat
  BY <1>2 DEF Responded, IInv, TypeOK
<1>6. Last(c) = asked[c][Len(answered[c]) + 1] /\ Len(answered[c]) < Len(asked[c])
  BY <1>5 DEF Last
<1>7. /\ answered' = [answered EXCEPT ![c] = Append(@, Prefix \o asked[c][Len(@) + 1])]
      /\ UNCHANGED asked
  <2>1. answered' = [answered EXCEPT ![c] = Append(@, Head(down[c]).checksum)]
        /\ UNCHANGED asked
    BY DEF GetResponse
  <2> QED BY <1>4, <1>6, <2>1, Zenon
<1> QED BY <1>6, <1>7 DEF Service!Answer, Service!Digest

\* Every step of the program is a step of the service or leaves it alone.
LEMMA ServiceStep ==
  ASSUME IInv, [Next]_vars
  PROVE  [Service!Next]_<<asked, answered>>
<1>1. ASSUME NEW c \in Client, Request(c) PROVE Service!Next
  BY <1>1, RequestAsks DEF Service!Next, Service!Ask
<1>2. ASSUME NEW c \in Client, GetResponse(c) PROVE Service!Next
  BY <1>2, ResponseAnswers DEF Service!Next
<1>3. ASSUME NEW c \in Client,
             Connect(c) \/ Kill(c) \/ Transmit(c) \/ GetAck(c) \/ FileEnds(c) \/ Close(c)
               \/ ServerGone(c)
      PROVE  UNCHANGED <<asked, answered>>
  BY <1>3 DEF Connect, Kill, Transmit, GetAck, FileEnds, Close, ServerGone
<1>4. ASSUME ServerStep PROVE UNCHANGED <<asked, answered>>
  BY <1>4, ServerOthers DEF clientVars, IInv
<1>5. ASSUME UNCHANGED vars PROVE UNCHANGED <<asked, answered>>
  BY <1>5 DEF vars, clientVars
<1> QED BY <1>1, <1>2, <1>3, <1>4, <1>5 DEF Next, ClientStep

\* The server and its clients implement the service of HashService: each
\* payload is answered in its turn with the digest of the salt and that payload,
\* however the streams are cut and whoever else is served or killed.
THEOREM Implements == Spec => Answers
<1>1. Init => Service!Init
  BY ServiceInit
<1>2. IInv /\ [Next]_vars => [Service!Next]_<<asked, answered>>
  BY ServiceStep
<1> QED BY Inductive, <1>1, <1>2, PTL DEF Spec, Answers, Service!Spec
=============================================================================
