------------------------------ MODULE HashServer ------------------------------
(***************************************************************************)
(* The hash server and client of assignment0.  A client connects, says how *)
(* many requests will come, and then sends one payload at a time and waits *)
(* for its digest; the server serves one client from beginning to end, and *)
(* the others wait in the listen queue.  Both ends of a TCP connection     *)
(* read with read_n_bytes, which repeats recv until it has all the bytes   *)
(* it wants: at the end of a stream that comes too early it never returns. *)
(*                                                                         *)
(* A connection's stream to the server consists of numbers: a four-byte    *)
(* word is one of them, a payload byte is one of them.  What the server    *)
(* sends are whole messages, since a client only ever waits for one.       *)
(***************************************************************************)
EXTENDS Integers, Sequences

CONSTANTS
  Client,
  hashnum,   \* the number of requests of each client
  Size,      \* the payload sizes it draws from, smin..smax
  File,      \* the bytes of its file
  Salt,      \* the bytes of the server's salt argument
  Behind,    \* the memory behind the salt, as far as it is read
  SaltBytes, \* sizeof(args.salt) - 1: 7 in the code
  Chunk,     \* UPDATE_PAYLOAD_SIZE: 4096 in the code
  Backlog,   \* connections the listen queue holds
  Room,      \* what a socket's buffer holds of a stream
  Mortal,    \* the clients whose process may be killed
  None       \* no client

ASSUME HashAssumption ==
  /\ None \notin Client
  /\ hashnum \in [Client -> Nat] /\ Size \in [Client -> SUBSET (Nat \ {0})]
  /\ File \in [Client -> Seq(Nat)]
  /\ Salt \in Seq(Int) /\ Behind \in Seq(Int) /\ SaltBytes \in Nat
  /\ Len(Salt \o Behind) >= SaltBytes
  /\ Chunk \in Nat \ {0} /\ Backlog \in Nat \ {0} /\ Room \in Nat \ {0, 1}
  /\ Mortal \subseteq Client

VARIABLES
  client,        \* where each client process is
  out,           \* what its current send_n_bytes calls have still to send
  up,            \* what has been sent and the server has not read
  down,          \* what the server has sent and the client has not read
  position,      \* how much of its file it has read
  asked,         \* history: the payloads it has sent, or begun to
  answered,      \* the checksums it has printed
  backlog,       \* the listen queue
  server,        \* where the server is
  clntSock,      \* the client it serves
  hashreq_num,   \* the number of requests that client announced
  counter,       \* the requests answered
  mes_length,    \* the length of the current request
  left,          \* how many bytes of it have not gone into the digest
  read_buffer,   \* the bytes of the current read_n_bytes
  ctx            \* the bytes the digest context has taken in

clientVars == <<client, out, position, asked, answered>>
requestVars == <<mes_length, left, read_buffer>>
serverVars == <<server, clntSock, hashreq_num, counter, ctx, requestVars>>
vars == <<clientVars, up, down, backlog, serverVars>>

\* Neither reads nor sends any more: the kernel has closed its sockets.
Gone(c) == client[c] \in {"done", "dead"}

\* The server process has died of a send to a connection that was reset.
ServerDead == server = "dead"

Init ==
  /\ client = [c \in Client |-> "start"]
  /\ out = [c \in Client |-> << >>]
  /\ up = [c \in Client |-> << >>] /\ down = [c \in Client |-> << >>]
  /\ position = [c \in Client |-> 0]
  /\ asked = [c \in Client |-> << >>] /\ answered = [c \in Client |-> << >>]
  /\ backlog = << >>
  /\ server = "accept" /\ clntSock = None
  /\ hashreq_num = 0 /\ counter = 0
  /\ mes_length = 0 /\ left = 0 /\ read_buffer = << >> /\ ctx = << >>

-----------------------------------------------------------------------------
(* The client. *)

\* connect succeeds when the listen queue has room, long before accept; the
\* initialization follows: type 1 and the number of requests.
Connect(c) ==
  /\ client[c] = "start" /\ ~ServerDead /\ Len(backlog) < Backlog
  /\ backlog' = Append(backlog, c)
  /\ out' = [out EXCEPT ![c] = <<1, hashnum[c]>>]
  /\ client' = [client EXCEPT ![c] = "ack"]
  /\ UNCHANGED <<up, down, position, asked, answered, serverVars>>

\* One send: as much as the buffers between the two take.
Transmit(c) ==
  /\ ~Gone(c) /\ ~ServerDead
  /\ \E k \in 1..Len(out[c]) :
       /\ Len(up[c]) + k <= Room
       /\ up' = [up EXCEPT ![c] = @ \o SubSeq(out[c], 1, k)]
       /\ out' = [out EXCEPT ![c] = SubSeq(@, k + 1, Len(@))]
  /\ UNCHANGED <<client, down, position, asked, answered, backlog, serverVars>>

\* A read of the client's that has everything it waits for.
Reads(c, at) ==
  /\ client[c] = at /\ out[c] = << >> /\ down[c] # << >>
  /\ down' = [down EXCEPT ![c] = Tail(@)]
  /\ client' = [client EXCEPT ![c] = "next"]

GetAck(c) ==
  /\ Reads(c, "ack")
  /\ UNCHANGED <<out, up, position, asked, answered, backlog, serverVars>>

\* A request: type 3, the length and that many bytes of the file.
Request(c) ==
  /\ client[c] = "next" /\ Len(asked[c]) < hashnum[c]
  /\ \E n \in Size[c] :
       /\ position[c] + n <= Len(File[c])
       /\ LET payload == SubSeq(File[c], position[c] + 1, position[c] + n)
          IN  /\ out' = [out EXCEPT ![c] = <<3, n>> \o payload]
              /\ asked' = [asked EXCEPT ![c] = Append(@, payload)]
       /\ position' = [position EXCEPT ![c] = @ + n]
  /\ client' = [client EXCEPT ![c] = "response"]
  /\ UNCHANGED <<up, down, answered, backlog, serverVars>>

\* The file is too short: fread returns 0 again and again.
FileEnds(c) ==
  /\ client[c] = "next" /\ Len(asked[c]) < hashnum[c]
  /\ \E n \in Size[c] : position[c] + n > Len(File[c])
  /\ client' = [client EXCEPT ![c] = "stuck"]
  /\ position' = [position EXCEPT ![c] = Len(File[c])]
  /\ UNCHANGED <<out, up, down, asked, answered, backlog, serverVars>>

GetResponse(c) ==
  /\ Reads(c, "response")
  /\ answered' = [answered EXCEPT ![c] = Append(@, Head(down[c]).checksum)]
  /\ UNCHANGED <<out, up, position, asked, backlog, serverVars>>

Close(c) ==
  /\ client[c] = "next" /\ Len(asked[c]) = hashnum[c]
  /\ client' = [client EXCEPT ![c] = "done"]
  /\ UNCHANGED <<out, up, down, position, asked, answered, backlog, serverVars>>

\* From outside, at any moment; what is not sent never will be.
Kill(c) ==
  /\ c \in Mortal /\ client[c] \notin {"start", "done", "dead"}
  /\ client' = [client EXCEPT ![c] = "dead"]
  /\ out' = [out EXCEPT ![c] = << >>]
  /\ UNCHANGED <<up, down, position, asked, answered, backlog, serverVars>>

\* The server's process is no more: sends are in vain or kill the client, as
\* they do when its connect was refused, and a read spins at the end of the stream.
ServerGone(c) ==
  /\ ServerDead
  /\ \/ /\ client[c] = "start" \/ out[c] # << >>
        /\ client' \in {client, [client EXCEPT ![c] = "dead"]}
        /\ out' = [out EXCEPT ![c] = << >>]
        /\ <<client', out'>> # <<client, out>>
     \/ /\ client[c] \in {"ack", "response"} /\ out[c] = << >> /\ down[c] = << >>
        /\ client' = [client EXCEPT ![c] = "spin"]
        /\ UNCHANGED out
  /\ UNCHANGED <<up, down, position, asked, answered, backlog, serverVars>>

-----------------------------------------------------------------------------
(* The server. *)

\* What checksum_reset puts into a fresh context.  The length passed to
\* checksum_create is that of a pointer less one, not that of the salt.
Prefix == IF Salt = << >> THEN << >> ELSE SubSeq(Salt \o Behind, 1, SaltBytes)

\* The outcomes of sending a message: a client that has gone leaves it unread,
\* and once its connection has been reset sending kills the server.
Sends(m, next) ==
  LET c == clntSock
  IN  \/ down' = [down EXCEPT ![c] = Append(@, m)] /\ server' = next
      \/ Gone(c) /\ server' = "dead" /\ UNCHANGED down

Accept ==
  /\ server = "accept" /\ backlog # << >>
  /\ clntSock' = Head(backlog)
  /\ backlog' = Tail(backlog)
  /\ server' = "init"
  /\ UNCHANGED <<clientVars, up, down, hashreq_num, counter, ctx, requestVars>>

\* The initialization is read and acknowledged; checksum_create.
Initialize ==
  /\ server = "init" /\ Len(up[clntSock]) >= 2
  /\ hashreq_num' = up[clntSock][2]
  /\ up' = [up EXCEPT ![clntSock] = SubSeq(@, 3, Len(@))]
  /\ Sends([type |-> 2, num |-> up[clntSock][2]], "header")
  /\ ctx' = Prefix
  /\ counter' = 0
  /\ UNCHANGED <<clientVars, backlog, clntSock, requestVars>>

\* Mutant: counts from 0 to the number itself.
MoreRequests_OneMore == counter <= hashreq_num

\* The condition of the loop over the requests.
MoreRequests == counter < hashreq_num

\* The type and length of a request.
Header ==
  /\ server = "header" /\ MoreRequests /\ Len(up[clntSock]) >= 2
  /\ mes_length' = up[clntSock][2]
  /\ left' = up[clntSock][2]
  /\ up' = [up EXCEPT ![clntSock] = SubSeq(@, 3, Len(@))]
  /\ read_buffer' = << >>
  /\ server' = "payload"
  /\ UNCHANGED <<clientVars, down, backlog, clntSock, hashreq_num, counter, ctx>>

\* A payload longer than Chunk is read in chunks, update_times of them, and a
\* remainder, which may be empty; any other in one piece.
ChunkDue == mes_length > Chunk /\ left >= Chunk

\* Mutant: an empty remainder is read as one more chunk.
Wanted_WholeChunks == IF mes_length > Chunk THEN Chunk ELSE left

Wanted == IF ChunkDue THEN Chunk ELSE left

\* One recv of read_n_bytes.
Recv ==
  LET c == clntSock
      missing == Wanted - Len(read_buffer)
      k == IF Len(up[c]) < missing THEN Len(up[c]) ELSE missing
  IN  /\ server = "payload" /\ k > 0
      /\ read_buffer' = read_buffer \o SubSeq(up[c], 1, k)
      /\ up' = [up EXCEPT ![c] = SubSeq(@, k + 1, Len(@))]
      /\ UNCHANGED <<clientVars, down, backlog, server, clntSock, hashreq_num,
                     counter, ctx, mes_length, left>>

\* Mutant: the loop over the chunks does not count.
Update_Uncounted ==
  /\ server = "payload" /\ ChunkDue /\ Len(read_buffer) = Chunk
  /\ ctx' = ctx \o read_buffer
  /\ read_buffer' = << >>
  /\ UNCHANGED <<clientVars, up, down, backlog, server, clntSock, hashreq_num,
                 counter, mes_length, left>>

\* checksum_update with a full chunk.
Update ==
  /\ server = "payload" /\ ChunkDue /\ Len(read_buffer) = Chunk
  /\ ctx' = ctx \o read_buffer
  /\ left' = left - Chunk
  /\ read_buffer' = << >>
  /\ UNCHANGED <<clientVars, up, down, backlog, server, clntSock, hashreq_num,
                 counter, mes_length>>

\* Mutant: the context is not reset.
Respond_NoReset ==
  /\ server = "payload" /\ ~ChunkDue /\ Len(read_buffer) = left
  /\ Sends([type |-> 4, counter |-> counter, checksum |-> ctx \o read_buffer], "header")
  /\ ctx' = ctx \o read_buffer
  /\ counter' = counter + 1
  /\ UNCHANGED <<clientVars, up, backlog, clntSock, hashreq_num, requestVars>>

\* checksum_finish, checksum_reset and the response.
Respond ==
  /\ server = "payload" /\ ~ChunkDue /\ Len(read_buffer) = left
  /\ Sends([type |-> 4, counter |-> counter, checksum |-> ctx \o read_buffer], "header")
  /\ ctx' = Prefix
  /\ counter' = counter + 1
  /\ UNCHANGED <<clientVars, up, backlog, clntSock, hashreq_num, requestVars>>

\* All requests are answered: checksum_destroy, close and the next accept.
Finish ==
  /\ server = "header" /\ ~MoreRequests
  /\ server' = "accept" /\ clntSock' = None
  /\ UNCHANGED <<clientVars, up, down, backlog, hashreq_num, counter, ctx, requestVars>>

\* How many units the server still waits for.
Missing ==
  CASE server = "init" -> 2
    [] server = "header" /\ MoreRequests -> 2
    [] server = "payload" -> Wanted - Len(read_buffer)
    [] OTHER -> 0

\* A recv that fails adds -1 to the count of bytes, a size_t: that ends a read
\* which has got nothing so far.  It is the last one before the server sends, if
\* no payload has to be read: after the length word of the first request it has
\* whatever the variable held, of a later one the last length, its bytes swapped
\* and so not 0.
LastRead ==
  LET arrived == up[clntSock] IN
  \/ server = "init" /\ Len(arrived) = 1
  \/ server = "header" /\ Len(arrived) = 1 /\ counter = 0
  \/ server = "payload" /\ arrived = << >> /\ read_buffer = << >> /\ Wanted = left

\* The stream of a client that has gone ends in the middle of a read: recv
\* returns 0 for ever.  After a reset recv returns -1 once, and the server goes
\* on: it spins in a later read, or the next send kills it.
ClientGone ==
  /\ server \in {"init", "header", "payload"}
  /\ Gone(clntSock) /\ Len(up[clntSock]) < Missing
  /\ server' = "spin" \/ (LastRead /\ server' = "dead")
  /\ UNCHANGED <<clientVars, up, down, backlog, clntSock, hashreq_num, counter,
                 ctx, requestVars>>

-----------------------------------------------------------------------------
ClientStep(c) ==
  Transmit(c) \/ GetAck(c) \/ Request(c) \/ FileEnds(c) \/ GetResponse(c)
    \/ Close(c) \/ ServerGone(c)

ServerStep ==
  Accept \/ Initialize \/ Header \/ Recv \/ Update \/ Respond \/ Finish \/ ClientGone

Next == (\E c \in Client : Connect(c) \/ Kill(c) \/ ClientStep(c)) \/ ServerStep

Spec == Init /\ [][Next]_vars

\* Every process that can go on does.  Nobody has to be started or killed.
Fairness == (\A c \in Client : WF_vars(ClientStep(c))) /\ WF_vars(ServerStep)

FairSpec == Spec /\ Fairness

-----------------------------------------------------------------------------
Message == [type : {2}, num : Nat]
             \cup [type : {4}, counter : Nat, checksum : Seq(Int)]

\* Types; a read never takes more than it wants.
TypeOK ==
  /\ client \in [Client -> {"start", "ack", "next", "response", "done", "stuck",
                            "spin", "dead"}]
  /\ out \in [Client -> Seq(Nat)] /\ up \in [Client -> Seq(Nat)]
  /\ down \in [Client -> Seq(Message)]
  /\ position \in [Client -> Nat]
  /\ asked \in [Client -> Seq(Seq(Nat))]
  /\ answered \in [Client -> Seq(Seq(Int))]
  /\ backlog \in Seq(Client)
  /\ server \in {"accept", "init", "header", "payload", "spin", "dead"}
  /\ clntSock \in Client \cup {None}
  /\ clntSock = None <=> server = "accept"
  /\ hashreq_num \in Nat /\ counter \in Nat
  /\ mes_length \in Nat /\ left \in Nat
  /\ read_buffer \in Seq(Int) /\ Len(read_buffer) <= Wanted
  /\ ctx \in Seq(Int)

\* Every client gets, one after the other, the digests of the payloads it has
\* asked about, each with the same salt in front: however the payload was cut
\* up on its way and into chunks, and whatever the connections before left.
Service == INSTANCE HashService WITH
  Payload <- [c \in Client |->
    {SubSeq(File[c], cut[1], cut[2]) : cut \in (1..Len(File[c])) \X (1..Len(File[c]))}]
Answers == Service!Spec

\* The server and the client it serves never wait for each other: when the
\* client waits for a message, the server has what it needs to go on.
NoMutualWait ==
  \A c \in Client :
    ~ /\ client[c] \in {"ack", "response"} /\ out[c] = << >> /\ down[c] = << >>
      /\ clntSock = c /\ Len(up[c]) < Missing

\* As long as nobody is killed the server reads no stream beyond its end and
\* sends nothing to a client that has gone, in spite of the loops that would
\* not survive it.
OnlyKillsHurt ==
  (\A c \in Client : client[c] # "dead") => server \notin {"spin", "dead"}

\* What holds all clients up for ever: the server's loop at the end of a
\* stream, its death, or a client whose file is too short.
ServerLost ==
  \/ server \in {"spin", "dead"}
  \/ clntSock # None /\ client[clntSock] = "stuck"

\* Every client that has connected comes to its end, or the server is lost.
Served ==
  \A c \in Client :
    client[c] = "ack" ~> Gone(c) \/ client[c] = "stuck" \/ ServerLost
=============================================================================
