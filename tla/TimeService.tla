----------------------------- MODULE TimeService -----------------------------
(***************************************************************************)
(* The time client and server of assignment1.  Clients send their          *)
(* requests over UDP, one after the other, and then wait for the           *)
(* responses; the server answers each request it does not drop and keeps   *)
(* one entry per client to notice sequence numbers that run backwards.     *)
(* The network may lose, delay, reorder and duplicate every datagram.      *)
(* Times of day and the offsets computed from them are left out.           *)
(***************************************************************************)
EXTENDS Integers, FiniteSets

CONSTANTS
  Client,       \* client processes, named by the address and port they use
  N,            \* reqnum: requests per run of a client
  Window,       \* 120 in the code: seconds after which an entry is stale
  DropPercent,  \* the server's drop_percent
  Lossy,        \* the clients whose datagrams the network may lose
  HasTimeout,   \* the clients whose timeout is positive
  MaxTime,      \* bound on the clock
  MaxRuns       \* bound on the runs of each client from its address and port

ASSUME TimeAssumption ==
  /\ N \in Nat /\ MaxTime \in Nat /\ MaxRuns \in [Client -> Nat]
  /\ Window \in Nat \ {0}
  /\ DropPercent \in 0..100
  /\ Lossy \subseteq Client /\ HasTimeout \subseteq Client

VARIABLES
  requests,   \* requests on their way to the server
  responses,  \* responses on their way back
  list,       \* the server's list: for each client it knows, its entry
  now,        \* the server's clock in seconds
  printed,    \* the server's last line of output, << >> before the first
  accepted,   \* history: which requests the server did not report, and when
  phase,      \* where a client is: "sending", "receiving" or "done"
  i,          \* the variable of a client's current loop
  recorded,   \* the requests whose slot in messages[] is filled
  run         \* how many times a client has been started

clientVars == <<phase, i, recorded, run>>
serverVars == <<list, printed, accepted>>
vars == <<requests, responses, list, now, printed, accepted, clientVars>>

SeqNo == 1..N
Datagram == [client : Client, seq : SeqNo]
Entry == [seq : 0..N, last : 0..MaxTime]

Init ==
  /\ requests = {} /\ responses = {}
  /\ list = [c \in {} |-> 0]
  /\ now = 0
  /\ printed = << >>
  /\ accepted = {}
  /\ phase = [c \in Client |-> "sending"]
  /\ i = [c \in Client |-> 0]
  /\ recorded = [c \in Client |-> {}]
  /\ run = [c \in Client |-> 1]

-----------------------------------------------------------------------------
(* The client. *)

\* One round of the first loop: sendto with seq = i + 1.
Send(c) ==
  /\ phase[c] = "sending" /\ i[c] < N
  /\ requests' = requests \cup {[client |-> c, seq |-> i[c] + 1]}
  /\ i' = [i EXCEPT ![c] = @ + 1]
  /\ UNCHANGED <<responses, serverVars, now, phase, recorded, run>>

\* All requests are sent: messages[] is cleared and the second loop begins.
StartReceiving(c) ==
  /\ phase[c] = "sending" /\ i[c] = N
  /\ phase' = [phase EXCEPT ![c] = "receiving"]
  /\ i' = [i EXCEPT ![c] = 0]
  /\ recorded' = [recorded EXCEPT ![c] = {}]
  /\ UNCHANGED <<requests, responses, serverVars, now, run>>

\* The network hands a datagram over; it may keep a duplicate of it.
Delivered(net, net2, m) == net2 = net \ {m} \/ net2 = net

\* Mutant: a duplicate uses up a round of the loop.
Receive_CountsDuplicates(c) ==
  /\ phase[c] = "receiving" /\ i[c] < N
  /\ \E m \in responses :
       /\ m.client = c
       /\ Delivered(responses, responses', m)
       /\ recorded' = [recorded EXCEPT ![c] = @ \cup {m.seq}]
       /\ i' = [i EXCEPT ![c] = @ + 1]
  /\ UNCHANGED <<requests, serverVars, now, phase, run>>

\* recvfrom returns a response.  A duplicate is not counted.
Receive(c) ==
  /\ phase[c] = "receiving" /\ i[c] < N
  /\ \E m \in responses :
       /\ m.client = c
       /\ Delivered(responses, responses', m)
       /\ \/ /\ m.seq \in recorded[c]
             /\ UNCHANGED <<i, recorded>>
          \/ /\ m.seq \notin recorded[c]
             /\ recorded' = [recorded EXCEPT ![c] = @ \cup {m.seq}]
             /\ i' = [i EXCEPT ![c] = @ + 1]
  /\ UNCHANGED <<requests, serverVars, now, phase, run>>

\* Mutant: a timeout does not leave the loop.
TimeOut_TriesAgain(c) ==
  /\ c \in HasTimeout
  /\ phase[c] = "receiving" /\ i[c] < N
  /\ UNCHANGED vars

\* recvfrom fails after the timeout.
TimeOut(c) ==
  /\ c \in HasTimeout
  /\ phase[c] = "receiving" /\ i[c] < N
  /\ phase' = [phase EXCEPT ![c] = "done"]
  /\ UNCHANGED <<requests, responses, serverVars, now, i, recorded, run>>

\* The second loop is over: the client prints a line for each request.
Report(c) ==
  /\ phase[c] = "receiving" /\ i[c] = N
  /\ phase' = [phase EXCEPT ![c] = "done"]
  /\ UNCHANGED <<requests, responses, serverVars, now, i, recorded, run>>

\* The user starts the client again and it gets the same port, while
\* datagrams of the earlier run may still be on their way.
Restart(c) ==
  /\ phase[c] = "done" /\ run[c] < MaxRuns[c]
  /\ phase' = [phase EXCEPT ![c] = "sending"]
  /\ i' = [i EXCEPT ![c] = 0]
  /\ recorded' = [recorded EXCEPT ![c] = {}]
  /\ run' = [run EXCEPT ![c] = @ + 1]
  /\ UNCHANGED <<requests, responses, serverVars, now>>

-----------------------------------------------------------------------------
(* The server. *)

Expired(d) == now - list[d].last >= Window

Older(c, s) == c \in DOMAIN list /\ ~Expired(c) /\ s < list[c].seq

Fresh(s) == [seq |-> s, last |-> now]

\* Mutant: a stale entry of another client takes the number at hand.
update_list_ResetsToNew(c, s) ==
  [d \in DOMAIN list \cup {c} |->
     CASE d = c /\ ~Older(c, s)   -> Fresh(s)
       [] d # c /\ Expired(d)     -> Fresh(s)
       [] OTHER                   -> list[d]]

\* update_list: an older number leaves the client's entry as it is, any other
\* is stored; stale entries of other clients are reset on the way.
update_list(c, s) ==
  [d \in DOMAIN list \cup {c} |->
     CASE d = c /\ ~Older(c, s)   -> Fresh(s)
       [] d # c /\ Expired(d)     -> Fresh(0)
       [] OTHER                   -> list[d]]

\* The server draws a number of 0..100 for each request.
Keeps(random) == DropPercent = 0 \/ random > DropPercent
MayAnswer == \E random \in 0..100 : Keeps(random)
MayDrop   == \E random \in 0..100 : ~Keeps(random)

\* Mutant: a reported request is not answered.
Serve_OnlyAccepted(m) ==
  /\ m \in requests /\ MayAnswer
  /\ Delivered(requests, requests', m)
  /\ list' = update_list(m.client, m.seq)
  /\ \/ /\ Older(m.client, m.seq)
        /\ printed' = <<m.client, m.seq, list[m.client].seq>>
        /\ UNCHANGED <<accepted, responses>>
     \/ /\ ~Older(m.client, m.seq)
        /\ accepted' = {a \in accepted : <<a.from, a.seq>> # <<m.client, m.seq>>}
                         \cup {[from |-> m.client, seq |-> m.seq, at |-> now]}
        /\ responses' = responses \cup {m}
        /\ UNCHANGED printed
  /\ UNCHANGED <<now, clientVars>>

\* A request is looked up, stored or reported, and answered in either case.
Serve(m) ==
  /\ m \in requests /\ MayAnswer
  /\ Delivered(requests, requests', m)
  /\ list' = update_list(m.client, m.seq)
  /\ \/ /\ Older(m.client, m.seq)
        /\ printed' = <<m.client, m.seq, list[m.client].seq>>
        /\ UNCHANGED accepted
     \/ /\ ~Older(m.client, m.seq)
        /\ accepted' = {a \in accepted : <<a.from, a.seq>> # <<m.client, m.seq>>}
                         \cup {[from |-> m.client, seq |-> m.seq, at |-> now]}
        /\ UNCHANGED printed
  /\ responses' = responses \cup {m}
  /\ UNCHANGED <<now, clientVars>>

\* The server drops a request, or the network loses it.
LoseRequest(m) ==
  /\ m \in requests /\ (m.client \in Lossy \/ MayDrop)
  /\ requests' = requests \ {m}
  /\ UNCHANGED <<responses, serverVars, now, clientVars>>

LoseResponse(m) ==
  /\ m \in responses /\ m.client \in Lossy
  /\ responses' = responses \ {m}
  /\ UNCHANGED <<requests, serverVars, now, clientVars>>

\* A response arrives at a port nobody listens on any more.
Undeliverable(m) ==
  /\ m \in responses /\ phase[m.client] = "done"
  /\ responses' = responses \ {m}
  /\ UNCHANGED <<requests, serverVars, now, clientVars>>

Tick ==
  /\ now < MaxTime
  /\ now' = now + 1
  /\ UNCHANGED <<requests, responses, serverVars, clientVars>>

-----------------------------------------------------------------------------
ClientStep(c) ==
  Send(c) \/ StartReceiving(c) \/ Receive(c) \/ TimeOut(c) \/ Report(c) \/ Restart(c)

Handle(m) == Serve(m) \/ LoseRequest(m) \/ LoseResponse(m) \/ Undeliverable(m)

Next ==
  \/ \E c \in Client : ClientStep(c)
  \/ \E m \in Datagram : Handle(m)
  \/ Tick

Spec == Init /\ [][Next]_vars

\* A process that can go on does.  The kernel hands every datagram that is not
\* lost to its reader in the end, and duplicates do not keep a reader from its
\* timeout for ever.  Nobody has to start a client again.
Fairness ==
  /\ \A c \in Client : WF_vars(Send(c)) /\ WF_vars(StartReceiving(c))
                       /\ WF_vars(Report(c)) /\ WF_vars(TimeOut(c))
  /\ \A m \in Datagram :
       /\ WF_vars(Serve(m))
       /\ WF_vars(Receive(m.client) /\ m \notin responses')

FairSpec == Spec /\ Fairness

-----------------------------------------------------------------------------
\* The variables keep their types; an entry of the list is never younger than
\* the clock of the server.
TypeOK ==
  /\ requests \subseteq Datagram /\ responses \subseteq Datagram
  /\ DOMAIN list \subseteq Client
  /\ list = [c \in DOMAIN list |-> list[c]]
  /\ \A c \in DOMAIN list : list[c] \in Entry /\ list[c].last <= now
  /\ now \in 0..MaxTime
  /\ printed \in {<< >>} \cup (Client \X SeqNo \X SeqNo)
  /\ accepted \subseteq [from : Client, seq : SeqNo, at : 0..MaxTime]
  /\ phase \in [Client -> {"sending", "receiving", "done"}]
  /\ i \in [Client -> 0..N]
  /\ recorded \in [Client -> SUBSET SeqNo]
  /\ run \in [Client -> Nat]

\* A client that ended without a timeout reports no request as dropped, and one
\* that timed out still waited for something: duplicates, whether made by the
\* network or left over from an earlier run, are never counted as responses.
CompleteReport ==
  \A c \in Client : phase[c] = "done" => (i[c] = N <=> recorded[c] = SeqNo)

\* The list of clients with its resets and its unrefreshed entries behaves as
\* if the server remembered every accepted request for the whole window.
Window120 == INSTANCE RecentSeq
Remembers == Window120!Spec

\* With a positive timeout every client comes to an end, whatever is lost.
ClientEnds ==
  \A c \in HasTimeout : phase[c] = "sending" ~> phase[c] = "done"

\* When nothing is lost or dropped a client without a timeout gets a response
\* to every request, also those the server reports as out of order.
AllAnswered ==
  DropPercent = 0 =>
  \A c \in Client \ (HasTimeout \cup Lossy) :
    phase[c] = "sending" ~> (phase[c] = "done" /\ recorded[c] = SeqNo)
=============================================================================
