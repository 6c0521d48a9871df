# CMSC417 projects: a TLA+ development

The repository holds five networking assignments in C. This directory holds
TLA+ modules that model them, TLC configurations that check the models on small
instances, and theorems that TLAPS proves for every instance.

## 1. The system

The assignments are separate programs; only `assignment4` is a distributed
system of equals, and it is the largest. The parts, in the order of their weight:

| part | sources | state | operations | hard behaviour |
| --- | --- | --- | --- | --- |
| **Chord node** | `assignment4/chord.c`, `chord.proto` | `successorList[r]`, `fingerTable[161]`, `prede`, `next`, the call the process is blocked in | create/join, `stabilize`, `fixFingers`, `checkPredecessor`, five RPC handlers, user `Lookup` | one thread per process that blocks in nested calls to other processes; joins and failures in any order; answers that are stale when used |
| identifiers | `assignment4/chord.c` 194-249, 296-309, 835-851 | none | `between`, `closetPrecedingNode`, `clearNode`, `addHashToPowerOfTwo` | wrap-around, aliasing, a carry at 255 |
| distance-vector router | `assignment2/es.c`, `ls.c`, `rt.c`, `n2h.c`, `queue.h` | event sets, links, routing table, alarm flags | events (establish, update, tear down), periodic sending, receive rule | signal handler against main loop; costs of three widths; count to infinity |
| router configuration | `assignment2/ru.y`, `ru.l`, `dr.c` | event sets, list of nodes | parsing, arguments | none |
| chat client | `assignment3/rclient.c` | connection, room, pending keep-alive, alarm | `\connect`, `\join`, `\leave`, `\list`, `\msg`, `\nick`, `\disconnect`, talk | inline replies against asynchronous ones; alarm |
| UDP time client and server | `assignment1/client.c`, `server.c` | client: responses received; server: list of clients | send all, receive until a timeout; drop or answer, remember | loss, duplication, reordering, 120-second window |
| hash client and server | `assignment0/client.c`, `server.c`, `hash.c` | one connection, one digest context | client: initialization, requests of random sizes; server: accept, requests in chunks of 4096 bytes, `checksum_create`, `_update`, `_finish`, `_reset` | partial reads, end of a stream in the middle of a request, one context for many requests |
| samples and tests | `assignment4/rpc.c`, `test.c`, `hashtest.c` | none | none | none |

How they interact: in each assignment a client talks to a server over a socket;
Chord nodes are clients and servers of each other. Nothing is shared between the
assignments but the SHA-1 wrapper.

What makes each part correct:

* **Chord**: a caller gets the answer to its own call, exactly once; nodes that
  join (in any order, several at a time) form one ring in the order of the
  identifiers and never leave it; a lookup never comes back to a node that works on it
  and does not skip the owner; while nobody dies successors only get closer and
  predecessors lead to their nodes; dead successors are given up; the ring and the
  fingers converge.
* **Router**: tables lead over links that exist and not in circles; in a growing
  network they become those of the cheapest paths; no event set and no sending is
  lost between handler and main loop. (That the sets come once in a period is claimed
  and not so, see the findings.)
* **Chat client**: a reply is taken for the answer to the command it belongs to, unless
  others were under way; no read on an open connection waits for what nobody will send; the client's room is the
  server's; the server hears from the client at least once a period.
* **Time**: the client counts a response once and reports as dropped exactly the
  requests whose response it did not get; the server warns exactly about sequence
  numbers that run backwards within the window, and answers them too.
* **Hash**: the digest of a request is that of the salt and its bytes, whatever the
  chunks, the cuts of the stream and the requests before; client and server never wait for
  each other; one client's end does not hold up the others, unless it is killed.

`PROJECT.json` lists, under `hazards`, the places where each of these can go
wrong, with the properties that watch them.

## 2. Modules

| module | what it is |
| --- | --- |
| `ChordId` | pure operators: identifier order, the search for the closest preceding node, clearing a node, the finger addition |
| `Chord` | the processes: state, one action per stretch of code between two communication points, fairness, properties |
| `MCChord` | identifiers of one three-bit or two two-bit digits and sets of timers for TLC; `FingerStartsNear` |
| `ChordCalls` | type correctness, the inductive invariant `CallInv` and what it says of calls, also after failures |
| `ChordRing` | the inductive invariant `RingInv` and the theorems about the undisturbed ring |
| `LookupService` | what the nodes promise to the users who look up keys: the ring grows, a lookup is atomic |
| `ChordLookup` | the inductive invariant `LookupInv`, the theorems about lookups, the refinement of `LookupService`, and what `fixFingers` enters in the ideal ring |
| `RecentSeq` | what the time server promises: it remembers every accepted request for the whole window |
| `TimeService` | time clients, server, network; implements `RecentSeq` |
| `MCTime`, `TimeProofs` | symmetry and numbers of runs for TLC; its inductive invariant and theorems |
| `Router` | routers that dispatch event sets and exchange tables |
| `MCRouter`, `RouterProofs` | two configurations; the inductive invariant and theorems |
| `RouterAlarm` | one router's alarm handler and main loop, with the seconds |
| `MCAlarm`, `AlarmProofs` | choices of the two times; the two inductive invariants and theorems |
| `HashService` | what the hash server promises: every payload is answered, in order, with its digest |
| `HashServer` | hash clients, the sequential server and the streams between them; implements `HashService` |
| `MCHash`, `HashProofs` | three clients for TLC; the inductive invariant, the refinement and the theorems |
| `ChatClient` | the chat client's loop, its alarm, and the external server as far as the client can tell |
| `ChatProofs` | its invariants and theorems |

### How Chord is modelled

A process of `chord.c` is one thread: it polls, serves at most one request, then
looks at its timers. Everything it does between two points where another process
can notice is one action. These points are a `connect` (which succeeds exactly if
the callee's process exists, since the kernel completes it) and the arrival of an
answer. A request goes out with its connect, in one step (the caller does nothing in between, and
a callee that accepts in between just waits; a caller killed right there is left out). So `stabilize` is `Stabilize` (the connect to the first live entry of the
list), `GotPredecessor`, `GotList`, `GotListOfPredecessor`, `Notified`, each of
them the code from one `read_n_bytes` to the next; `handleFindSuccessorRPC` is
`FindHere`, `FindElsewhere`, `FindAgain`, `Found`, entered from a remote call, from
`fixFingers` or from the user's `Lookup`, and `find` remembers which.

| code | model |
| --- | --- |
| position in the program | `pc`; the values of `Waiting` are the reads of an answer |
| `prede`, `successorList` (and `successor`, always its slot 0), `fingerTable`, `next` | `prede`, `list`, `finger`, `next` |
| socket of the call in progress, with the request and its answer | `call`, whose `phase` is queued (in the callee's backlog), accepted, replied |
| arguments of `handleFindSuccessorRPC` and its caller | `find` |
| `i` and `getPredeRet` in `stabilize` | `at` |
| what the user asked and was told | `lookup`, with the history `seen`: who was on the ring when it was asked |

A `struct Node` is its identifier; a zeroed one is `Empty`, whose identifier
compares as 0, as in the code. Identifiers are naturals (in the runs, three
bits), so `between` is the code's comparison. The addition of `fixFingers` is
kept with its carry at 255 (`CarryBase`), in miniature.

Failures: `Kill` stops a process from outside at any moment. What it has sent and
nobody has accepted is still served (a late notify can make a dead node somebody's
predecessor); whoever waits for it either dies (a reset: the length read is
uninitialized) or spins (an orderly close: `read_n_bytes` repeats a `recv` of 0),
`CalleeGone`. Running past the end of the successor list (line 717) reads
foreign memory: the process dies or connects to something that never answers.

Left out: restarts under an old address; the bytes `strcpy` leaves behind a
shorter address, which `memcmp` of whole structs would compare; the oversized
`memset` of line 941; `PrintState`; protobuf encoding; argument checks. A failed
`sendReturnRPC` clears a node with the client's ephemeral port, which is nobody's,
and so does nothing. A node that joins names one that is up.

### How the time service is modelled

A client's two loops are `Send`, `StartReceiving`, `Receive`, `TimeOut` and
`Report`; `i` is the variable of the loop it is in and `recorded` the set of filled
slots of `messages[]`. The server's loop is `Serve` with `update_list`; its list
of clients, in which an entry is found or appended, is a function `list` whose
domain are the clients it knows. The network is two sets of datagrams; a
delivery may leave the datagram there (a duplicate), nothing keeps their order, and
`LoseRequest` and `LoseResponse` lose them where `Lossy` says so. The server's own
drop is drawn as in the code from 0..100. A client that ends may be started again
from the same port (`Restart`), so that old requests and responses meet its next
run. Two histories are kept: `printed`, the server's last line, and `accepted`,
which requests it did not report and when; the refinement compares the report with
`accepted`. Left out: times of day and offsets, argument checks, and sequence numbers
outside 1..N (a client started with fewer requests than its previous run
writes outside `messages[]` when an old response arrives).

### How the router is modelled

`walk_el` mixes two things that hardly touch each other, so there are two
modules. `RouterAlarm` has the seconds: `alarm_handler` branch by branch
(`AfterRemainder`, `PeriodEnds`, `PeriodEndsSoon`, `SendingDue`), which may run between
any two steps of the main loop, and of that loop only its looks at the flags
(`Poll`, `Check`) and its clearing of them (`Sent`, `Take`), each a step of its own,
because the signal is not blocked in between. `Router` has the network of
routers without seconds: each dispatches its next event set and sends its table
whenever it likes, which includes every schedule the clockworks allow.

| code | `Router` |
| --- | --- |
| `el`, the position in the list of event sets | `pos`, into the constant `Sets` |
| link set | `links`, a cost or `NoLink` per pair |
| `old_link[]`, `dontread` | the same names; `dontread` counts up to 2 |
| routing table entry (`c`, `nh`) | `rt[n][d]` |
| datagrams in the sockets | `queue[m][n]`, in order, at most `MaxQueue` |
| `dispatch_event` and the correction loop, lines 239-351 | `Dispatch`, with `DirectRoute` and `IndirectRoute` |
| `send_rt` and `sendto` | `Send`: the same table to every open socket; any may miss it if `Lossy` |
| the poll loop | `Receive` |

Costs keep their three widths: `Wide`, `Wire` and `Byte` stand for 2^32, 2^24 and
2^8, and `Limit` for 16770000; infinity is `Wide - 1` and is cut to 24 bits when
sent, as in the code. A link that is not there is recorded in `old_link` as `Byte - 1`.
A receiver's socket exists from the dispatch of the link on and is never closed, so
a torn-down link still takes datagrams that nobody reads.

`RouterAssumption` says which configurations are meant: an event set touches a link once,
no link is established twice (the port is still bound and the process ends), costs are
below `Limit` and not multiples of `Byte` (`old_link` would take them for no link).
Left out: link names that are ambiguous (nodes 1 and 112, nodes 11 and 12), host name
lookup, and that `send_flag` stays up in a router without links.

### How the hash service is modelled

A connection's stream to the server is a sequence of numbers: `out[c]` is what the
client's `send_n_bytes` calls have still to send, `up[c]` what is on its way, at most
`Room` of it, and `Transmit` moves any number from one to the other, so that the server
meets every cut of the stream. `Recv` is one `recv` of the server's `read_n_bytes`. Two
adjacent four-byte reads are one step. Messages to the client are whole, as it
only ever waits for one.

| code | model |
| --- | --- |
| position in client and server | `client[c]`, `server` |
| listen queue of `listen(servSock, 5)` | `backlog`, at most `Backlog` |
| `clntSock`, `hashreq_num`, `counter`, `mes_length`, `read_buffer` | the same names |
| `i` and `update_times`, `remainder` | `left`, what has not gone into the digest: `ChunkDue` while a whole chunk is left |
| `ctx` | the bytes the context has taken in; `checksum_reset` puts back `Prefix` |
| `random_len`, `file` | any member of `Size[c]`, `File[c]` from `position[c]` on |

SHA-256 is taken to be injective, so a digest is the sequence of bytes digested; two of
them are equal exactly if the bytes are. `Prefix` is what the code takes for the salt: the
length handed to `checksum_create` at `server.c:140` is `sizeof(args.salt) - 1`, that of a
pointer less one, so 7 bytes from the start of the salt, with what is behind it in memory
when it is shorter; the rest of a longer salt is ignored. The option's text ("The salt
to be used", `server.c:69`) and the length the program prints (line 82) suggest the whole
of it. `HashService` promises the prefix, whatever it is.

Failures: `Kill` ends a client at any moment, with whatever it has not sent. The server
then finds the end of the stream in the middle of a read, where `read_n_bytes`
repeats a `recv` of 0 for ever (`ClientGone`, "spin"), or dies of a send to a
connection that was reset. A reset ends a read that has got nothing yet, since `recv`'s -1
is added to an unsigned count; if that was the last read before a send (`LastRead`), the server
dies there, and otherwise it spins in the next. A file with too few bytes makes the client spin in `fread`
(`FileEnds`) while it keeps the server. A client ends early only by `Kill`, which stands for
its own crashes too. Left out: argument checks, failed `socket`, `bind`, `malloc`.

### How the chat client is modelled

`rclient.c` is one loop: a poll without waiting, at most one line from the user, at most
one message from the server, one keep-alive if the alarm has asked for it. `pc` follows
it: "top", "input", "message", "alive". `\connect`, `\join` and `\list` wait inside the
command ("inline", `SendAndWait`, `ReadAnswer`); a message the loop reads is at "async".

| code | model |
| --- | --- |
| `connected`, `inARoom` and `room`, `sendFlag` (the global) | `connected`, `room`, `sendFlag` |
| `sockets[1].revents`, as poll left it | `revents` |
| the seconds until SIGALRM | `timer`, 0 when off; `Tick` is a second, `Period` the 6 of the code |
| the socket | `pending` (commands the server has not handled) and `down` (messages the client has not read), together at most `MaxQueue` |
| the server, which is not in the repository | `itsRoom`, `closed`, and the actions `Handle`, `Push`, `ServerCloses` |

What the server does is taken from what the client relies on: it handles commands in
order and answers `\connect`, `\nick`, `\join`, `\list` and a `\leave` of a room
(the answers to `\nick` and `\leave` are left to the loop: the reads in the code are commented
out at lines 96 and 226), it closes the connection at a `\leave` outside a room, it
answers text only with an error, and it may push text of others once it has
greeted the client.

The alarm runs between any two steps. The Makefile compiles with `-std=c99`, for which
`signal` is the one of System V: system calls are not restarted. So an alarm
that meets a waiting `recv` makes it fail, `read_n_bytes` gives up, and what follows
reads the stream from the wrong place: "garbled", where the model stops. At the end of a
closed stream `read_n_bytes` repeats a `recv` of 0 for ever, "spinning", a read that does not
end; after an error it gives up and its callers go on with what was in their variables, which
is "broken", and so is a send on a closed connection. The histories `crossed` (an answer was
awaited while something else was under way), `mixed` (a message was taken for the
answer to another command) and `void` (text outside a room put the alarm off though nothing
was sent) are there for the properties; `quiet` counts the seconds without a send.

Left out: the bytes of messages and the lengths of names and texts, command lines that lack
a colon or a space, an ended standard input, and connections that stay open because
lines 435 and 463 close -1.

`X_Y` operators marked "Mutant:" are faulty variants of the operator X behind them;
no specification uses them. They show that a property would notice that fault.

## 3. Runs

| run | instance | shows |
| --- | --- | --- |
| `chord_ring` | nodes 1, 3, 6, R = 2, one kill, fair | types, `CallDiscipline`, `NoSelfCall`, `OnlyCyclesBlock`, `NoSpontaneousFailure`, `PredecessorIsAnother`, `PredecessorLeadsOn`, `SuccessorOnlyCloser`, `RingConverges`, `DeadSuccessorDropped` |
| `chord_find` | nodes 1, 3, 6, R = 1, two fingers, lookups of keys 5 and 7 by node 1, up to the first answer | `OneRing`, `RingOrdered` with two joins into one gap at once; `LookupNeverSkips`, `NoLookupLoop` with lookups that are passed on up to twice; `LookupsAtomic` (the refinement of `LookupService`) |
| `chord_fingers` | nodes 2, 7 of two two-bit digits, R = 2, all timers, one kill, fair | `FingersConverge`, `RetryEnds`, `CallEndsOrCycle`; `FingerStartsNear`, with additions that carry from digit to digit |
| `chord_no_timeout` | nodes 3, 6, fair | a finding: calls are not bounded in time |
| `time_window` | two clients, 2 requests, window 2 of 2 seconds | `Remembers` (the refinement of `RecentSeq`) with entries reset on behalf of others |
| `time_ends` | two clients, 2 requests; one of them with a timeout, lossy and started twice, fair | `CompleteReport`, `ClientEnds`, `AllAnswered` for the other one |
| `router_clock` | update_time 1..4, time_between 1..7, 30 seconds, turns below two seconds | `NoSetLost`, `SendingKeepsPace` |
| `router_period` | the same | a finding: sets do not come once in a period |
| `router_tables` | three routers in a triangle, of which one is cut off later; losses | `RoutesDescend`, `UsesOwnLinks` |
| `router_grows` | three routers, a new and a cheaper link, fair | `Converges` |
| `hash_server` | three clients: sizes 2, 4, 5 of a file that may run out, twice 3, and none; two of them mortal; chunks of 2, streams of 3; fair | `NoMutualWait`, `OnlyKillsHurt`, `Answers` (the refinement of `HashService`), `Served` |
| `chat_client` | two rooms, a period of 2 seconds, two commands or messages under way, fair | `AlwaysOwed`, `OwnAnswer`, `RoomAgrees`, `NeverSilent`, `WholePeriod`, `ReadsEnd` |

The type invariants of the time service, the two router modules, the hash service and the chat
client are proved (section 4) and not checked by a run as well.

Why the instances are enough to be interesting: three nodes are the fewest with
a node between a node and its successor while a third stabilizes, and with the creator 3 both
others join into its one gap, at once or while it is half-way through `stabilize`. What a
fourth node would add is covered by the theorems, which are about rings of every size. The identifiers are not evenly spaced, so that fingers coincide for
some nodes and not for others and both carry and wrap-around occur. R = 2 is the
shortest list with a second entry to fall back on. One kill already reaches every
failure path, including the reads past the list and the endless retries.

In `time_window` the clients are symmetric; the second is the one whose requests
reset the first one's stale entry. A window of two seconds is the shortest in which an
entry can be old and not yet stale. `time_ends` has no seconds (`MaxTime` is 0): what it
asks does not depend on them. For the router, three routers are the fewest with a
detour, and the cut leaves the third with nothing but stale datagrams; sockets hold one datagram, so that full ones lose the next and every
datagram can be stale when read. The scaled widths keep the order
Byte < Limit + Byte < Wire < Wide of the code, and the costs reach beyond `Byte`. In
`router_clock` all remainders of divisors up to 4 occur, update_time also exceeds
time_between, and `MaxTime` allows for three or more releases of most pairs. A turn of
the main loop sees at most one second begin there (`MaxTurn`). `NoSetLost` and
`SendingKeepsPace` carry their condition with them: turns shorter than the gap
between a release and the next alarm (`GapAfter`), and two turns shorter than
update_time. Nothing in the code bounds a turn, and one waiting for a host name longer
than the gap does lose a set's release to the next alarm.

In `hash_server` a payload may be shorter than a chunk is long, exactly one or two of them, or one
byte more than two; `Room` 3 is less than a request, so every request is sent in several
pieces and a kill meets every prefix of one; a queue of one makes clients wait to
connect. In `chat_client` two messages under way are the fewest with which an answer can be
another command's, and two rooms tell a stale join from the present one; a period
of two seconds has a second that is not the last.

Deadlock is checked for the router; it is not for Chord, the time service, the hash
service and the chat client, where clients simply end (or, for the last two, are stuck where
their code is: at the end of a file, or in a stream that was closed or read from the wrong
place). In Chord, too, the system really can stop. Nodes that stabilize at the
same time may wait for each other for ever (`WaitCycle`). This is why the liveness
properties have an alternative "or nodes wait in a circle" (those about undisturbed rings
also "or somebody dies", for runs that have kills), or `Stalled`, which
lists the ways in which the code can stop serving: dead, spinning, waiting for
such a process, in a circle, or retrying the last finger, which `clearNode`
never clears.

In `chord_find` a behaviour ends with the first answer to a lookup
(`MCFirstAnswer`), as nothing in the ring depends on an answer. Key 5 belongs to the creator 3 while it
is alone, then to 1 until 6 has joined, so that its owner changes while the question and
the answer are on their way. Key 7 lies behind 6: the lookup is passed on from 1 to 3 and from 3 to 6.
The run has the second and the third finger: the first one starts right behind
its node and so is always the successor, which is in the list as well. `LookupNeverSkips` speaks of askers on the ring. For others it is
false: while node 3 is alone, it names itself as node 4's successor; when 3 then takes 1 for its
own successor, 4 hangs on the ring behind everybody, and its user is told 3 for the key 5, which
belongs to 1.

Properties that speak of `kills = 0` describe the ring before anyone has died;
after a failure, the code does call itself, skip nodes and so on, and the
properties about failures say what is still guaranteed.

Fairness (`Fairness` in `Chord`): a process that can go on does (weak fairness of
`Continue`). `accept` takes connections in order, so a caller whose callee comes
back to its loop again and again is served (strong fairness of `Serve`). A task's
period is at least a second and the loop runs only one task per turn, so each task
gets its turn while the loop turns; strong fairness of the tasks, and only weak
fairness where `stabilize` is the only one. No fairness for joins, lookups, kills.
In the time service every process that can go on does, every datagram that is not lost
is delivered in the end, and nobody has to restart a client. In the router the
alarm goes off again and again, so every router dispatches its sets and sends on, and
its main loop polls all the time. Hash clients and server go on when they can; `Served` needs no
more, as the queue is served in order, and nobody is made to connect. The chat client's
loop goes on when it can and the server handles what it was sent (`Handle`); neither
the user, nor the alarm, nor what others say is fair.

### Findings

`chord_no_timeout`: line 182 promises a timeout of half a second. The value given
to `setsockopt` is 5,000,000 microseconds in a field that must be below one
million, so the call fails, its result is ignored, and reads wait without limit.
TLC shows two nodes that stabilize at once and never come back.

`router_period`: the comment at `es.c:171` says "dispatch and print a event SET every 2 sec",
and `assignment2/README:21` "Dispatching an event set every 2 secs". The sets come
`time_between` + `update_time` apart instead: the alarm that releases a set is not counted in
`alarm_counter` (lines 150-156), so the next release is one alarm late. With an update time of
1 and a `time_between` of 2 they come after 2, 5, 8, ... seconds (`ReleasedLate`, a theorem). TLC shows
a period of one second whose second set comes after three.

### What the router does not promise

While the model was written these behaviours showed up as well; no text of the repository
says otherwise, so they bound the properties instead of being findings:

* `Converges` is stated for networks that only get better. Between dispatches a router
  never takes back its own direct link when the route it prefers gets worse, and
  two routers that lose a third count up; infinity in 24 bits plus a link cost
  wraps when it is sent on, so the count ends in a small phantom cost.
* `RoutesDescend` is stated for the first event set: later corrections of indirect
  routes are computed in 8 bits and may be lower than the true cost.
* After an alarm has released a set, the next one clears `es_flag` unseen.

## 4. Proofs

`ChordCalls` proves, for every set of nodes, list length, number of fingers,
finger starts, set of timers and number of kills (the assumptions are
`NodeAssumption`: identifiers are positive naturals, finitely many, R and M at least one):

* `TypeCorrect`: `Spec => []TypeOK`
* `CallsAreKept`: `Spec => []CallDiscipline`
* `PredecessorNeverSelf`: `Spec => []PredecessorIsAnother`

All follow from `CallInv`, which is inductive. `CallDiscipline` alone is not, and
neither is `TypeOK`: `stabilize` uses `list[i]` after an answer, so one has to know
that `i` is inside the list there, and that the call in progress goes to that
very entry (`StabilizeLinks`); that the answer comes from another node needs
`Callees` (a call to oneself is never accepted); and that nobody notifies itself needs
both. The argument: steps are grouped by what they do to `pc`, `call` and `find`
(`AskKeeps`, `MoveKeeps`, `DoneKeeps`, `DieKeeps`, `HangKeeps`, `SearchKeeps`,
`AcceptKeeps`, `AnswerKeeps`), each kind is shown to keep the bookkeeping
from a few pointwise facts, and each action is shown to be of one kind.

`ChordRing` proves, for the same constants, also after failures:

* `CyclesAreTheOnlyDeadlock`: `Spec => []OnlyCyclesBlock`: whoever is blocked waits, in the
  end, for a process that can go on, for one that is gone or spins, or in a circle of calls

The argument: a callee has been started (`CalleesStarted`), so by `CallInv` one that is not
blocked itself can go on or is gone (`EndIsReady`). If everybody in the chain of callees
were blocked and nobody came back to himself, take the member of the chain whose own
chain is smallest: his callee's chain lies within it and lacks the callee, so it is smaller
(`ChainEnds`). Fairness turns this into `CallEndsOrCycle`.

As long as nobody has been killed:

* `NoFailureByItself`: `Spec => []NoSpontaneousFailure`
* `NeverCallsItself`: `Spec => []NoSelfCall`
* `SuccessorComesCloser`: `Spec => SuccessorOnlyCloser`
* `RingIsOne`: `Spec => []OneRing`
* `RingIsOrdered`: `Spec => []RingOrdered`
* `NobodyLeftAside`: in the ideal ring `OnRing` is all of `Members`
  (`IdealIsWhole`), so that `LookupNeverSkips` speaks of everybody
* `IdealRingStays`: the ideal ring changes only when somebody completes a join or dies
  (`IdealStays`), the safety half of `RingConverges`

The last two are stated in `ChordRing` and checked by no run.

The invariant, `RingInv`, is that successor lists, fingers, predecessors and answers
hold only nodes whose join is complete, that `stabilize` never gets past its first entry,
and that no successor lies beyond the node that created the ring (`Toward`). The last
part is what makes the rest inductive and what the shape of the ring follows from. Everybody
who follows successors comes to the creator within one turn (`OntoReaches`), so all
circles are one (`RingIsReached`). If nodes on the circle skipped others, take the first one
after the creator that does: no other edge of the circle leads into the gap it jumps over
(`SkipsEarlier`), so the nodes outside the gap, the creator among them, are closed under
successors, and whoever lies in it cannot be on the circle (`NobodySkipped`). An answer to a search may lie beyond the
creator if the target is a member's identifier; the invariant has to leave that out
(`AnswerToward`), and may, because a node asks for its own identifier only while it joins.

`Reached` and `Workers` are defined by counting up to the number of nodes. What
they contain is proved without induction over an operator: the set of the numbers up to which
a claim holds is shown to be everything by taking a least number outside it
(`LeastNumber`, `UpTo`), a sequence of growing subsets of a finite set by its
cardinality (`StepsClose`), and "the nearest node" by well-foundedness of strict inclusion
between finite sets (`MinimalSet`). So both are shown to be the least sets closed under the
step they repeat (`ReachedClosed`, `ReachedLeast`, `WorkersLeast`), and only that is used.

`ChordLookup` proves, for the same constants:

* `PredecessorsLeadOn`: `Spec => []PredecessorLeadsOn`
* `LookupsDoNotLoop`: `Spec => []NoLookupLoop`: all who work for a lookup have its
  target and lie between the asking node and that target, as every one of them passes it on to
  a node between itself and the target (`SearchesApproach`, a lemma)
* `LookupsNeverSkip`: `Spec => []LookupNeverSkips`
* `LookupsAreAtomic`: `Spec => LookupsAtomic`, the refinement of `LookupService`
* `FingersAreRepaired`: `Spec => RepairsAreRight`, if `StartsGoOut`: the safety half of
  `FingersConverge`. It is stated there and checked by no run.

The first and the third need two invariants (`LookupInv`). One says that what a node knows lies ahead of it
along the successors (`AllAhead`): its tables, its callee and its answers are in
`Reached`, and the predecessor it is told about, while `stabilize` carries it from
one call to the next, leads to its successor without passing it (`Onto`). That is stable because
nobody ever loses its way (`Widens`): an edge is only replaced by one to a node that
leads to where the old one led. This is where `PredecessorsLeadOn` comes from. The other says that a lookup by a node on the ring stays on
the ring (`Followed`): there is a set of nodes of the ring (`Search`) that
contains the asking node and everyone who works for one of the set, all with its
target, and every answer that has reached one of them is right with regard to
the nodes that were on the ring when the user asked. A node on the ring knows only nodes of the ring,
by the first invariant, so the set grows within it; and whoever answers by itself answers with
a successor that skips nobody, by `RingIsOrdered`.

`LookupsAreAtomic` says more: an answer is not only right about the nodes seen by the asker, it
is the owner of the key in the ring as it was at one moment between the question and the
answer. `Underway` maps the state to what `LookupService` calls found: the answers that have
reached somebody who works for the asker. It grows in one step only, `FindHere`, and there by
the owner of that moment (`OwnerFound`); all other steps hand an answer on as it is
or change who works for whom, which can only take nodes away (`UnderwayStep`, from
`Search` and from `Workers` being the least set closed under its step). With a question it starts empty
(`SearchStarts`), and `AskedInv` ties what the node searches to what its user asked for.
Nothing is promised to an asker that is not on the ring yet, for a key that is somebody's
identifier (see the hazards), or once a process has died.

The last is about the ring once it is ideal and no older answers are under way: until
somebody completes a join or dies, searches for nobody's identifier are answered with the
owner (`IdealReturn`), and a finger is left alone or comes to point at the owner of its
start. One answer fills several fingers, unasked, as long as their starts lie before the node
it names; that they have the same owner follows because the starts go outward
(`OutwardSameOwner`). `StartsGoOut` also asks that no start is a node's
identifier. Without that the theorem is false: asked for the start that is its own
successor's identifier a node answers with itself (line 340), `between(start, self, self)`
is true of nearly every start, and the loop of line 891 overwrites all later fingers with the node
itself. With two-digit identifiers of two bits and nodes 2, 7 and 11 this happens. What needs an invariant is only that the
finger being repaired is the one whose start was asked for (`AllAim`), since `next`
changes while the search is under way only when it ends.

`TimeProofs`, for any number of clients, requests, seconds, runs, any window
and drop rate (`TimeAssumption`):

* `TypeCorrect`: `Spec => []TypeOK`
* `ReportIsComplete`: `Spec => []CompleteReport`
* `ListRemembersWindow`: `Spec => Remembers`, the refinement of `RecentSeq`

The invariant adds `Counted` (outside its sending loop a client has counted exactly its
filled slots) and `Known`: the client of every accepted request has an entry, which was
written no earlier than the request was accepted; a larger number than the entry's that was
accepted has left the window; and a non-zero entry is itself an accepted request, with
its time. It is needed because a request that is reported does not refresh the entry,
and a stale entry of another client is overwritten by a zero with a fresh time, which
must not be taken for an accepted request.

`RouterProofs`, for any set of routers, any event sets and widths that satisfy
`RouterAssumption`, any size of the sockets, and any loss:

* `TypeCorrect`: `Spec => []TypeOK`; the sum of a cost from the wire and one from
  `old_link` never wraps in 32 bits (`ViaFacts`)
* `RoutesUseOwnLinks`: `Spec => []UsesOwnLinks`, from `LinkInv`: `old_link` is 0 only
  before the first set, so the correction loop never skips a route whose link went
* `RoutesAlwaysDescend`: `Spec => []RoutesDescend`, from `FirstInv`. Following the
  tables, costs fall, because costs only fall during the first set, datagrams on a
  socket are in order (`Falling`) and so whatever the next hop has sent or still has
  is below the cost it once offered (`Below`). An infinite cost is the exception, and
  the limit of line 415 is what keeps it out.
* `CostsAreReal`: `Spec => []NoCostTooLow`, the half of `Converges` that needs no
  fairness. During the first set no finite cost is below that of the cheapest path over
  the links there are, and a router that cannot be reached has an infinite one. `Floor`
  says it without paths: any assignment of numbers that is 0 at the destination and falls
  by no more than the cost of a link along it is a lower bound of the costs; the cheapest
  paths are the greatest such assignment, and where no path leads they may be as great as
  one likes. The entry with the least cost among those below the bound would, by
  `RoutesDescend`, have a next hop still further below it. A link counts with its cost in 8
  bits, as `old_link` has it: with costs below 256 these are the real ones, and otherwise
  tables do offer less than the network has (in `MCCut` the link of cost 5 counts 2). No run
  checks `NoCostTooLow`, which quantifies over all functions to `Nat`.

`AlarmProofs`, for any times (`AlarmAssumption`), any length of turns and any bound on the clock:

* `TypeCorrect`: `Spec => []TypeOK`, so an alarm is never set for 0 seconds, which
  would cancel it
* `ReleasesComeLate`: `Spec => []ReleasedLate`, what the code does where the finding `router_period` says
  what it does not; from `DueInStep`: outside the detour the alarm is due a whole number of update times after the start, one for each
  sending and each release; inside it is due at the release itself
* `SetsAreNotLost`: `Spec => []NoSetLost`, and `SendingKeepsUp`: `Spec => SendingKeepsPace`, from
  `PaceInv`: while a flag is up, the next alarm that touches it (for `send_flag`, `NextRequest`)
  lies beyond the longest that the present turn, or this and the next one, can take, so the
  loop comes to the flag before the handler does

`HashProofs`, for any clients, files, sizes, salt, chunk length, queue, buffers and kills
(`HashAssumption`):

* `Types`: `Spec => []TypeOK`
* `NeverBothWait`: `Spec => []NoMutualWait`
* `NoHarmWithoutKills`: `Spec => []OnlyKillsHurt`
* `Implements`: `Spec => Answers`, the refinement of `HashService`

None of these is inductive alone. The invariant says, for every client, at which point of
the conversation the two of them are: greeting, acknowledged, idle, asking, reading or
responded (`Stages`). For each it gives what is in flight from client to server
(`Flight`, what has been sent but not read followed by what is still to be sent) and
from server to client, the state of the server, and the number of answers against
requests. While a request is read, `ctx`, `read_buffer` and `Flight` together are
the salt and the payload, and the part not yet digested is `left` long; so however the
stream is cut, the digest is the right one, and what the server misses is what the client still
sends. `Fresh` (who has not connected has left no trace), `Queue` (nobody is in the queue
twice, or while he is served) and `Unhurt` (what harms needs a kill) complete it. A client
that is dead or spins is in no stage: nothing is answered to it any more.

`ChatProofs`, for any rooms, period and number of messages under way (`ChatAssumption`), a
theorem for each invariant of the run, and two that no run repeats:

* `Types`: the type invariant
* `ReadsAreOwed`, from `Debt`: a command that waits while `revents` is up has two messages to
  come, as the one poll saw is still there besides its answer
* `AnswersMatch`, from `Alone`: with nothing else under way the command is the only one
  pending, or its answer the only message
* `RoomsAgree`, from `RoomInv`: a pending `\join` is the last command under way, and only between
  its handling and its answer is the server's room ahead of the client's
* `AlarmStaysArmed` (the alarm is on while there is a connection) and `ClientIsHeard`, from `Sum`: `quiet` and `timer` add up to at most the
  period, unless a keep-alive is due in this turn of the loop
* `WaitsAreWhole`, from `Whole`: in a wait they add up to at least the period

Every invariant and every refinement the passing runs check is proved, with one exception, and
so are the action properties. Only model-checked are `FingerStartsNear`, a claim about recursive
functions over digits and powers, for which the provers have no arithmetic; and everything
under fairness (`RingConverges`, `FingersConverge`, `DeadSuccessorDropped`, `RetryEnds`,
`CallEndsOrCycle`, `ClientEnds`, `AllAnswered`, `Converges`, `Served`, `ReadsEnd`), which is beyond the
prover.

### Not modelled

* `assignment4/rpc.c`, `rpc.proto`, and the tests `test.c`, `hashtest.c`: straight-line code.
* `assignment2/dr.c`, `ru.y`, `ru.l`: the parser's result is a constant of `Router`.
* Restarts of Chord nodes under their old address, and what the bytes behind a shorter address
  do to comparisons of whole structs.
* A host name lookup inside a turn of the router's loop, but for its length.

## 5. Plan

1. `Chord` core, its runs, `CallInv` (done).
2. The ring, its lookups and its fingers while nobody has died, proved for every ring: `ChordRing`,
   `ChordLookup` (done). Left: fingers whose start is a node's identifier.
3. `assignment1`: client, server and lossy network, the server against an abstract
   specification, all its safety properties proved (done).
4. `assignment2`: the exchange of tables and the alarm handler, proved for every
   configuration (done). Left: what can be said of later event sets and of bad news.
5. `assignment3`: the client with an external server that answers in order, all its safety
   properties proved (done).
6. `assignment0`: the server's read loop and its digest context against the digest of
   the whole message, and the refinement proved (done).
7. Left besides 4: restarts of Chord nodes under their old address.
