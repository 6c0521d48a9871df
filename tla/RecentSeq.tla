------------------------------ MODULE RecentSeq ------------------------------
(***************************************************************************)
(* What the server of assignment1 promises about the order of requests,    *)
(* without its list of clients: a request is reported exactly if one with  *)
(* a larger sequence number was accepted from the same address and port    *)
(* less than Window seconds ago, and the report names the largest such     *)
(* number.  Every other request is accepted.                               *)
(***************************************************************************)
EXTENDS Naturals

CONSTANTS Client,  \* the pairs of address and port requests come from
          SeqNo,   \* the sequence numbers of requests
          Window   \* the length of the window in seconds

VARIABLES now,       \* the server's clock, in seconds
          accepted,  \* for each client and number, when it was last accepted
          printed    \* the last line of output, <<>> before the first

vars == <<now, accepted, printed>>

Init ==
  /\ now \in Nat
  /\ accepted = {}
  /\ printed = << >>

Recent(c) == {a \in accepted : a.from = c /\ now < a.at + Window}

Tick ==
  /\ now' = now + 1
  /\ UNCHANGED <<accepted, printed>>

Warn(c, s) ==
  \E a \in Recent(c) :
    /\ s < a.seq
    /\ \A b \in Recent(c) : b.seq <= a.seq
    /\ printed' = <<c, s, a.seq>>
    /\ UNCHANGED <<now, accepted>>

Accept(c, s) ==
  /\ \A a \in Recent(c) : a.seq <= s
  /\ accepted' = {a \in accepted : <<a.from, a.seq>> # <<c, s>>}
                   \cup {[from |-> c, seq |-> s, at |-> now]}
  /\ UNCHANGED <<now, printed>>

Next ==
  \/ Tick
  \/ \E c \in Client, s \in SeqNo : Warn(c, s) \/ Accept(c, s)

Spec == Init /\ [][Next]_vars
=============================================================================
