----------------------------- MODULE HashService -----------------------------
(***************************************************************************)
(* What the hash server of assignment0 promises its clients: each payload  *)
(* a client asks about is answered, in the order of asking, with the       *)
(* digest of the server's salt followed by that payload.  SHA-256 is taken *)
(* to be injective: the digest of a sequence of bytes is that sequence.    *)
(***************************************************************************)
EXTENDS Sequences, Naturals

CONSTANTS
  Client,
  Payload,  \* the payloads each client may ask about
  Prefix    \* the bytes of the salt

VARIABLES
  asked,    \* the payloads each client has asked about
  answered  \* the digests it has been given

Digest(payload) == Prefix \o payload

Init ==
  /\ asked = [c \in Client |-> << >>]
  /\ answered = [c \in Client |-> << >>]

Ask(c, payload) ==
  /\ asked' = [asked EXCEPT ![c] = Append(@, payload)]
  /\ UNCHANGED answered

Answer(c) ==
  /\ Len(answered[c]) < Len(asked[c])
  /\ answered' = [answered EXCEPT ![c] = Append(@, Digest(asked[c][Len(@) + 1]))]
  /\ UNCHANGED asked

Next == \E c \in Client : (\E p \in Payload[c] : Ask(c, p)) \/ Answer(c)

Spec == Init /\ [][Next]_<<asked, answered>>
=============================================================================
