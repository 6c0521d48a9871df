------------------------------- MODULE MCChord -------------------------------
(***************************************************************************)
(* Chord for TLC: identifiers of one three-bit digit, so three fingers,    *)
(* with the finger starts that addHashToPowerOfTwo computes; and two-digit *)
(* identifiers for the run about those starts.                             *)
(***************************************************************************)
EXTENDS Chord

MCBits   == 3
MCDigits == 1
MCM      == MCBits * MCDigits

MCFingerStart ==
  [n \in Node |-> [k \in 1..MCM |-> AddHashToPowerOfTwo(n, k - 1, MCBits, MCDigits)]]

\* Without the first finger, which starts right behind its node.
MCTwoFingers ==
  [n \in Node |-> [k \in 1..2 |-> AddHashToPowerOfTwo(n, k, MCBits, MCDigits)]]

\* Identifiers of two digits of two bits each, so that additions carry over.
MCTwoDigits == 4
MCTwoDigitStart ==
  [n \in Node |-> [k \in 1..MCTwoDigits |-> AddHashToPowerOfTwo(n, k - 1, 2, 2)]]

\* What fixFingers asks the ring for is near the place of the finger it is
\* about to fill, although addHashToPowerOfTwo carries at 255.
FingerStartsNear ==
  \A n \in Node : find[n].for = "fix" =>
    StartsNear(find[n].target, n, next[n] - 1, 2, 2)

MCNoKeys == [n \in Node |-> {}]
MCKeys   == [n \in Node |-> IF n = 1 THEN {5, 7} ELSE {}]

\* Up to the first answer to a lookup, on which nothing else depends.
MCFirstAnswer ==
  Init /\ [][Next /\ \A n \in Node : lookup[n].node = Empty]_vars

MCStabilize == {"stabilize"}
MCRepair == {"stabilize", "fixFingers"}
MCAllTimers == {"stabilize", "fixFingers", "checkPredecessor"}
=============================================================================
