------------------------------- MODULE ChordId -------------------------------
(***************************************************************************)
(* The identifier arithmetic of assignment4/chord.c and the searches over  *)
(* a node's tables that are built on it.  An identifier is a 20-byte       *)
(* big-endian number; here it is a natural number, and compareHashes is    *)
(* the order of the naturals.  A struct Node is known by its identifier    *)
(* (address and port go with it); a zeroed struct is Empty.                *)
(***************************************************************************)
EXTENDS Integers

\* A zeroed struct Node.  Its identifier reads as 0 where the code does not
\* test for emptiness before it compares identifiers.
Empty == 0

\* between(btw, h1, h2): the open interval from h1 clockwise to h2.  When
\* h1 = h2 it is every identifier but h1.
Between(x, a, b) == IF a < b THEN a < x /\ x < b
                             ELSE x > a \/ x < b

(***************************************************************************)
(* closetPrecedingNode.  The code returns a pointer into one of the        *)
(* tables, and clearNode is later given that very pointer, so the place    *)
(* matters as well as the node in it.                                      *)
(***************************************************************************)
Self == [table |-> "self", at |-> 0]
InList(i)   == [table |-> "list", at |-> i]
InFinger(i) == [table |-> "finger", at |-> i]

\* Mutant: takes any node, wherever it lies.
Hits_Anywhere(table, self, id) == {i \in DOMAIN table : table[i] # Empty /\ table[i] # self}

\* The slots of a table whose node lies strictly between self and id.
Hits(table, self, id) ==
  {i \in DOMAIN table : table[i] # Empty /\ Between(table[i], self, id)}

\* i is the highest index of S: both searches run downwards and stop at
\* their first match.
Highest(i, S) == i \in S /\ \A j \in S : j <= i

\* The node a place points at.
At(place, self, list, finger) ==
  CASE place.table = "list"   -> list[place.at]
    [] place.table = "finger" -> finger[place.at]
    [] OTHER                  -> self

\* place is what closetPrecedingNode(id) points at: the match in the
\* successor list, unless the match in the finger table lies beyond it.
IsClosestPreceding(place, self, id, list, finger) ==
  LET L == Hits(list, self, id)
      F == Hits(finger, self, id)
      FingerWins == \E i \in L, k \in F :
                      /\ Highest(i, L) /\ Highest(k, F)
                      /\ Between(finger[k], list[i], id)
  IN \/ /\ L = {} /\ F = {}
        /\ place = Self
     \/ /\ L # {} /\ ~FingerWins
        /\ \E i \in L : Highest(i, L) /\ place = InList(i)
     \/ /\ F # {} /\ (L = {} \/ FingerWins)
        /\ \E k \in F : Highest(k, F) /\ place = InFinger(k)

(***************************************************************************)
(* clearNode(successorList, r, fingerTable, succ, nodeToClear), with       *)
(* nodeToClear = &table[place.at].  When the loop reaches that very slot   *)
(* it zeroes *nodeToClear as well, and every later comparison is with the  *)
(* zeroed node: copies further on survive.  The finger loop stops one      *)
(* short of the last finger (i < 160).                                     *)
(***************************************************************************)
ClearList(list, dead, place) ==
  [i \in DOMAIN list |->
     IF list[i] = dead /\ (place.table = "list" => i <= place.at)
     THEN Empty ELSE list[i]]

\* Mutant: leaves the finger table alone.
ClearFinger_Nothing(finger, dead, place, last) == finger

ClearFinger(finger, dead, place, last) ==
  [k \in DOMAIN finger |->
     IF /\ finger[k] = dead /\ k < last
        /\ place.table # "list"
        /\ place.table = "finger" => k <= place.at
     THEN Empty ELSE finger[k]]

(***************************************************************************)
(* addHashToPowerOfTwo(input, res, power): digit-wise addition, lowest     *)
(* digit first.  The code's base is 255 where a byte counts to 255: a      *)
(* digit that reaches 255 is already carried.  res[i] is a uint8_t, so the *)
(* sum is stored modulo 256.  Base is the number of values of a digit (256 *)
(* in the code), digits the number of digits (20), bits those of a digit   *)
(* (8).                                                                    *)
(***************************************************************************)
Digit(x, i, base) == (x \div base^i) % base

\* The carry base of the code: pow(2, 8) - 1.
CarryBase(base) == base - 1

\* Mutant: the carry is not added to the next digit.
AddHashToPowerOfTwo_NoCarry(x, power, bits, digits) ==
  LET base == 2^bits
      B(i) == IF i = power \div bits THEN 2^(power % bits) ELSE 0
      carry[i \in 0..digits] ==
        IF i = 0 THEN 0
        ELSE IF Digit(x, i-1, base) + B(i-1) + carry[i-1] >= CarryBase(base)
             THEN 1 ELSE 0
      res(i) == (Digit(x, i, base) + B(i)
                   - carry[i+1] * CarryBase(base)) % base
      value[i \in 0..digits] ==
        IF i = 0 THEN 0 ELSE value[i-1] + res(i-1) * base^(i-1)
  IN value[digits]

AddHashToPowerOfTwo(x, power, bits, digits) ==
  LET base == 2^bits
      B(i) == IF i = power \div bits THEN 2^(power % bits) ELSE 0
      carry[i \in 0..digits] ==
        IF i = 0 THEN 0
        ELSE IF Digit(x, i-1, base) + B(i-1) + carry[i-1] >= CarryBase(base)
             THEN 1 ELSE 0
      res(i) == (Digit(x, i, base) + B(i) + carry[i]
                   - carry[i+1] * CarryBase(base)) % base
      value[i \in 0..digits] ==
        IF i = 0 THEN 0 ELSE value[i-1] + res(i-1) * base^(i-1)
  IN value[digits]

-----------------------------------------------------------------------------
\* The place of a finger as far as the addition can be trusted.  With the base
\* one too small a carry comes too early and leaves one too much behind.  Still
\* no start falls before its place, x + 2^power, or more than one unit of every
\* digit behind it; and it is in its place whenever the addition needs no carry
\* and no digit is at the highest value.
StartsNear(start, x, power, bits, digits) ==
  LET base  == 2^bits
      size  == base^digits
      right == (x + 2^power) % size
      ahead == (start - right) % size
  IN  /\ ahead <= (size - 1) \div (base - 1)
      /\ (\A i \in 0..digits-1 :
            /\ Digit(x, i, base) <= Digit(right, i, base)
            /\ Digit(right, i, base) < CarryBase(base))
                   => ahead = 0
=============================================================================
