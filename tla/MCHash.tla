------------------------------- MODULE MCHash -------------------------------
(***************************************************************************)
(* The hash server for TLC: three clients with different files, of which   *)
(* one may run out of bytes and one asks for nothing, and a salt longer    *)
(* than what is used of it.                                                *)
(***************************************************************************)
EXTENDS HashServer, TLC

CONSTANTS c1, c2, c3

MChashnum == (c1 :> 2) @@ (c2 :> 2) @@ (c3 :> 0)
MCSize    == (c1 :> {2, 4, 5}) @@ (c2 :> {3}) @@ (c3 :> {1})
MCFile    == (c1 :> <<11, 12, 13, 14, 15, 16, 17, 18, 19>>)
               @@ (c2 :> <<21, 22, 23, 24, 25, 26>>) @@ (c3 :> << >>)
MCSalt    == <<-1, -2, -3>>
MCBehind  == << >>
=============================================================================
