------------------------------ MODULE MCRouter ------------------------------
(***************************************************************************)
(* Configurations of the routers for TLC.                                  *)
(***************************************************************************)
EXTENDS Router

Est(n, m, c)  == [ev |-> "establish", link |-> {n, m}, cost |-> c]
Upd(n, m, c)  == [ev |-> "update", link |-> {n, m}, cost |-> c]
Tear(n, m)    == [ev |-> "tear", link |-> {n, m}, cost |-> 1]

\* A triangle with one link too costly for Byte; later one router is cut off.
MCCut == << {Est(1, 2, 2), Est(2, 3, 1), Est(1, 3, 5)}, {Tear(2, 3), Tear(1, 3)} >>

\* Three routers, to which one more link comes while another gets cheaper.
MCGrows == << {Est(1, 2, 3), Est(2, 3, 1)}, {Upd(1, 2, 2), Est(1, 3, 2)} >>
=============================================================================
