---------------------------- MODULE MCTisHandler ----------------------------
(* Small instances of TisHandler for TLC. *)
EXTENDS TisHandler, TLC

Package(content, game_id, type, n) ==
  [content |-> content, game_id |-> game_id, type |-> type, userid |-> n,
   userid_string |-> content, home_id |-> n + 10, role_grade |-> n + 20,
   vip_grade |-> n + 30, nick |-> content]

MCPackages == {Package("a", 1, 0, 1), Package("b", 5, 0, 2), Package("c", 5, 4, 3)}
MCVerdicts ==
  {Return([CheckResultStruct EXCEPT !.action = 0, !.label = 7]),
   Return([CheckResultStruct EXCEPT !.action = 1, !.level = 8]),
   Return([CheckResultStruct EXCEPT !.code = 9]), Throw("what")}

Symmetry == Permutations(Threads) \cup Permutations(TisConns)
=============================================================================
