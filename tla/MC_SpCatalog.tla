---------------------------- MODULE MC_SpCatalog ----------------------------
(* Instantiation of SpCatalog for TLC.  Three of the built-ins, so that   *)
(* the install loop meets procedures with none, one and two arguments and *)
(* goes on past a failure; a user procedure with an INTEGER and a result- *)
(* set OUT argument, and one with a result-set IN argument, which the     *)
(* type check rejects; one code row; six calls in all, so that a user    *)
(* procedure can be added twice (the second time as a duplicate).  The    *)
(* same file's sp_split_target_signature is checked on every target of up *)
(* to seven characters over a letter, the space, "." and "(".             *)
EXTENDS SpCatalog, SpSignature, TLC

MCUserProcs == {"p1", "p2"}
MCUserArgs ==
  [p1 |-> << <<"INTEGER", "IN">>, <<"RESULTSET", "OUT">> >>,
   p2 |-> << <<"RESULTSET", "IN">> >>]
MCCodeIds == {"c1"}
MCMaxCalls == 6
MCBuiltinOrder == <<"disable", "enable", "get_line">>
MCAlphabet == {"a", " ", ".", "("}
MCMaxLen == 7

(* sp_split_target_signature returns, in every state of the catalog, the  *)
(* class and method parts of the target's unique decomposition (the last  *)
(* "(" starts the argument list, the spaces before it are dropped, and a  *)
(* target without a "(" or a "." before it yields two empty parts), for   *)
(* every target of up to MCMaxLen characters.  The quantified part is a   *)
(* constant, which TLC evaluates once.                                     *)
SplitMatchesReference == pc \in Steps => SplitAgrees

=============================================================================
