---------------------------- MODULE MCRouterHooks ----------------------------
(* Small instances of RouterHooks for TLC. *)
EXTENDS RouterHooks, TLC

Swap == Permutations(Routes) \cup Permutations(Hooks)

Spellings == {"/a", "/A"}
InLower == [p \in Spellings |-> "/a"]
=============================================================================
