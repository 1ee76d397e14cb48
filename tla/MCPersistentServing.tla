------------------------ MODULE MCPersistentServing ------------------------
(***************************************************************************)
(* A small instance of PersistentServing: a short and a long history, and  *)
(* quotas chosen so that a byte shortage and a page shortage both occur,   *)
(* sometimes one without the other, and one request is impossible.         *)
(***************************************************************************)
EXTENDS PersistentServing, TLC

CONSTANTS short, long

MCHistory == {short, long}

MCHistoryTokens == short :> 1 @@ long :> 4
=============================================================================
