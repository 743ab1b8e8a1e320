--------------------------- MODULE MCBlockDriver ---------------------------
(***************************************************************************)
(* Small instances of BlockDriver, with the tasks of MCDispatcher.         *)
(***************************************************************************)
EXTENDS MCDispatcher, BlockDriver
=============================================================================
