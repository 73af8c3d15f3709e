------------------------- MODULE MCProcessSupervisor -------------------------
(***************************************************************************)
(* Small instances of ProcessSupervisor.  With ShortBackoff a child can    *)
(* die both faster and more slowly than the window allows, and outlive the *)
(* last delay, which resets its failures.                                  *)
(***************************************************************************)
EXTENDS ProcessSupervisor

ShortBackoff == <<1, 2>>
=============================================================================
