----------------------------- MODULE MCDatabase -----------------------------
(***************************************************************************)
(* DatabaseServer for TLC.                                                 *)
(***************************************************************************)
EXTENDS DatabaseServer

\* A registration, a write that looks the trial up, and two that do not.
SomeOperations == {"createTrial", "addChannel", "classify", "createSnapshot"}
=============================================================================
