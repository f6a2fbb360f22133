------------------------------- MODULE People -------------------------------
(***************************************************************************)
(* The users, whom Chat and Notifications have in common.                  *)
(***************************************************************************)
CONSTANTS
  Users,
  None            \* no user, no socket, no job

=============================================================================
