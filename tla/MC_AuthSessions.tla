-------------------------- MODULE MC_AuthSessions --------------------------
(***************************************************************************)
(* AuthSessions for TLC.  Requests and users are interchangeable model     *)
(* values, so the safety runs use their permutations as a symmetry set;    *)
(* the runs of temporal formulas do not.                                   *)
(***************************************************************************)
EXTENDS AuthSessions, TLC

Symmetry == Permutations(Requests) \union Permutations(Users)
=============================================================================
