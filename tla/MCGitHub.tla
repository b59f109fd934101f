------------------------------ MODULE MCGitHub ------------------------------
(***************************************************************************)
(* A small instance of GitHub for TLC.                                     *)
(***************************************************************************)
EXTENDS GitHub, TLC

CONSTANTS Allowed, Refused

MCRequests == {<<"register", Allowed>>, <<"remove", Allowed>>, <<"register", Refused>>}

=============================================================================
