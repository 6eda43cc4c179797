---------------------------- MODULE MCOauthLogin ----------------------------
(***************************************************************************)
(* An instance of OauthLogin with three callbacks: one more than the channel   *)
(* and Login together can take.                                                 *)
(***************************************************************************)
EXTENDS OauthLogin

ThreeVisits == {"browser", "reload", "stranger"}

=============================================================================
