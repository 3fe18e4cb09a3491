-------------------- MODULE MCDevelopmentAuthentication --------------------
(* Small instance of DevelopmentAuthentication for TLC: three requests on  *)
(* one attempt, so that the limit is reached and passed by stale copies.   *)
EXTENDS DevelopmentAuthentication
=============================================================================
