--------------------- MODULE MCAuthenticationExperience ---------------------
(* One tab with a reload, two calls in flight and two sessions.              *)
EXTENDS AuthenticationExperience
=============================================================================
