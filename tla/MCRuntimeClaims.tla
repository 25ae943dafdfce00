-------------------------- MODULE MCRuntimeClaims --------------------------
(* A creation and a destruction, two calls at once.                        *)
EXTENDS RuntimeClaims
=============================================================================
