---------------------------- MODULE MCRateLimit ----------------------------
(* Constants of the TLC runs of RateLimit: small limits and windows, the
   anonymous window the longer one, as in the settings. *)
EXTENDS RateLimit

Limits == [s \in Scopes |-> IF s = "user" THEN 2 ELSE 1]
Windows == [s \in Scopes |-> IF s = "anon" THEN 3 ELSE 2]
=============================================================================
