-------------------------- MODULE MCCertsrvListener --------------------------
(* Two savers, two clients, a table of two certificates. *)
EXTENDS CertsrvListener
CONSTANTS c1, c2, s1, s2
=============================================================================
