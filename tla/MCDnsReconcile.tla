--------------------------- MODULE MCDnsReconcile ---------------------------
(***************************************************************************)
(* Three NetBox rows: two names on the lab host (the lower one is also the *)
(* built-in LABPROVIDER_FQDN, so the desired list holds it twice) and one  *)
(* on another address; and two built-in names, of which every              *)
(* configuration publishes the first.                                      *)
(***************************************************************************)
EXTENDS DnsReconcile
MCAddrOf == [i \in Row |-> IF i = 3 THEN 2 ELSE 1]
MCNameOf == [i \in Row |-> IF i = 2 THEN 2 ELSE 1]
=============================================================================
