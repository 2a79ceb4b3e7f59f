------------------------- MODULE MCDNSReservations -------------------------
(* DNSReservations on a small instance: a namespace that two pods own during *)
(* a rollout, and one that stays with its pod.                               *)
EXTENDS DNSReservations, TLC

CONSTANTS a, b

MCOwners == (a :> {1, 2}) @@ (b :> {1})
=============================================================================
