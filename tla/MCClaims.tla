------------------------------ MODULE MCClaims ------------------------------
(* The claims of competing requests on small instances, in two parts that    *)
(* are checked side by side: the claims on a reservation and an OIDC config  *)
(* (Claims) and the claim on a Spot termination queue (SpotQueues).  The     *)
(* variable part says which one a behaviour is about; the other keeps its    *)
(* initial state.                                                            *)
EXTENDS Claims, SpotQueues, TLC

VARIABLE part

\* All requests refer to the same two resources.
Rivals == {[q \in Requests |-> Kinds]}

ClaimsInit == part \in {"claims", "spot"} /\ Init /\ SpotInit

ClaimsNext == /\ UNCHANGED part
              /\ \/ part = "claims" /\ Next /\ UNCHANGED spotVars
                 \/ part = "spot" /\ SpotNext /\ UNCHANGED vars

ClaimsSpec == ClaimsInit /\ [][ClaimsNext]_<<part, vars, spotVars>>

\* Requests are interchangeable, and so are the Clusters of SpotQueues.
Interchangeable == Permutations(Requests) \cup Permutations(Clusters) \cup Permutations(Callers)
=============================================================================
