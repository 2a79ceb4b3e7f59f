---------------------------- MODULE MCManifests ----------------------------
(* Manifests on a small instance. *)
EXTENDS Manifests, TLC

CONSTANTS p, q

\* A watched and an unwatched resource, without the first, or with its watch
\* flag cleared.
MCInputs == {(p :> "watch" @@ q :> "plain"), (p :> "no" @@ q :> "plain"),
             (p :> "plain" @@ q :> "plain")}
=============================================================================
