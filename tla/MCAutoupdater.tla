---------------------------- MODULE MCAutoupdater -----------------------------
(* Small instances of Autoupdater for TLC.                                 *)
EXTENDS Autoupdater, TLC

CONSTANTS small, large   \* two images: one chunk, two chunks

MCImageSize == (small :> 1) @@ (large :> 2)
MCVersion   == (small :> 2) @@ (large :> 3)

Good(img) == [signatures |-> 2, complete |-> TRUE, branch_ok |-> TRUE,
              model_ok |-> TRUE, image |-> img]

\* Both images signed well, and one manifest for each test it can fail.
MCManifests ==
  {Good(small), Good(large),
   [Good(large) EXCEPT !.signatures = 1], [Good(large) EXCEPT !.complete = FALSE],
   [Good(large) EXCEPT !.branch_ok = FALSE], [Good(small) EXCEPT !.model_ok = FALSE]}

Plain == [force |-> FALSE, no_action |-> FALSE, force_version |-> FALSE,
          external |-> FALSE]

\* What Plain may do, the options below may do, too, one or the other.
MCOptions == {[Plain EXCEPT !.force = TRUE, !.external = TRUE],
              [Plain EXCEPT !.no_action = TRUE],
              [Plain EXCEPT !.force_version = TRUE]}

TrialOptions == {Plain, [Plain EXCEPT !.no_action = TRUE]}

\* A neighbour without release, one that is older, one that is newer.
MCNeighbourLists == {<<>>, <<Null, 1, 3>>}

Symmetry == Permutations(Proc)
===============================================================================
