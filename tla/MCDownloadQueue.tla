--------------------------- MODULE MCDownloadQueue ---------------------------
(* Constants of the model-checking runs of DownloadQueue. *)
EXTENDS QueueRefinement, TLC

CONSTANTS w1, w2, r1, r2

\* Messages 1 and 2 are two forwards of one document, 3 is a photo (no
\* document, hence no unique id).
ForwardedTwice == 1 :> "doc" @@ 2 :> "doc" @@ 3 :> NoUid

\* Two different documents.
TwoFiles == 1 :> "a" @@ 2 :> "b"

\* Worker names (and request names) are interchangeable.
WorkerSymmetry == Permutations({w1, w2})
=============================================================================
