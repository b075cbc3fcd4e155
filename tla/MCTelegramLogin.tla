-------------------------- MODULE MCTelegramLogin --------------------------
(* The model-checking runs of TelegramRuntime, and of its TelegramLogin. *)
EXTENDS TelegramRuntime, TLC

CONSTANTS c1, c2, s1, s2, s3

\* Client objects are interchangeable, and so are services.
ObjectSymmetry == Permutations({c1, c2}) \cup Permutations({s1, s2, s3})
=============================================================================
