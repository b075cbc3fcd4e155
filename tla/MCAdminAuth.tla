----------------------------- MODULE MCAdminAuth -----------------------------
(* The model-checking run of AdminAuth. *)
EXTENDS AdminAuth, TLC

CONSTANTS t1, t2, a1, a2, n1, n2

\* Tokens, addresses and names are interchangeable.
AuthSymmetry ==
    Permutations({t1, t2}) \cup Permutations({a1, a2}) \cup Permutations({n1, n2})
=============================================================================
