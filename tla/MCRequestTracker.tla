--------------------------- MODULE MCRequestTracker ---------------------------
(* Model-checking instances of RequestTracker. *)
EXTENDS RequestTracker, TLC

Perms ==
    Permutations(FirstCallers) \cup Permutations(Handlers \ FirstCallers)
        \cup Permutations(ReqIDs) \cup Permutations(Fps)
=============================================================================
