---------------------------- MODULE MCDurableJobs ----------------------------
(* Model-checking instances of DurableJobs. *)
EXTENDS DurableJobs, TLC

Perms ==
    Permutations(Slots) \cup Permutations(Handlers)
        \cup Permutations(ReqIDs) \cup Permutations(Fps)

(* Reports that the completion callback cannot carry: none, every result,   *)
(* or the result and the error of one content.                              *)
NoneLarge == {}
ResultsLarge == Fps \X {TRUE}
OneLarge == {CHOOSE f \in Fps : TRUE} \X BOOLEAN
=============================================================================
