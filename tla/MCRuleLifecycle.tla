-------------------------- MODULE MCRuleLifecycle --------------------------
(* TLC instance of RuleLifecycle. *)
EXTENDS RuleLifecycle, TLC

\* Ids, titles, definitions, users and slots are interchangeable
LifecycleSymmetry ==
    Permutations(Rules) \cup Permutations(Titles) \cup Permutations(Texts)
        \cup Permutations(Users) \cup Permutations(Slots)

=============================================================================
