-------------------------- MODULE MCExperienceStore --------------------------
(* Small instances of ExperienceStore.                                      *)
EXTENDS ExperienceStore, TLC

CONSTANTS t1, t2, f1, f2, p1, p2

Interchangeable ==
    Permutations({t1, t2}) \union Permutations({f1, f2}) \union Permutations({p1, p2})

=============================================================================
