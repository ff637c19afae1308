-------------------------- MODULE MCWorkspaceTrust --------------------------
(* Instances of WorkspaceTrust for TLC.                                     *)
EXTENDS WorkspaceTrust, TLC

RootSymmetry == Permutations(Roots)
Symmetry == RootSymmetry \cup Permutations(Launches)

(* The list of revoked roots at a limit of two, over three names.           *)
Two == INSTANCE WorkspaceTrust WITH MaxRevoked <- 2
Names == {"a", "b", "c"}
RevokedLists == {l \in UNION {[1..n -> Names] : n \in 0..2} : IsInjective(l)}

(* Undoing an operation whose save failed puts the list back in its order:  *)
(* an insertion that moved a member or evicted the oldest, and a removal.   *)
ASSUME ListsAreRestored ==
    \A list \in RevokedLists, r \in Names :
        /\ Two!UndoInsert(Two!Inserted(list, r), list, r) = list
        /\ Two!Restored(Two!Without(list, r), list, r) = list
=============================================================================
