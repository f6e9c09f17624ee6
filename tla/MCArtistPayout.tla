--------------------------- MODULE MCArtistPayout ---------------------------
(* Finite instances of ArtistPayout.                                       *)
EXTENDS ArtistPayout, TLC

Symmetric == Permutations(Deposits) \cup Permutations(Sessions) \cup Permutations(Admins)

NoReopening == {"approved", "rejected", "done"}
Worths == {1, 3}
=============================================================================
