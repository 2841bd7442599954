--------------------------- MODULE MCFolioLedger ---------------------------
(* Small instances of FolioLedger for TLC. *)
EXTENDS FolioLedger, TLC

Amounts12 == {1, 2}
Amounts1 == {1}
Openings0 == {0}
KeyAndDrawerSymmetry == Permutations(Keys) \cup Permutations(Sessions)
=============================================================================
