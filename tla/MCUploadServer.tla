---------------------------- MODULE MCUploadServer ----------------------------
(* Instances of UploadServer for TLC; the .cfg files give the constants.      *)
EXTENDS UploadServer, TLC

Symmetry == Permutations(Handlers)

\* A .cfg file has no way to write a negative number.
SizesWithNegative == {-1, 0, 3}
=============================================================================
