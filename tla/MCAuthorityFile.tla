--------------------------- MODULE MCAuthorityFile ---------------------------
(* Three writers of two contents over one name; enough inodes for every      *)
(* writer, a published file, a leftover and a foreign file.                  *)
EXTENDS AuthorityFile, TLC

Symmetry == Permutations(Writers) \cup Permutations(Contents) \cup Permutations(Inodes)
==============================================================================
