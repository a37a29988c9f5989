---------------------------- MODULE MCFolderScan ----------------------------
EXTENDS FolderScan, TLC

TwoPaths == {1, 2}

\* Versions of a file are interchangeable.
VersionSymmetry == Permutations(Content)
=============================================================================
