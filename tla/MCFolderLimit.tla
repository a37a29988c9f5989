--------------------------- MODULE MCFolderLimit ---------------------------
EXTENDS FolderLimit

\* Words of eight bits, limits at both ends and between, thresholds at and
\* beyond the bounds of FolderSizeLimit::new.
SomeLimits == {0, 1, 3, 250, 255}
SomePercents == {0, 1, 80, 100, 101}
SomeSizes == {0, 1, 2, 254, 255}
TwoTimes == {1, 2}
=============================================================================
