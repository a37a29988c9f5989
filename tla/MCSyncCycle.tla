---------------------------- MODULE MCSyncCycle ----------------------------
EXTENDS SyncCycle, TLC

OnePath == {1}
TwoPaths == {1, 2}

\* Size limits of the two folders.
Uniform(n) == [d \in Device |-> n]
RoomForOne == {Uniform(1)}
RoomForTwo == {Uniform(2)}
RoomForOneOrTwo == {Uniform(1), Uniform(2)}

\* Versions of a file are interchangeable.
VersionSymmetry == Permutations(Content)

\* Devices are, too, where both run agents and have the same limits, and so are
\* the tasks of their servers.
OverlapSymmetry ==
  {d @@ c @@ s : d \in Permutations(Device), c \in Permutations(Content), s \in Permutations(Slot)}

\* The second path competes for space; one version of it will do.
OneVersionOfSecond == Cardinality({v \in versions : v[1] = 2}) <= 1
=============================================================================
