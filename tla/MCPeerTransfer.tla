--------------------------- MODULE MCPeerTransfer ---------------------------
EXTENDS PeerTransfer, TLC

CONSTANTS a1, a2, s1, s2

\* With chunks of two bytes: no byte, a chunk not full, a full one, one and a
\* half; two edits between chunks mix contents of the same size.
SomeContents == {<<>>, <<1>>, <<1, 2>>, <<1, 1, 1>>}

Symmetry == Permutations({a1, a2}) \cup Permutations({s1, s2})
=============================================================================
