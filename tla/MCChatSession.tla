--------------------------- MODULE MCChatSession ---------------------------
(* A small instance of ChatSession for TLC.                                 *)
EXTENDS ChatSession, TLC

CONSTANTS u1, u2, a1, a2

\* A chunk with two choices, one with a null content, and one that turns bad half-way.
MCChunks == {<<a1, a2>>, <<None>>, <<a2, Bad>>}
\* Responses with no choice, with a null one, with a bad one, and with a second choice.
MCReplies == {<<>>, <<None>>, <<Bad>>, <<a1, Bad>>}

\* The two users' texts are alike.
Symmetry == Permutations(Texts)
=============================================================================
