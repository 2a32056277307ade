----------------------------- MODULE MCHttpPosts -----------------------------
EXTENDS HttpPosts

CONSTANTS r1, r2, n1, x, here, there

Tasks == {r1, n1, x}
\* The messages use the client here; x is a task of another process.
Clients == [t \in Tasks |-> IF t = x THEN there ELSE here]
NoTask == [t \in {} |-> here]
=============================================================================
