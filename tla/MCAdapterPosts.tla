---------------------------- MODULE MCAdapterPosts ----------------------------
(* An instance of AdapterPosts for TLC. *)
EXTENDS AdapterPosts

CONSTANTS a, k, x, y, c1, c2, c3

Post(key, channel, content, reply) ==
    [key |-> key, channel |-> channel, content |-> content, reply |-> reply]

\* One post called by one adapter and again by the other, and a reply to it
\* under the same client_id, which is refused for its parent or for its key.
Call == [c \in Calls |-> IF c = c3 THEN Post(k, a, y, 1) ELSE Post(k, a, x, 0)]
CalledPosts == {Call[c] : c \in Calls}
Adapters == [c \in Calls |-> IF c = c2 THEN "codex" ELSE "claude"]
Nobody == [l \in {} |-> {}]
=============================================================================
