------------------------------- MODULE MCInbox -------------------------------
(* An instance of Inbox and Notices for TLC. *)
EXTENDS Notices
CONSTANTS a, b, x, y, p, q, s, h1, g1, g2

Post(channel, content) ==
    [key |-> None, channel |-> channel, content |-> content, reply |-> 0]
Arrivals == {Post(a, y), Post(b, x)}
Sizes == [m \in Contents |-> IF m = y THEN 2 ELSE 1]
ReadsOfP == [agent \in Agents |-> IF agent = p THEN {2} ELSE {}]

\* The reader and the hooks meet only in the cursors, which q moves as well:
\* they are explored one beside q, and the other beside q.
OneBesideQ == runs = 0 \/ (task[p] = Idle /\ shown[p] = {})

Symmetry == Permutations({g1, g2})
Nobody == [l \in {} |-> {}]
=============================================================================
