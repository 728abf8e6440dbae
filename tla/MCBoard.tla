------------------------------- MODULE MCBoard -------------------------------
(***************************************************************************)
(* Instances of Board for TLC.                                             *)
(***************************************************************************)
EXTENDS Board

CONSTANTS a, b, k, x, l1, s

Post(key, channel, content, reply) ==
    [key |-> key, channel |-> channel, content |-> content, reply |-> reply]

\* Two channels; a post repeated under a client_id and one without it, of which
\* every copy is stored.
WatchPosts == {Post(k, a, x, 0), Post(None, b, x, 0)}

OneSeat == [l \in Listeners |-> s]
AllChannels == [l \in Listeners |-> Channels]

=============================================================================
