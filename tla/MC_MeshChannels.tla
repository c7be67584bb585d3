-------------------------- MODULE MC_MeshChannels --------------------------
(***************************************************************************)
(* One party and two peers.                                                *)
(***************************************************************************)
EXTENDS MeshChannels

Of(q, n) == [peer |-> q, count |-> n]

\* Requests that alternate between peers, that are uneven, and that name a
\* party without a channel.
MixedReceives == {<<Of(1, 1), Of(2, 1), Of(1, 1)>>, <<Of(2, 2), Of(1, 1)>>, <<Of(0, 1), Of(1, 1)>>}
MixedSends == {<<1, 2, 1>>, <<2>>, <<1, 0, 2>>}
=============================================================================
