-------------------------- MODULE MCNearbyAuthority --------------------------
(* A desktop with two sockets, two pairing invitations and two credentials *)
(* to hand out; the second bad proof cancels an invitation.                *)
EXTENDS NearbyAuthority, TLC

Phones == Permutations(Connections) \cup Permutations(Tokens)
            \cup Permutations(Invitations)

=============================================================================
