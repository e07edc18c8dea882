----------------------------- MODULE MCPeerRing -----------------------------
(***************************************************************************)
(* Two pods whose addresses move between two EndpointSlices, one of which  *)
(* may be of the other address family.                                     *)
(***************************************************************************)
EXTENDS PeerRing

CONSTANTS ip1, ip2, key, t1, t2, s1, s2

MCIPs == {ip1, ip2}
MCKeys == {key}
MCCallers == {t1, t2}
MCSlices == {s1, s2}

MCLocate ==
  [S \in (SUBSET IPs) \ {{}} |-> [name \in Keys |-> IF ip2 \in S THEN ip2 ELSE ip1]]

\* A slice of the other family adds nothing to the ring, and so also stands for
\* one that is deleted.
MCContents ==
  { [family |-> "IPv4", up |-> {ip1}, down |-> {}],
    [family |-> "IPv4", up |-> {ip2}, down |-> {ip1}],
    [family |-> "IPv6", up |-> {ip2}, down |-> {}] }

=============================================================================
