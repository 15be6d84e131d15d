---------------------------- MODULE MCIpPasses ----------------------------
(* Instances of IpPasses for TLC. *)
EXTENDS IpPasses

CONSTANTS c1, c2, a1, a2, s1, s2

\* c1 comes from two addresses, one of which it shares with c2
Shared == {<<c1, a1>>, <<c1, a2>>, <<c2, a1>>}
Three == {<<s1, c1>>, <<s1, c2>>, <<s2, c1>>}
BothAtFirst == {<<s1, c1>>, <<s1, c2>>}
OneAddress == {<<c1, a1>>, <<c2, a1>>}
=============================================================================
