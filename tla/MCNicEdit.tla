------------------------------- MODULE MCNicEdit -------------------------------
(* An instance of NicEdit for TLC.                                         *)
EXTENDS NicEdit, TLC

CONSTANTS n1, n2, s1, s2, a1, a2, g1, g2, dns

TwoSessions == Permutations({s1, s2})

Plain == [dhcp |-> FALSE, ip |-> a1, gateway |-> g1, dnsAuto |-> FALSE, dns |-> g1,
          ipv6On |-> FALSE, ipv6 |-> None, secondOn |-> FALSE]

\* DNS at the gateway, at a server, named by DHCP; IPv6 derived, own and off.
Configurations == {
    [Plain EXCEPT !.ipv6On = TRUE, !.ipv6 = a1],
    [Plain EXCEPT !.dns = dns, !.ipv6On = TRUE, !.ipv6 = Native],
    [Plain EXCEPT !.dhcp = TRUE, !.dnsAuto = TRUE, !.dns = dns]}

Static(n, a, g) == [mac |-> n, dhcp |-> FALSE, ip |-> a, gateway |-> g]
Dynamic(n) == [mac |-> n, dhcp |-> TRUE, ip |-> a1, gateway |-> g1]

\* Both ways of addressing, the same NIC and different ones.
Edits == {Static(n1, a2, g2), Static(n1, a1, g2), Dynamic(n1), Static(n2, a2, g1)}
================================================================================
