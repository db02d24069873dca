\* Two sessions, an administrator and a DHCP server at one recorder.
SPECIFICATION Spec
CONSTANTS
    n1 = n1
    n2 = n2
    s1 = s1
    s2 = s2
    a1 = a1
    a2 = a2
    g1 = g1
    g2 = g2
    dns = dns
    Nic = {n1, n2}
    Mac = {n1, n2}
    Address = {a1, a2}
    Gateway = {g1, g2}
    Server = {dns}
    Session = {s1, s2}
    MaxOutside = 1
    Jobs <- Edits
    Factory <- Configurations
    Native = Native
    None = None
    Nothing = Nothing
    Unread = Unread
SYMMETRY TwoSessions
INVARIANTS
    TypeOK
    DnsFollowsGateway
    NoForeignIpv6
    RetryChangesNothing
PROPERTIES
    IsNicChange
