----------------------------- MODULE MCIpConfig -----------------------------
(* Instances of IpConfig for TLC: which interfaces, with which protocols.    *)
EXTENDS IpConfig, TLC

CONSTANTS eth0, eth1

OneInterface  == <<eth0>>
TwoInterfaces == <<eth0, eth1>>

Without        == {-1}
WithAndWithout == {-1, 5}
Three          == {3}

OneDhcp == (eth0 :> {"BOOTP", "DHCP"})
DhcpAndBootp == (eth0 :> {"BOOTP", "DHCP"} @@ eth1 :> {"BOOTP"})
TwoDhcp == (eth0 :> {"BOOTP", "DHCP"} @@ eth1 :> {"BOOTP", "DHCP"})
=============================================================================
