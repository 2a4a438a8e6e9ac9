-------------------------- MODULE MCNetworkPublish --------------------------
(***************************************************************************)
(* A cellular uplink, a VPN, a dummy device and a Wi-Fi interface that a   *)
(* configured prefix may come to match.  With room for one VPN the list is *)
(* full when both match.                                                   *)
(***************************************************************************)
EXTENDS NetworkPublish

Shape(up, v4, v6, ll) == [up |-> up, v4 |-> v4, v6 |-> v6, ll |-> ll]

MCOrder == <<"cell", "tun", "dummy", "wlan">>
MCFamily == [i \in {"cell", "tun", "dummy", "wlan"} |->
               IF i = "tun" THEN "other" ELSE i]
MCNamed == {"tun"}
MCTunnel == {"tun", "cell"}
MCPrefixable == {"wlan"}
MCShapes == [i \in {"cell", "tun", "dummy", "wlan"} |->
               CASE i = "cell" -> {Shape(TRUE, 1, 1, 1), Shape(TRUE, 0, 1, 1)}
                 [] i = "tun" -> {Shape(TRUE, 1, 0, 0)}
                 [] i = "dummy" -> {Shape(TRUE, 1, 1, 1)}
                 [] i = "wlan" -> {Shape(FALSE, 0, 0, 0), Shape(TRUE, 1, 0, 0),
                                   Shape(TRUE, 0, 2, 0)}]
=============================================================================
