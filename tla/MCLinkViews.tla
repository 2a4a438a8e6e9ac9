---------------------------- MODULE MCLinkViews ----------------------------
(***************************************************************************)
(* Four interfaces, two of which may be VPNs; buffers that hold fewer      *)
(* messages, lines or entries than there are interfaces.                   *)
(***************************************************************************)
EXTENDS LinkViews

MCLinks == <<"lo", "tun", "wlan", "ppp">>
MCTunnels == {"tun", "ppp"}
MCFiles == { << <<"lo">>, <<"tun">>, <<"wlan">>, <<"ppp">> >>,
             << <<"tun">>, <<"tun">>, <<"wlan">> >>,
             << <<"tun", "wlan">>, <<"lo", "ppp", "wlan">> >> }
MCTraffic == [lo |-> 1, tun |-> 2, wlan |-> 4, ppp |-> 8]
MCCovers == {"none", "wlan"}
=============================================================================
