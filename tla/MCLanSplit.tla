----------------------------- MODULE MCLanSplit -----------------------------
(* A small instance of LanSplit: two ordinary interfaces, two that are     *)
(* forced to be LAN, one of them with addresses in lan_subnets, and one    *)
(* that is excluded.                                                       *)
EXTENDS LanSplit

CONSTANTS eth, wlan, tailscale, zt, docker
=============================================================================
