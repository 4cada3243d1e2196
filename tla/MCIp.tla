-------------------------------- MODULE MCIp --------------------------------
(***************************************************************************)
(* Two hosts on a LAN.  Of the four bits of an address the upper two are   *)
(* the network: 0 for the loopback devices, 8 for the LAN.                 *)
(***************************************************************************)
EXTENDS Ip

HostDef == {1, 2}
UnicastDef(h, dev) == IF dev = "lo" THEN 1 ELSE 8 + h
NetmaskDef(dev) == 12
StaticDef == {<<8, 12, 10>>}
DstDef == {1, 9, 10, 11, 13, 15}
=============================================================================
