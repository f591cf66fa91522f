-------------------------- MODULE MCWifiProvision ---------------------------
(* Two networks: the one the board is on and the one it is told to go to.  *)
EXTENDS WifiProvision

MCNetworks == {"home", "office"}
=============================================================================
