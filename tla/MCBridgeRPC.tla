----------------------------- MODULE MCBridgeRPC -----------------------------
(* Three endpoints with a URL and one without, two slots: probes wait for  *)
(* a slot while others are under way.                                      *)
EXTENDS BridgeRPC

MCHasURL == {1, 2, 4}
=============================================================================
