---------------------------- MODULE MCBridgeState ----------------------------
(* Instances of BridgeState for TLC: the two explorers of the publisher.   *)
EXTENDS BridgeState

MCExplorers == {"etherscan", "blockscout"}
=============================================================================
