--------------------------- MODULE MCMasternodeSync ---------------------------
(* One or two peers that come and go; one is too old for masternode data.  *)
EXTENDS MasternodeSync

CONSTANTS p1, p2

MCPeers  == {p1, p2}
MCNewer  == {p1}
=============================================================================
