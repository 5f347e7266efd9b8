--------------------------- MODULE MCPcieResource ---------------------------
(* PcieResource with the constants of the pcie_*.cfg files.                 *)
EXTENDS PcieResource
=============================================================================
