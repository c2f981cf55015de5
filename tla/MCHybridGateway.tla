--------------------------- MODULE MCHybridGateway ---------------------------
(***************************************************************************)
(* Instances of GatewayInvariant for TLC. Callback threads, MAC addresses and *)
(* SPI handles are only compared, so permuting them is a symmetry; it is    *)
(* used in the runs that check no liveness property.                        *)
(***************************************************************************)
EXTENDS GatewayInvariant, TLC

Symmetry == Permutations(Callbacks) \cup Permutations(Macs)
            \cup Permutations(Handles)
=============================================================================
