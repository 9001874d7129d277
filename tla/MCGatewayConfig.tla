---------------------------- MODULE MCGatewayConfig ----------------------------
(* The store from a file written by hand and from none.                    *)
EXTENDS GatewayConfig, MCConfigFiles, TLC

MCFiles == {HandWritten, EmptyFile}

Interchangeable == Permutations(Admins) \union Permutations(Savers)
=============================================================================
