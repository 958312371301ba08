----------------------------- MODULE MCAssetStore -----------------------------
(* Instances of AssetStore for TLC.                                        *)
EXTENDS AssetStore
=============================================================================
