------------------------- MODULE MCAssetCheckpoint -------------------------
EXTENDS AssetCheckpoint, TLC
=============================================================================
