--------------------------- MODULE MCAssetUpload ---------------------------
EXTENDS AssetUpload, TLC

CONSTANTS a1, a2, a3, b1

\* Two achievements share an image, the third has none.
Images == (a1 :> b1) @@ (a2 :> b1) @@ (a3 :> NoBadge)
=============================================================================
