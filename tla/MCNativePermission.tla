------------------------- MODULE MCNativePermission -------------------------
EXTENDS NativePermission

\* The second request cannot be declined.
MCUnoffered == {<<"r2", "deny">>}
=============================================================================
