--------------------------- MODULE MCD1Lifecycle ----------------------------
EXTENDS D1Lifecycle
=============================================================================
