--------------------------- MODULE MCCardCache ---------------------------
EXTENDS CardCache
=============================================================================
