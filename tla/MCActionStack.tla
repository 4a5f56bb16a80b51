--------------------------- MODULE MCActionStack ----------------------------
EXTENDS ActionStack
=============================================================================
