--------------------------- MODULE MCLteHandover ---------------------------
EXTENDS LteHandover

\* LeavingTimeout of cells 1 and 2: one like the default, and one as short as
\* the tests of handover failures set it.
MCLeavingTimeout == <<5, 0>>
=============================================================================
