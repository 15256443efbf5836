------------------------- MODULE MCResolutionRounds -------------------------
EXTENDS ResolutionRounds, TLC

=============================================================================
