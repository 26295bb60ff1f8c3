--------------------------- MODULE MCParticipants ---------------------------
EXTENDS Participants

CONSTANTS u1, u2, n1, w1, w2

=============================================================================
