------------------------ MODULE MCSessionTranscript ------------------------
EXTENDS SessionTranscript, TLC
=============================================================================
