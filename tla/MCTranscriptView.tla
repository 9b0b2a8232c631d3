---------------------------- MODULE MCTranscriptView ----------------------------
\* The constants are numbers and a set of numbers; the configurations give them.
EXTENDS TranscriptView, TLC
=============================================================================
