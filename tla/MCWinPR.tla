------------------------------- MODULE MCWinPR -------------------------------
\* The objects of WinPR with a few threads, messages and rounds.
EXTENDS WinPRObjects
=============================================================================
