---------------------------- MODULE MCUserHome -----------------------------
EXTENDS UserHome
=============================================================================
