---------------------------- MODULE MCLiveUpdates ----------------------------
EXTENDS LiveUpdates, TLC
===============================================================================
