----------------------------- MODULE MCSessionLane -----------------------------
EXTENDS SessionLane
================================================================================
