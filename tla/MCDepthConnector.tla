-------------------------- MODULE MCDepthConnector --------------------------
EXTENDS DepthConnector
=============================================================================
