---------------------------- MODULE MCGatewayRun ----------------------------
EXTENDS GatewayRun, TLC


=============================================================================
