------------------------- MODULE MCFederationClient -------------------------
EXTENDS FederationClient
=============================================================================
