--------------------------- MODULE MCCertificates ---------------------------
EXTENDS Certificates

CONSTANTS dash, shop
=============================================================================
