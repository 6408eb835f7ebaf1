--------------------------- MODULE MC_AddressLedger ---------------------------
EXTENDS AddressLedger, MC_AddressData

MCNoFailures == {}

=============================================================================
