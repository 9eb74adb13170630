---------------------------- MODULE MCWifiManager ----------------------------
EXTENDS WifiManager
=============================================================================
