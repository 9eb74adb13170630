----------------------------- MODULE MCWifiAdapter -----------------------------
(* The event ring of an adapter, through the adapter's whole life. *)
EXTENDS WifiAdapter
=============================================================================
