--------------------------- MODULE MCDeviceTracker ---------------------------
(* A small instance of DeviceTracker for TLC. *)
EXTENDS DeviceTracker

CONSTANTS m1, i1, n1, v1

MCVendor == [m \in Macs |-> v1]
MCArpTables == {<<>>, <<[ip |-> i1, mac |-> m1]>>}
MCDhcpRequests == {[mac |-> m1, ip |-> i1, host |-> n1]}
=============================================================================
