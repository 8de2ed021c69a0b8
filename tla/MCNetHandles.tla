---------------------------- MODULE MCNetHandles ----------------------------
(***************************************************************************)
(* Instances of NetHandles for TLC.                                        *)
(***************************************************************************)
EXTENDS NetHandles

AllFaults == FaultNames

\* Failures after SSL_new only, a session that ends with a failed call of
\* mqtt_pub_task, and a PLC connection that ends with an exception.
LateFaults == {"handshake", "connack", "suback", "publish", "plctcp",
               "create", "plcexc"}
=============================================================================
