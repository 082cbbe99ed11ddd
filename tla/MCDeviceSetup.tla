---------------------------- MODULE MCDeviceSetup ----------------------------
(***************************************************************************)
(* A PQSC with an HDAWG, on which a UHFQA depends, and an SHF; and an      *)
(* HDAWG and an SHF without a leader, with external references.            *)
(***************************************************************************)
EXTENDS DeviceSetup

CONSTANTS pq, hd, uh, sq, server, other

MCChildren == [d \in Devices |-> CASE d = pq -> <<hd, sq>> [] d = hd -> <<uh>>
                                    [] OTHER -> << >>]
MCForceInternal == [d \in Devices |-> "default"]
MCServerOf == [d \in Devices |-> IF d = hd THEN other ELSE server]
MCNoChildren == [d \in Devices |-> << >>]
MCForceExternal == [d \in Devices |-> "no"]
MCOrder == <<pq, hd, uh, sq>>
MCAloneOrder == <<hd, sq>>
==============================================================================
