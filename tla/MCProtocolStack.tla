-------------------------- MODULE MCProtocolStack --------------------------
(* Two clients of the server, one that uses another protocol, and two that *)
(* dial one another.                                                       *)
EXTENDS ProtocolStack

MCClients == {"c1", "c2", "c3", "c4", "c5"}
MCDials == [c \in MCClients |-> CASE c = "c4" -> "c5" [] c = "c5" -> "c4" [] OTHER -> "s"]
MCProts == [c \in MCClients |-> IF c = "c3" THEN "other" ELSE "prot"]
MCPrograms == {"netcat_local_ether2", "netcat_local_ip4", "dns", "eap", "emp", "nsp"}
=============================================================================
