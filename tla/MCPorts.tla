------------------------------- MODULE MCPorts -------------------------------
(* Port writes for TLC: ports taken down and up over SSH and SNMP, VLAN edits *)
(* over SNMP.                                                                 *)
EXTENDS PortWrites, TLC

LinksAndVlans == {<<"ssh", {"admin", "cycle"}>>, <<"aruba", {"admin", "cycle"}>>, <<"aruba", {"config"}>>,
                  <<"ssh", {"config"}>>}
Lists == {{}, {20}}
=============================================================================
