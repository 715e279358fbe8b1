--------------------------- MODULE MCCsrApproval ---------------------------
(* Instances of the CSR approver for TLC.                                  *)
EXTENDS CsrApproval, TLC

NodeUser(n) == [prefix |-> "system:node:", name |-> n]

\* What the kubelet of n1 sends.
Kubelet ==
    [signer |-> "kubelet-serving", parses |-> TRUE,
     dnsNames |-> {"n1"}, ipAddresses |-> {"ip1"}, emails |-> FALSE, uris |-> FALSE,
     organization |-> <<"system:nodes">>,
     commonName |-> NodeUser("n1"), username |-> NodeUser("n1"),
     usages |-> {"digital signature", "server auth"}]

\* A good request, and one for each way to fail that leads to another path.
MCPaths ==
    {Kubelet,
     [Kubelet EXCEPT !.ipAddresses = {"ip1", "ip2"}],
     [Kubelet EXCEPT !.username = NodeUser("n2")],
     [Kubelet EXCEPT !.signer = "other"],
     [Kubelet EXCEPT !.parses = FALSE]}

Address(type, address) == [type |-> type, address |-> address]

\* Not initialised; with one address and with the other, the second time under a
\* hostname that is an IP address.
MCAddressLists ==
    {<<>>,
     <<Address("Hostname", "n1"), Address("InternalIP", "ip1")>>,
     <<Address("InternalIP", "ip2"), Address("Hostname", "ip2")>>}
=============================================================================
