------------------------------ MODULE CsrRules ------------------------------
(***************************************************************************)
(* The checks of the approver of kubelet serving certificates, as          *)
(* functions of the request and of the node: the validation of             *)
(* pkg/certificatesigningrequest/utils.go and the node checks of           *)
(* pkg/talos/helper.go.                                                    *)
(*                                                                         *)
(* DNS names are compared in lower case: a name stands for all its         *)
(* spellings.  The parsed request and the CSR spec are one record.         *)
(***************************************************************************)
EXTENDS Naturals, Sequences

CONSTANTS
    IP,             \* IP addresses; every other address is a DNS name
    Restricted      \* "kubernetes", "kubernetes.*" and "*.*" DNS names

RequiredUsages == {"key encipherment", "digital signature", "server auth"}

\* CutPrefix(user, "system:node:") with a remaining name.
IsNodeUser(user) == user.prefix = "system:node:" /\ user.name # ""

\* Mutant: usages other than the required ones are skipped, not refused.
validateRequiredUsagesOnly(r) ==
    /\ r.dnsNames \cup r.ipAddresses # {}
    /\ r.dnsNames \cap Restricted = {}
    /\ ~r.emails
    /\ ~r.uris
    /\ r.organization = <<"system:nodes">>
    /\ IsNodeUser(r.commonName)
    /\ r.commonName = r.username
    /\ {"server auth", "digital signature"} \subseteq r.usages

\* The request is in order, so far as this can be seen from itself.
validateKubeletServingCSR(r) ==
    /\ r.dnsNames \cup r.ipAddresses # {}
    /\ r.dnsNames \cap Restricted = {}
    /\ ~r.emails
    /\ ~r.uris
    /\ r.organization = <<"system:nodes">>
    /\ IsNodeUser(r.commonName)
    /\ r.commonName = r.username
    /\ r.usages \subseteq RequiredUsages
    /\ {"server auth", "digital signature"} \subseteq r.usages

DNSTypes == {"Hostname", "InternalDNS", "ExternalDNS"}
IPTypes == {"InternalIP", "ExternalIP"}

\* Entry i is taken as an IP address; a hostname may be one.
GivesIP(addresses, i) ==
    /\ addresses[i].address \in IP
    /\ addresses[i].type \in IPTypes \cup {"Hostname"}

\* A hostname that is an IP address counts as a name only if an earlier entry
\* gave the same address.
GivesName(addresses, i) ==
    /\ addresses[i].type \in DNSTypes
    /\ addresses[i].type = "Hostname" /\ addresses[i].address \in IP
         => \E j \in 1 .. i - 1 :
               GivesIP(addresses, j) /\ addresses[j].address = addresses[i].address

nodeAddrs(addresses) ==
    {addresses[i].address : i \in {j \in DOMAIN addresses : GivesIP(addresses, j)}}

nodeDNSNames(n, addresses) ==
    {n} \cup {addresses[i].address : i \in {j \in DOMAIN addresses : GivesName(addresses, j)}}

\* Mutant: the loop over IPAddresses is missing.
NodeChecksNamesOnly(r, n, addresses) == r.dnsNames \subseteq nodeDNSNames(n, addresses)

\* The verdict of CSRNodeChecks for an initialised node.
NodeChecks(r, n, addresses) ==
    /\ r.dnsNames \subseteq nodeDNSNames(n, addresses)
    /\ r.ipAddresses \subseteq nodeAddrs(addresses)

----------------------------------------------------------------------------

\* Reference: the rules Kubernetes gives for the kubelet-serving signer, and no
\* name that the API server answers to.
KubeletServing(r) ==
    /\ r.parses /\ r.signer = "kubelet-serving"
    /\ r.organization = <<"system:nodes">>
    /\ r.username = r.commonName /\ IsNodeUser(r.username)
    /\ "client auth" \notin r.usages /\ "server auth" \in r.usages
    /\ ~(r.emails \/ r.uris)
    /\ \E a \in r.dnsNames \cup r.ipAddresses : TRUE
    /\ \A a \in r.dnsNames : a \notin Restricted
=============================================================================
