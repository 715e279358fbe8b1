---------------------------- MODULE MCAlgorithms ----------------------------
(* Words small enough that every cluster CIDR, node mask and argument of   *)
(* both families is enumerated, and arguments of the other functions that  *)
(* reach each of their branches, in combination.                           *)
EXTENDS Algorithms

LOCAL Bounded == INSTANCE SequencesExt

\* IPv4 addresses of 4 bits, IPv6 addresses of two 4-bit halves.
MCW4 == 4
MCH == 4
MCMaxDiff == 3

V4(ip) == [family |-> "v4", ip |-> ip]
V6(ip) == [family |-> "v6", ip |-> ip]
MCPrivate == {V4(1), V6(1)}
MCLocal == {V6(225)}

Iface(link, addr, size, permanent) ==
    [link |-> link, family |-> addr.family, ip |-> addr.ip, size |-> size, permanent |-> permanent]

\* Addresses in one another's subnet, twice in one subnet, and in none.
MCIface ==
    {Iface("eth0", V4(1), 2, TRUE), Iface("eth0", V4(9), 2, TRUE), Iface("lo", V6(64), 8, TRUE),
     Iface("eth0", V6(1), 4, TRUE), Iface("eth0", V6(225), 4, TRUE), Iface("cilium_net", V6(96), 6, TRUE),
     Iface("eth0", V6(33), 4, FALSE), Iface("eth0", V6(34), 4, TRUE), Iface("external", V6(35), 6, FALSE),
     Iface("external", V6(129), 8, TRUE)}
MCIfaces == {<<>>} \cup {<<a, b, c>> : a, b, c \in MCIface}
MCProvidedIPs == {<<>>, <<V4(1)>>, <<V6(34), V4(1)>>, <<V4(9), V6(1)>>, <<Unparsable>>}
Typed(type, addr) == [type |-> type, family |-> addr.family, ip |-> addr.ip]
MCStatusLists ==
    {<<>>, <<Typed("Hostname", Unparsable), Typed("InternalIP", V6(1))>>,
     <<Typed("InternalIP", V4(1)), Typed("ExternalIP", V6(33))>>,
     <<Typed("ExternalIP", V6(35)), Typed("InternalIP", V6(129))>>, <<Typed("InternalIP", Unparsable)>>,
     <<Typed("InternalIP", V6(225))>>}
MCMaxPods == {0, 6, 110, 254, 255, 510, 511}

Req(operator, key, values) == [operator |-> operator, key |-> key, values |-> values]
MCReqs ==
    {Req("In", "region", <<3, 5>>), Req("NotIn", "region", <<3>>), Req("Exists", "region", <<>>),
     Req("DoesNotExist", "region", <<>>), Req("Gt", "region", <<3>>), Req("Lt", "hostname", <<3>>),
     Req("Regexp", "region", <<4>>), Req("Regexp", "region", <<NoPattern>>), Req("In", "region", <<>>),
     Req("Exists", "region", <<3>>), Req("Near", "region", <<3>>)}
MCSelectors ==
    {<<>>, <<<<>>>>} \cup {<<<<a>>>> : a \in MCReqs}
        \cup {<<<<a, b>>, <<c>>>> : a, b, c \in {Req("In", "region", <<3, 5>>), Req("Gt", "region", <<3>>),
                                                Req("DoesNotExist", "zone", <<>>), Req("In", "region", <<>>)}}
Rule(selector, annotations, labels, taints, metadata) ==
    [nodeSelector |-> selector, annotations |-> annotations, labels |-> labels,
     taints |-> taints, platformMetadata |-> metadata]
MCEffects(selector) ==
    {Rule(selector, [a |-> "region"], [b |-> "hostname"], <<>>, [region |-> "hostname"]),
     Rule(selector, [b |-> "zone"], [a |-> "region"], [t |-> "platform"], [platform |-> "region"]),
     Rule(selector, <<>>, [b |-> "region"], <<>>, [hostname |-> "bad", unknown |-> "region"]),
     Rule(selector, [a |-> "bad"], <<>>, <<>>, <<>>),
     Rule(selector, <<>>, <<>>, [reserved |-> "region"], <<>>),
     Rule(selector, <<>>, <<>>, <<>>, [spot |-> "zone"]),
     Rule(selector, [a |-> "spot"], <<>>, <<>>, [spot |-> "region"]),
     Rule(selector, <<>>, <<>>, <<>>, [externalips |-> "region"])}
MCRules ==
    {<<r>> : r \in UNION {MCEffects(s) : s \in MCSelectors}}
        \cup {<<q, r>> : q \in UNION {MCEffects(s) : s \in {<<>>, <<<<Req("Gt", "region", <<3>>)>>>>}},
                         r \in UNION {MCEffects(s) : s \in {<<>>, <<<<Req("In", "region", <<3, 5>>)>>>>}}}
MCMetadata ==
    {[platform |-> -3, spot |-> False, hostname |-> h, region |-> r] :
        h \in {-1, 2}, r \in {-4, 3, 5, True, Markup}}
        \cup {[platform |-> -3, spot |-> True, hostname |-> 2]}

CIDR(family, size) == [family |-> family, size |-> size]
MCCIDRLists ==
    Bounded!BoundedSeq({CIDR("v4", 16), CIDR("v4", 26), CIDR("v6", 64)}, 3)
MCConfigs ==
    [allocateNodeCIDRs: BOOLEAN, clusterCIDRs: {<<>>, <<CIDR("v6", 64), CIDR("v4", 16)>>},
     mask: {0, 25}, maskV4: {0, 28}, maskV6: {0, 72}, allocator: {"range", "cloud", "other"}]

User(prefix, name) == [prefix |-> prefix, name |-> name]
MCRequests ==
    [signer: {"kubelet-serving"}, parses: {TRUE}, dnsNames: SUBSET {"n1", "kubernetes.default"},
     ipAddresses: {{}, {"ip1"}}, emails: BOOLEAN, uris: BOOLEAN,
     organization: {<<"system:nodes">>, <<>>, <<"system:nodes", "system:masters">>},
     commonName: {User("system:node:", "n1"), User("system:node:", ""), User("user:", "n1")},
     username: {User("system:node:", "n1"), User("system:node:", ""), User("user:", "n1")},
     usages: SUBSET {"key encipherment", "digital signature", "server auth", "client auth"}]
=============================================================================
