-------------------------- MODULE MCCloudAllocator --------------------------
(* Instances of the cloud allocator for TLC.                               *)
EXTENDS CloudAllocator, TLC

CONSTANTS n1, n2        \* the nodes; n1 has an address in a public subnet

CIDR(s, blocks) == [subnet |-> s, blocks |-> blocks]

SymmetricWorkers == Permutations(Worker)

\* IPv6 only, with a configured subnet for nodes without a public one.
SixOnly == <<"ula">>
SixOnlyMax == [s \in Subnets |-> IF s = "ula" THEN 1 ELSE 2]

\* A node that already holds the CIDR of the configured subnet.
StaticInitial == {<<>>, <<CIDR("ula", {0})>>}

OneEach == [s \in Subnets |-> 1]
\* One usable block in the configured subnet, two in a public one.
OneTwo == [s \in Subnets |-> IF s = "ula" THEN 2 ELSE 3]

\* A node that already holds a CIDR of a public subnet.
PublicInitial == {<<>>, <<CIDR("g", {1})>>}

\* A service CIDR on the first block of the configured subnet.
NoService == {}
UlaService ==
    {[base |-> "ula", blocks |-> [s \in Subnets |-> IF s = "ula" THEN {0} ELSE {}]]}
NoCIDRs == {<<>>}

\* Answers of the Talos API.
Public == [n \in Node |-> {<<"g">>}]
Flaky == [n \in Node |-> {<<>>, <<"g">>}]
Mixed == [n \in Node |-> {<<>>, <<Host>>, <<"g", "tiny">>, <<"tiny", "g">>, <<"tiny">>}]

\* Block 0 of "g" holds the address of n1.
OwnFirst == [n \in Node |-> [s \in Global |-> IF n = n1 /\ s = "g" THEN {0} ELSE {}]]
=============================================================================
