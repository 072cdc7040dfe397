-------------------------- MODULE MCPolicyPlane --------------------------
(* PolicyPlane for TLC: the inputs of each computation.                    *)
EXTENDS PolicyPlane

Rule(slot, match, action, policies, unsupported) ==
  [slot |-> slot, match |-> match, action |-> action, policies |-> policies, unsupported |-> unsupported]
R1 == Rule("r1", [domain |-> {"m"}, proto |-> {}], "", <<"y", "x">>, "")
R2 == Rule("r2", [domain |-> {"m", "n"}, proto |-> {"udp"}], "z", <<>>, "fallthrough")
Profile(template, defaults, unsupported, rules) ==
  [template |-> template, defaults |-> defaults, unsupported |-> unsupported, rules |-> rules]
MCTemplates == [t |-> Profile("none", <<"x", "y">>, "fallthrough", <<R2>>)]
MCProfiles == [p |-> Profile("t", <<>>, "", <<R1>>), q |-> Profile("none", <<"y", "x">>, "", <<R1, R2>>),
               s |-> Profile("t", <<>>, "", <<>>), r |-> Profile("t", <<>>, "reject", <<R1>>)]
Device(id, hw, ip, mode, gateway, profile) ==
  [id |-> id, mac |-> hw, ip |-> ip, mode |-> mode, gateway |-> gateway, profile |-> profile]
First(profile) == Device("d1", "m1", "a", "dedicated", "opensurge", profile)
\* No MAC; no mode of its own; an address given twice; a device of the router's; an address
\* outside the LAN and the gateway's own.
MCDocuments == {
  <<First("p"), Device("d2", "", "b", "dedicated", "opensurge", "s")>>,
  <<First("q"), Device("d2", "m2", "b", "", "opensurge", "s")>>,
  <<First("p"), Device("d2", "m2", "a", "dedicated", "opensurge", "s")>>,
  <<First("r"), Device("d2", "m2", "b", "inherit_global", "router", "s")>>,
  <<Device("d1", "m1", "far", "dedicated", "opensurge", "q"), Device("d2", "", "gw", "inherit_global", "opensurge", "s")>>}
MCTopologies == {[same |-> s, lan |-> {"a", "b", "gw"}] : s \in BOOLEAN}
MCYBudget == [edits |-> 1, refreshes |-> 2, faults |-> 1, picks |-> 1]

\* A LAN device over both nodes, and a process of the gateway that mihomo reports with the device's address.
MCOpenings == {[source |-> "a", process |-> FALSE, egress |-> 1], [source |-> "a", process |-> FALSE, egress |-> 2],
               [source |-> "a", process |-> TRUE, egress |-> 1]}
\* One MAC with two leases, of which one is online; none.
MCLeaseFiles == {{[mac |-> "m1", ip |-> "a", online |-> TRUE, expires |-> 1],
                  [mac |-> "m1", ip |-> "b", online |-> FALSE, expires |-> 2]}, {}}
MCPolicies == {{[mac |-> "m1", ip |-> "b"]}}

MCNames == {<<"x">>, <<"a", "x">>, <<"b", "a", "x">>}
\* Patterns of a list, of which "set" is a geosite or a rule set; rules.
Patterns(kinds) == [rule: {FALSE}, kind: kinds, base: {<<"x">>, <<"a", "x">>}, action: {""}]
MCEntries == Patterns({"exact", "suffix", "star", "dot", "set"})
             \cup [rule: {TRUE}, kind: {"exact", "suffix", "keyword"}, base: {<<"x">>, <<"a", "x">>}, action: {"real-ip", "fake-ip", ""}]
             \cup [rule: {TRUE}, kind: {"match", "set"}, base: {<<"a", "x">>}, action: {"fake-ip"}]

Field(lo, hi, step) == {[lo |-> lo, hi |-> hi, step |-> step]}
MCSchedules ==
  {[mode |-> "interval", every |-> e, at |-> 1, clock |-> {}, dom |-> {}, dow |-> {}] : e \in {1, 2}}
  \cup [mode: {"cron"}, every: {1}, at: {0}, clock: {Field(1, 1, 1), Field(0, 1, 1)},
        dom: {Field(1, 4, 1), Field(1, 4, 2), Field(3, 3, 1)}, dow: {Field(0, 3, 1), Field(3, 3, 1), Field(1, 2, 1)}]
=============================================================================
