---------------------------- MODULE DeviceTraffic ----------------------------
(***************************************************************************)
(* Traffic by device (internal/controlapi/device_traffic.go): mihomo's     *)
(* connections are assigned to the gateway itself, to a device or to       *)
(* nobody; their growth since the last answer, kept by a sampler that all  *)
(* requests share, gives the rates.                                        *)
(***************************************************************************)
EXTENDS Integers, SequencesExt

CONSTANTS
  Flows,      \* identifiers of connections
  Openings,   \* what connections there are: [source, process, egress]
  Readers,    \* requests that may be under way together
  Egresses,   \* egress chains, as numbers: their order as strings
  LeaseFiles, \* sets of leases [mac, ip, online, expires]
  Policies,   \* sets of registered devices [mac, ip]
  MaxGap, FHorizon, \* maxTrafficSampleGap, and the last instant
  FBudget     \* bounds changes of the traffic and failed looks at it

LAN == {"a", "b"}  \* sameLANSourceIPv4; a sourceIP may also be "gateway" or "outside"
NoFlow  == [source |-> "none", process |-> FALSE, bytes |-> 0, egress |-> 0]
NoSample == [at |-> 0, flows |-> [k \in Flows |-> NoFlow]]
NoReport == [snapshot |-> NoSample.flows, local |-> {}, kind |-> <<>>, assigned |-> <<>>, rated |-> <<>>, localRate |-> 0, egress |-> <<>>]
NoNeighbors == [list |-> <<>>, macs |-> [ip \in LAN |-> ""]]

VARIABLES
  flows,     \* mihomo's connections
  now,
  reader,    \* the sample each request has taken and not yet answered with
  sampler,   \* trafficRateSampler
  leases, policy,
  report,    \* what the last step answered
  neighbors, \* what the last step saw of the ARP cache, and what observedLANDevices made of it
  fleft

fvars == <<flows, now, reader, sampler, leases, policy, report, neighbors, fleft>>

TrafficInit ==
  /\ flows = NoSample.flows /\ now = 1 /\ reader = [r \in Readers |-> NoSample] /\ sampler = NoSample
  /\ leases \in LeaseFiles /\ policy \in Policies
  /\ report = NoReport /\ neighbors = NoNeighbors /\ fleft = FBudget

----------------------------------------------------------------------------
(* Whose connection it is.                                                 *)

Live(s) == {k \in Flows : s[k] # NoFlow}

\* gatewayLocalSourceIPs: one connection of a local process makes its source local.
LocalSources(s) == {s[k].source : k \in {j \in Live(s) : s[j].source = "gateway" \/ s[j].process}}

\* isGatewayLocalConnection
Local(s) == {k \in Live(s) : s[k].process \/ s[k].source \in LocalSources(s)}

\* (mutant) Only the connection itself is looked at.
LocalByItself(s) == {k \in Live(s) : s[k].process \/ s[k].source = "gateway"}

\* The same question in annotate, and for the rows of traffic nobody registered.
RatedLocal(s) == Local(s)
NotObserved(s) == Local(s)

\* preferTrafficLease
Preferred(l, m) == IF l.online # m.online THEN l.online ELSE l.expires >= m.expires
CurrentLeases == {l \in leases : \A m \in leases : m.mac = l.mac => Preferred(l, m)}

\* The rows: leases, registered devices, then whoever else sends from the LAN.
Leased   == {l.ip : l \in CurrentLeases}
Named    == {d.ip : d \in policy} \cap LAN
Observed(s) == {s[k].source : k \in Live(s) \ NotObserved(s)} \cap LAN
Kind(ip) == IF ip \in Leased THEN "dhcp_lease" ELSE IF ip \in Named THEN "registered_static" ELSE "observed_traffic"
Rows(s)  == Leased \cup Named \cup Observed(s)

\* What some connections have of an amount together.
Running(amount, list) ==
  LET sum[n \in 0 .. Len(list)] == IF n = 0 THEN 0 ELSE sum[n - 1] + amount[list[n]] IN sum
Total(amount, ks) == Running(amount, SetToSeq(ks))[Cardinality(ks)]

\* primaryEgress takes the usages in the random order of a map.
UsageOf(s, ks, e) ==
  LET mine == {k \in ks : s[k].egress = e}
  IN [bytes |-> Total([k \in Flows |-> s[k].bytes], mine), connections |-> Cardinality(mine)]

\* (mutant) Without the last resort.
LaterWins(e, u, best, b) ==
  \/ u.bytes > b.bytes
  \/ u.bytes = b.bytes /\ u.connections > b.connections

Better(e, u, best, b) ==
  \/ u.bytes > b.bytes
  \/ u.bytes = b.bytes /\ u.connections > b.connections
  \/ u.bytes = b.bytes /\ u.connections = b.connections /\ e < best

Prefers(s, ks, e, best) ==
  /\ \E k \in ks : s[k].egress = e
  /\ best = 0 \/ Better(e, UsageOf(s, ks, e), best, UsageOf(s, ks, best))

\* The best of the first usages.
Bests(s, ks, order) ==
  LET best[n \in 0 .. Len(order)] ==
        IF n = 0 THEN 0 ELSE IF Prefers(s, ks, order[n], best[n - 1]) THEN order[n] ELSE best[n - 1]
  IN best
Primary(s, ks, order) == Bests(s, ks, order)[Len(order)]

----------------------------------------------------------------------------
(* The sampler.                                                            *)

\* counterDelta, of the connections that were there before.
Growth(s, before, ks) ==
  Total([k \in Flows |-> IF before[k] = NoFlow \/ s[k].bytes <= before[k].bytes THEN 0 ELSE s[k].bytes - before[k].bytes], ks)

\* An answer without a predecessor, out of order, or too late has no rates.
Comparable(at) == sampler.at # 0 /\ at > sampler.at /\ at - sampler.at <= MaxGap

\* (mutant) The later of two times goes with the later of two snapshots to arrive.
LatestTime(at, s) == [at |-> IF at > sampler.at THEN at ELSE sampler.at, flows |-> s]

\* What annotate leaves for the next answer.
Baseline(at, s) == [at |-> at, flows |-> s]

----------------------------------------------------------------------------
Silent == report' = NoReport /\ neighbors' = NoNeighbors
Spends == fleft > 0 /\ fleft' = fleft - 1

\* handleDeviceTraffic up to sampledAt.
Sample(r) ==
  /\ reader[r] = NoSample
  /\ reader' = [reader EXCEPT ![r] = [at |-> now, flows |-> flows]]
  /\ UNCHANGED <<flows, now, sampler, leases, policy, fleft>> /\ Silent

\* mihomo does not answer: sampler.reset.
SampleFails(r) ==
  /\ reader[r] = NoSample /\ Spends /\ sampler' = NoSample
  /\ UNCHANGED <<flows, now, reader, leases, policy>> /\ Silent

\* aggregateDeviceTrafficWithPolicy and annotate, which holds the sampler's mutex.
Answer(r, order) ==
  /\ reader[r] # NoSample
  /\ LET s == reader[r].flows
         at == reader[r].at
         rows == Rows(s)
         Assigned(ip) == {k \in Live(s) \ Local(s) : s[k].source = ip}
         Rated(ip) == {k \in Live(s) \ RatedLocal(s) : s[k].source = ip}
         Rate(ks) == IF Comparable(at) THEN Growth(s, sampler.flows, ks) ELSE 0
     IN /\ report' = [snapshot |-> s, local |-> Local(s), kind |-> [ip \in rows |-> Kind(ip)],
                      assigned |-> [ip \in rows |-> Assigned(ip)], rated |-> [ip \in rows |-> Rate(Rated(ip))],
                      localRate |-> Rate(RatedLocal(s)), egress |-> [ip \in rows |-> Primary(s, Assigned(ip), order)]]
        /\ sampler' = Baseline(at, s) /\ neighbors' = NoNeighbors
  /\ reader' = [reader EXCEPT ![r] = NoSample]
  /\ UNCHANGED <<flows, now, leases, policy, fleft>>

\* Connections open, carry bytes and close.
Traffic ==
  /\ Spends
  /\ \E k \in Flows :
       \/ flows[k] = NoFlow /\ (\E o \in Openings :
            flows' = [flows EXCEPT ![k] = [source |-> o.source, process |-> o.process, bytes |-> 1, egress |-> o.egress]])
       \/ flows[k] # NoFlow /\ flows' = [flows EXCEPT ![k].bytes = @ + 1]
       \/ flows[k] # NoFlow /\ flows' = [flows EXCEPT ![k] = NoFlow]
  /\ UNCHANGED <<now, reader, sampler, leases, policy>> /\ Silent

Clock ==
  /\ now < FHorizon /\ now' = now + 1
  /\ UNCHANGED <<flows, reader, sampler, leases, policy, fleft>> /\ Silent

----------------------------------------------------------------------------
(* observedLANDevices: the hardware address of an observed IP.             *)

\* (mutant) An address seen with two hardware addresses is only forgotten.
Forgotten(m, doubt, e) == doubt

\* ambiguousNeighborIP
Doubted(m, doubt, e) == IF m[e.ip] \notin {"", e.mac} THEN doubt \cup {e.ip} ELSE doubt

Noted(acc, e) ==
  IF e.mac = "" \/ e.ip \in acc.doubt THEN acc
  ELSE [m |-> [acc.m EXCEPT ![e.ip] = IF @ \notin {"", e.mac} THEN "" ELSE e.mac], doubt |-> Doubted(acc.m, acc.doubt, e)]

\* What the first entries say.
Notes(es) ==
  LET note[n \in 0 .. Len(es)] == IF n = 0 THEN [m |-> [ip \in LAN |-> ""], doubt |-> {}] ELSE Noted(note[n - 1], es[n])
  IN note

Entries == [ip : {"a"}, mac : {"", "m1", "m2"}]

LookAtNeighbors ==
  /\ Spends /\ flows = NoSample.flows /\ now = 1 /\ reader = [r \in Readers |-> NoSample]
  /\ \E n \in 1 .. 4 : \E es \in [1 .. n -> Entries] :
       neighbors' = [list |-> es, macs |-> Notes(es)[n].m]
  /\ UNCHANGED <<flows, now, reader, sampler, leases, policy>> /\ report' = NoReport

TrafficNext ==
  \/ Traffic \/ Clock \/ LookAtNeighbors
  \/ \E r \in Readers : Sample(r) \/ SampleFails(r) \/ (\E order \in SetToSeqs(Egresses) : Answer(r, order))

----------------------------------------------------------------------------
(* Properties.                                                             *)

\* Rates and counts are computed by two passes over the connections, each with its
\* own idea of whose they are: nobody has a rate without a connection.
RatesFollowCounts ==
  /\ report.localRate > 0 => report.local # {}
  /\ \A ip \in DOMAIN report.rated : report.rated[ip] > 0 => report.assigned[ip] # {}

\* A device known from its traffic only has traffic.
ObservedDevicesHaveTraffic ==
  \A ip \in DOMAIN report.kind : report.kind[ip] = "observed_traffic" => report.assigned[ip] # {}

\* Whatever the order in which overlapping requests answer, the next rates compare
\* with the connections as they were at the time they are divided by.
BaselineIsOneSample == [][sampler' # sampler => sampler' \in {NoSample} \cup {reader[r] : r \in Readers}]_fvars

\* The egress shown does not depend on the order of a Go map.
EgressIsStable ==
  \A ip \in DOMAIN report.egress :
    LET ks == report.assigned[ip]
        Usage(e) == UsageOf(report.snapshot, ks, e)
    IN \A e \in {report.snapshot[k].egress : k \in ks} \ {report.egress[ip]} :
         LET u == Usage(e)
             b == Usage(report.egress[ip])
         IN \/ b.bytes > u.bytes
            \/ b.bytes = u.bytes /\ b.connections > u.connections
            \/ b.bytes = u.bytes /\ b.connections = u.connections /\ report.egress[ip] < e

\* A hardware address is given to an IP only when no entry of the ARP cache, in
\* whatever order, says otherwise.
NeighborIsUnambiguous ==
  \A ip \in LAN :
    LET said == {neighbors.list[i].mac : i \in {j \in DOMAIN neighbors.list : neighbors.list[j].ip = ip}} \ {""}
    IN neighbors.macs[ip] = IF \E x \in said : said = {x} THEN CHOOSE x \in said : TRUE ELSE ""
=============================================================================
