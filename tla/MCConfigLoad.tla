---------------------------- MODULE MCConfigLoad ----------------------------
(* Instances of ConfigLoad for TLC: times in seconds, durations of six bits *)
EXTENDS ConfigLoad, TLC

MCBuiltin == [interval |-> 30, packet |-> 1, timeout |-> 5, count |-> 3, source |-> ""]

MCFiles == <<"10-web.yaml", "_global.yaml", "dns.yaml">>

Icmp == [name |-> "p1", type |-> "icmp", targets |-> <<"192.0.2.1">>, maxIPs |-> 0,
         source |-> "", interval |-> Absent, packet |-> Absent, timeout |-> Absent,
         count |-> Absent, labels |-> {}, block |-> Absent]
Http == [Icmp EXCEPT !.type = "http", !.targets = <<"example.org">>,
           !.block = [scheme |-> "", port |-> 0, method |-> "", status |-> 0, days |-> 0]]
Tcp == [Icmp EXCEPT !.type = "tcp", !.block = [port |-> 443, mode |-> ""]]
Udp == [Icmp EXCEPT !.type = "udp", !.block = [port |-> 53, payload |-> "", expect |-> ""]]
Dns == [Icmp EXCEPT !.name = "p2", !.type = "dns", !.targets = <<"example.org">>,
          !.block = [record |-> "", resolver |-> ""]]

Doc(g, ps) == [yaml |-> TRUE, global |-> g, probes |-> ps]
Broken == [yaml |-> FALSE, global |-> Absent, probes |-> Absent]
Keys == [interval |-> Absent, packet |-> Absent, timeout |-> Absent, count |-> Absent,
         source |-> Absent]
Globals(g) == Doc(g, Absent)
Probes(ps) == Doc(Absent, ps)

\* One probe, every field at and past its limits.
AnyProbe ==
  {[Icmp EXCEPT !.type = x] : x \in {"", "grpc", "tcp", "udp", "dns", "http"}}
  \cup {[Icmp EXCEPT !.name = ""], [Icmp EXCEPT !.maxIPs = -1], [Icmp EXCEPT !.maxIPs = 1]}
  \cup {[r EXCEPT !.targets = x] : r \in {Icmp, Dns},
          x \in {<<>>, <<"">>, <<"example.org">>, <<"192.0.2.1", "nx.invalid">>}}
  \cup {[Icmp EXCEPT !.source = x] : x \in {"10.0.0.1", "10.9.9.9", "eth0"}}
  \cup {[Icmp EXCEPT !.labels = {x}] : x \in {"site", "bad_key", "control_char"}}
  \cup {[r EXCEPT !.interval = x] : r \in {Icmp, Http}, x \in {-1, 0, 5, 6}}
  \cup {[r EXCEPT !.timeout = x] : r \in {Icmp, Http}, x \in {0, 3, 4, 30}}
  \cup {[r EXCEPT !.packet = x, !.count = y] : r \in {Icmp, Http},
          x \in {0, 1, 8}, y \in {0, 4, 5, 8}}
  \cup {[Http EXCEPT !.block.scheme = x] : x \in {"HTTPS", "ftp"}}
  \cup {[Http EXCEPT !.block.port = x] : x \in {-1, 1, 65535, 65536}}
  \cup {[Http EXCEPT !.block.method = x] : x \in {"head", "PUT"}}
  \cup {[Http EXCEPT !.block.status = x] : x \in {99, 100, 599, 600}}
  \cup {[Http EXCEPT !.block.days = x] : x \in {-1, 30}}
  \cup {[r EXCEPT !.block.port = x] : r \in {Tcp, Udp}, x \in {0, 1, 65535, 65536}}
  \cup {[Tcp EXCEPT !.block.mode = x] : x \in {"connect", "syn", "xmas"}}
  \cup {[Udp EXCEPT !.block.payload = x, !.block.expect = y] : x, y \in {"", "ping"}}
  \cup {[Dns EXCEPT !.block.record = x] : x \in {"aaaa", "MX", "SOA"}}
  \cup {[Dns EXCEPT !.block.resolver = x] : x \in {"ok", "bad"}}

Dir(a, g, b) == ("10-web.yaml" :> a) @@ ("_global.yaml" :> g) @@ ("dns.yaml" :> b)

EditedDirs ==
  {Dir(Probes(<<Tcp>>), Globals([Keys EXCEPT !.interval = 20]), Probes(<<Dns>>)),
   Dir(Absent, Absent, Absent)}

FixedDirs ==
  {Dir(Probes(Absent), Globals([Keys EXCEPT !.source = "10.0.0.1"]), Doc(Null, <<Icmp, Dns>>)),
   Dir(Probes(<<Icmp, Icmp>>), Absent, Absent),
   Dir(Absent, Globals([Keys EXCEPT !.timeout = 40]), Absent),
   Dir(Globals(Keys), Absent, Probes(<<Dns>>))}
  \cup {Dir(Probes(<<r>>), Absent, Absent) : r \in AnyProbe}

MCEditDocs == {Probes(<<Icmp>>), Probes(<<Tcp>>), Globals(Absent), Globals(Null), Broken}

GoodOps == [format |-> "json", buffer |-> 1000,
            otlp |-> [enabled |-> FALSE, endpoint |-> "", protocol |-> "grpc",
                      cert |-> "", key |-> "", shutdown |-> 10]]
Otlp == [GoodOps EXCEPT !.otlp.enabled = TRUE, !.otlp.endpoint = "collector:4317"]
MCOpsDocs ==
  {GoodOps, Null, [GoodOps EXCEPT !.format = "xml"], [GoodOps EXCEPT !.buffer = 0], Otlp,
   [Otlp EXCEPT !.otlp.endpoint = ""], [Otlp EXCEPT !.otlp.protocol = "udp"],
   [Otlp EXCEPT !.otlp.cert = "crt.pem"], [Otlp EXCEPT !.otlp.shutdown = 0]}
TwoOps == {GoodOps, Null}

FixedStarts == [ops : {Otlp}, dir : FixedDirs, edits : {0}]

\* Two edited directories, and every value of every field once.
MCStarts ==
  [ops : {GoodOps}, dir : EditedDirs, edits : {2}]
  \cup FixedStarts
  \cup [ops : MCOpsDocs, dir : EditedDirs, edits : {0}]
=============================================================================
