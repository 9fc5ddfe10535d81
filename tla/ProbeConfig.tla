---------------------------- MODULE ProbeConfig ----------------------------
(***************************************************************************)
(* What config.Load does with the bytes it has read (internal/config):     *)
(* decoding, the merge of the global defaults into every probe, and the    *)
(* validation of the ops file, the defaults and the probes.  A decoded     *)
(* document is a record, a missing key is Absent and a YAML null is Null.  *)
(***************************************************************************)
EXTENDS Lists, Functions, FiniteSetsExt

CONSTANTS
  Absent, Null,   \* a key that is not written, a key whose value is null
  GlobalFile,     \* "_global.yaml"
  Builtin,        \* the defaults in force without a global file
  Millisecond,    \* time.Millisecond
  Word,           \* how many values a time.Duration has: 2^64
  IPLiteral,      \* target entries net.ParseIP accepts
  Blank,          \* target entries that are empty or hold whitespace
  LocalIP         \* addresses of the local interfaces, external

\* config.GlobalConfig, the protocol blocks, and a probe as GET /config
\* writes it.
Global == [interval : Int, packet : Int, timeout : Int, count : Int, source : STRING]

Block ==
  [http |-> [scheme : STRING, port : Int, method : STRING, status : Int, days : Int],
   tcp  |-> [port : Int, mode : STRING],
   udp  |-> [port : Int, payload : STRING, expect : STRING],
   dns  |-> [record : STRING, resolver : STRING]]

Written ==
  [name : STRING, type : STRING, targets : Seq(STRING), maxIPs : Int, source : STRING,
   labels : SUBSET STRING, interval : Int, packet : Int, timeout : Int, count : Int,
   block : {Absent}]

\* That literals are strings is a fact of TLA+ that no prover knows.
ASSUME ConfigAssumption ==
  /\ Word \in Nat \ {0} /\ Word % 2 = 0
  /\ Millisecond \in 1..((Word \div 2) - 1)
  /\ Absent # Null
  /\ {"http", "https", "GET", "HEAD", "connect", "A", "AAAA"} \subseteq STRING
  /\ Absent \notin Int /\ Absent \notin STRING /\ Absent \notin Global
  /\ Absent \notin Seq(Written)
  /\ \A type \in DOMAIN Block : Absent \notin Block[type]
  /\ Builtin \in Global
  /\ "" \notin LocalIP

\* int64 arithmetic: the product of two durations keeps its low bits.
Wrap(n) == ((n + (Word \div 2)) % Word) - (Word \div 2)

KnownTypes == {"icmp", "http", "tcp", "udp", "dns"}

-----------------------------------------------------------------------------
(* The ops file *)

validateOTLP(o) ==
  o.enabled => /\ o.endpoint # ""
               /\ o.protocol \in {"grpc", "http"}
               /\ (o.cert = "") = (o.key = "")
               /\ o.shutdown > 0

\* Absent keys are decoded onto the defaults, which all pass: an ops document
\* here is what yaml.Unmarshal leaves, or Null when the text is no YAML.
parseOpsFile(o) ==
  /\ o # Null
  /\ o.format \in {"json", "text"}
  /\ validateOTLP(o.otlp)
  /\ o.buffer > 0

-----------------------------------------------------------------------------
(* One probe *)

Or(value, default) == IF value = Absent THEN default ELSE value

\* t is the merged timing of a probe, or the defaults themselves.
validateTimings(t) ==
  /\ t.interval > 0
  /\ t.packet >= Millisecond
  /\ t.timeout > 0
  /\ t.count > 0
  /\ Wrap(t.packet * t.count) < t.timeout
  /\ t.timeout < t.interval

mergeTimings(r, g) ==
  [interval |-> Or(r.interval, g.interval),
   packet   |-> Or(r.packet, g.packet),
   timeout  |-> Or(r.timeout, g.timeout),
   count    |-> Or(r.count, g.count)]

\* resolves is what the system resolver knows at this moment, external.
validateOneTarget(t, resolves) == t \in IPLiteral \cup resolves

validateDNSQueryName(t) == t \notin Blank

validateTargets(r, resolves) ==
  /\ r.targets # <<>>
  /\ \A i \in 1..Len(r.targets) :
       IF r.type = "dns" THEN validateDNSQueryName(r.targets[i])
                         ELSE validateOneTarget(r.targets[i], resolves)

SourceIP(r, g) == IF r.source = "" THEN g.source ELSE r.source

\* A string that is no IP address is in no interface's list either; when the
\* interfaces cannot be listed LocalIP is empty.
isLocalIP(ip) == ip \in LocalIP

resolveSourceIP(r, g) == SourceIP(r, g) = "" \/ isLocalIP(SourceIP(r, g))

\* Labels by what the two checks see in them.
validateLabels(labels) == labels \cap {"bad_key", "control_char"} = {}

ToLower(s) == IF s = "HTTPS" THEN "https" ELSE s
ToUpper(s) == CASE s = "head" -> "HEAD" [] s = "aaaa" -> "AAAA" [] OTHER -> s

IsPort(n) == n \in 1..65535

validateHTTPConfig(b) ==
  /\ ToLower(b.scheme) \in {"", "http", "https"}
  /\ b.port = 0 \/ IsPort(b.port)
  /\ ToUpper(b.method) \in {"", "GET", "HEAD", "POST"}
  /\ b.status = 0 \/ b.status \in 100..599
  /\ b.days >= 0

validateTCPConfig(b) == IsPort(b.port) /\ b.mode \in {"", "connect", "syn"}

validateUDPConfig(b) == IsPort(b.port) /\ (b.expect # "" => b.payload # "")

\* b.resolver is "", or whether net.ResolveTCPAddr accepts it: "ok" or "bad".
validateDNSConfig(b) ==
  /\ ToUpper(b.record) \in {"", "A", "AAAA", "CNAME", "MX", "TXT"}
  /\ b.resolver # "bad"

\* The typed block with its defaults, written into pc.
typedBlock(type, b) ==
  CASE type = "http" -> [b EXCEPT !.scheme = IF @ = "" THEN "http" ELSE ToLower(@),
                                  !.method = IF @ = "" THEN "GET" ELSE ToUpper(@)]
    [] type = "tcp"  -> [b EXCEPT !.mode = IF @ = "" THEN "connect" ELSE @]
    [] type = "dns"  -> [b EXCEPT !.record = IF @ = "" THEN "A" ELSE ToUpper(@)]
    [] OTHER         -> b

\* r.block is the block of r's own type; blocks of other types are not read.
validateProtocolConfig(r) ==
  CASE r.type = "icmp" -> TRUE
    [] r.type = "http" -> r.block # Absent /\ validateHTTPConfig(r.block)
    [] r.type = "tcp"  -> r.block # Absent /\ validateTCPConfig(r.block)
    [] r.type = "udp"  -> r.block # Absent /\ validateUDPConfig(r.block)
    [] r.type = "dns"  -> r.block # Absent /\ validateDNSConfig(r.block)

\* mergeAndValidateProbe returns no error.
validProbe(r, g, resolves) ==
  /\ r.type \in KnownTypes
  /\ validateTargets(r, resolves)
  /\ r.maxIPs >= 0
  /\ resolveSourceIP(r, g)
  /\ r.type # "http" => validateTimings(mergeTimings(r, g))
  /\ validateLabels(r.labels)
  /\ validateProtocolConfig(r)

\* The types.ProbeConfig it returns.
mergeProbe(r, g) ==
  [name |-> r.name, type |-> r.type, targets |-> r.targets, maxIPs |-> r.maxIPs,
   source |-> SourceIP(r, g), time |-> mergeTimings(r, g), labels |-> r.labels,
   block |-> IF r.type = "icmp" THEN Absent ELSE typedBlock(r.type, r.block)]

\* What yaml.Unmarshal leaves of a probe, of the defaults, of a document.
IsRaw(r) ==
  /\ r.name \in STRING /\ r.type \in STRING /\ r.source \in STRING
  /\ r.targets \in Seq(STRING) /\ r.maxIPs \in Int /\ r.labels \subseteq STRING
  /\ \A k \in {"interval", "packet", "timeout", "count"} : r[k] \in Int \cup {Absent}
  /\ r.type \in DOMAIN Block => r.block \in Block[r.type] \cup {Absent}

IsDoc(d) ==
  /\ d.global \notin {Absent, Null} =>
       /\ \A k \in {"interval", "packet", "timeout", "count"} : d.global[k] \in Int \cup {Absent}
       /\ d.global.source \in STRING \cup {Absent}
  /\ d.probes # Absent =>
       d.probes \in Seq(Range(d.probes)) /\ \A r \in Range(d.probes) : IsRaw(r)

-----------------------------------------------------------------------------
(* The probe files: a source is a file name and the document read from it  *)

\* The first pass over one source.
decode(s) ==
  IF ~s.doc.yaml THEN "error"
  ELSE IF s.name # GlobalFile
       THEN IF s.doc.global \in {Absent, Null} THEN "ok" ELSE "error"
  ELSE IF s.doc.probes # Absent THEN "error"
  ELSE IF s.doc.global = Null THEN "panic" ELSE "ok"

\* Decoded onto a copy of the defaults, so absent keys keep them.
overlay(doc) ==
  IF doc.global = Absent THEN Builtin
  ELSE [k \in DOMAIN Builtin |-> Or(doc.global[k], Builtin[k])]

\* A directory holds at most one global file.
globalOf(sources) ==
  LET global == {s \in Range(sources) : s.name = GlobalFile}
  IN  IF global = {} THEN Builtin ELSE overlay((CHOOSE s \in global : TRUE).doc)

\* The probes a file declares: the global file has none.
rawsOf(s) == IF s.name = GlobalFile \/ s.doc.probes = Absent THEN <<>> ELSE s.doc.probes

\* Every probe of every fragment, in the order of the files.
declared(sources) == Concat([i \in 1..Len(sources) |-> rawsOf(sources[i])])

\* Mutant: names are compared within a file only.
UniqueInFile(sources) ==
  \A i \in 1..Len(sources) :
    LET rs == rawsOf(sources[i])
    IN  \A j, k \in 1..Len(rs) : rs[j].name = rs[k].name => j = k

\* seen within a file and origin across the files.
uniqueNames(sources) ==
  LET rs == declared(sources)
  IN  \A j, k \in 1..Len(rs) : rs[j].name = rs[k].name => j = k

\* The second pass returns no error.
validSources(sources, resolves) ==
  LET rs == declared(sources)
      g  == globalOf(sources)
  IN  /\ validateTimings(g)
      /\ \A i \in 1..Len(rs) : rs[i].name # "" /\ validProbe(rs[i], g, resolves)
      /\ uniqueNames(sources)

\* Mutant: a file is merged when it is read, with the defaults known by then.
MergedAsRead(sources) ==
  Concat([i \in 1..Len(sources) |->
    LET rs == rawsOf(sources[i])
    IN  [j \in 1..Len(rs) |-> mergeProbe(rs[j], globalOf(SubSeq(sources, 1, i)))]])

mergedProbes(sources) ==
  LET rs == declared(sources)
  IN  [i \in 1..Len(rs) |-> mergeProbe(rs[i], globalOf(sources))]

\* Mutant: the dump shows the defaults' interval for every probe.
DumpDefaults(c) ==
  [global |-> c.global,
   probes |-> [i \in 1..Len(c.probes) |->
     LET p == c.probes[i]
     IN  [name |-> p.name, type |-> p.type, targets |-> p.targets, maxIPs |-> p.maxIPs,
          source |-> p.source, labels |-> p.labels, interval |-> c.global.interval,
          packet |-> p.time.packet, timeout |-> p.time.timeout, count |-> p.time.count]]]

\* The document of GET /config.  Durations are written as ParseDuration reads
\* them; a probe's protocol block is not written.
toConfigDump(c) ==
  [global |-> c.global,
   probes |-> [i \in 1..Len(c.probes) |->
     LET p == c.probes[i]
     IN  [name |-> p.name, type |-> p.type, targets |-> p.targets, maxIPs |-> p.maxIPs,
          source |-> p.source, labels |-> p.labels, interval |-> p.time.interval,
          packet |-> p.time.packet, timeout |-> p.time.timeout, count |-> p.time.count]]]

\* What is hashed stands for its SHA-256.
fingerprint(sources) ==
  Concat([i \in 1..Len(sources) |-> <<sources[i].name, 0, sources[i].doc, 0>>])

\* The ops file is parsed first, then the sources in order: the first one
\* that does not decode decides.
parseSources(ops, sources, resolves) ==
  LET bad == {i \in 1..Len(sources) : decode(sources[i]) # "ok"}
  IN  IF ~parseOpsFile(ops) THEN "error"
      ELSE IF bad # {} THEN decode(sources[Min(bad)])
      ELSE IF ~validSources(sources, resolves) THEN "error"
      ELSE "ok"
=============================================================================
