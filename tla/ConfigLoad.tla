----------------------------- MODULE ConfigLoad -----------------------------
(***************************************************************************)
(* config.Load as the daemon runs it, at startup and on POST /reload,      *)
(* beside an operator who edits the ops file and the probe directory and a *)
(* resolver whose answers change.  Every read of a file is a step of its   *)
(* own; parsing and validation touch no file and are one step.             *)
(***************************************************************************)
EXTENDS ProbeConfig, FiniteSets

CONSTANTS
  Files,        \* the names the operator uses, in lexical order
  Starts,       \* ops file and directory to start with, and changes to come
  EditDocs,     \* what the operator writes into a file
  OpsDocs,      \* contents of the ops file
  Hostname,     \* target entries the resolver may know
  MaxLoads      \* bound on the calls of Load

fileNames == {Files[i] : i \in DOMAIN Files}

ASSUME LoadAssumption ==
  /\ Files \in Seq(fileNames)
  /\ \A i, j \in DOMAIN Files : Files[i] = Files[j] => i = j
  /\ \A s \in Starts : /\ s.edits \in Nat
                       /\ DOMAIN s.dir = fileNames
                       /\ \A f \in fileNames : s.dir[f] = Absent \/ IsDoc(s.dir[f])
  /\ \A d \in EditDocs : IsDoc(d)
  /\ GlobalFile # "fragment.yaml"
  /\ MaxLoads \in Nat

VARIABLES
  ops,       \* the ops file on disk
  dir,       \* dir[f]: the document in file f, or Absent
  resolves,  \* the hostnames that resolve
  pc,        \* where Load is; "up" when no Load runs
  opsData,   \* opsData: the ops file as read
  todo,      \* names ReadDir returned that are still to be read
  sources,   \* what readProbeDir has read
  active,    \* the config in force: served, and run by the scheduler
  loads,     \* calls of Load so far
  edits,     \* bound: changes still to come
  changes,   \* history: changes to the directory since this Load began
  past       \* history: contents of the directory since this Load began

disk == <<ops, dir, resolves, edits>>
loadVars == <<opsData, todo, sources, loads>>
history == <<changes, past>>
vars == <<disk, loadVars, pc, active, history>>

\* srv.currentCfg before the first Load.
NoConfig == <<>>

\* The files of S, in lexical order.
inOrder(S) ==
  Concat([i \in 1..Len(Files) |-> IF Files[i] \in S THEN <<Files[i]>> ELSE <<>>])

present(d) == {f \in fileNames : d[f] # Absent}

\* The probe set a directory holds, as readProbeDir would return it.
contents(d) ==
  LET names == inOrder(present(d))
  IN  [i \in 1..Len(names) |-> [name |-> names[i], doc |-> d[names[i]]]]

Init ==
  /\ \E s \in Starts : ops = s.ops /\ dir = s.dir /\ edits = s.edits
  /\ resolves = Hostname
  /\ pc = "boot"
  /\ opsData = Null /\ todo = <<>> /\ sources = <<>>
  /\ active = NoConfig
  /\ loads = 0
  /\ changes = 0 /\ past = {}

-----------------------------------------------------------------------------
(* The operator and the resolver *)

\* n files change in one step.  While a Load reads, its past grows.
Change(n) ==
  /\ edits > 0
  /\ edits' = edits - 1
  /\ changes' = changes + n
  /\ past' = IF pc \in {"list", "read"} THEN past \cup {contents(dir')} ELSE past
  /\ UNCHANGED <<ops, resolves, loadVars, pc, active>>

\* A file is replaced, created or removed.
Edit(f, d) ==
  /\ d # dir[f]
  /\ dir' = [dir EXCEPT ![f] = d]
  /\ Change(1)

\* mv f g changes two files at once.
Rename(f, g) ==
  /\ f # g /\ dir[f] # Absent
  /\ dir' = [dir EXCEPT ![f] = Absent, ![g] = dir[f]]
  /\ Change(2)

EditOps(o) ==
  /\ edits > 0
  /\ o # ops
  /\ ops' = o
  /\ edits' = edits - 1
  /\ UNCHANGED <<dir, resolves, loadVars, pc, active, history>>

\* The resolver loses or regains all its names.
ResolverChanges ==
  /\ edits > 0
  /\ resolves' = Hostname \ resolves
  /\ edits' = edits - 1
  /\ UNCHANGED <<ops, dir, loadVars, pc, active, history>>

-----------------------------------------------------------------------------
(* Load *)

\* The call fails: main exits, a reload answers 400 and changes nothing.
Reject ==
  /\ pc' = IF active = NoConfig THEN "exited" ELSE "up"
  /\ UNCHANGED active

\* main, or a /reload handler that holds reloadMu, calls Load: the ops file is
\* read first.
BeginLoad ==
  /\ pc \in {"boot", "up"}
  /\ loads < MaxLoads
  /\ loads' = loads + 1
  /\ opsData' = ops
  /\ sources' = <<>> /\ todo' = <<>>
  /\ pc' = "list"
  /\ past' = {contents(dir)} /\ changes' = 0
  /\ UNCHANGED <<disk, active>>

\* os.ReadDir: the names, sorted, filtered down to the *.yaml files.
ListDir ==
  /\ pc = "list"
  /\ todo' = inOrder(present(dir))
  /\ IF todo' = <<>> THEN Reject
     ELSE pc' = "read" /\ UNCHANGED active
  /\ UNCHANGED <<disk, opsData, sources, loads, changes, past>>

\* Mutant: the error of os.ReadFile is not looked at, the data is empty.
IgnoreReadError ==
  /\ pc = "read"
  /\ todo' = Tail(todo)
  /\ LET f == Head(todo)
         d == IF dir[f] = Absent THEN [yaml |-> TRUE, global |-> Absent, probes |-> Absent]
              ELSE dir[f]
     IN  sources' = Append(sources, [name |-> f, doc |-> d])
  /\ pc' = IF todo' = <<>> THEN "parse" ELSE "read"
  /\ UNCHANGED <<disk, opsData, loads, active, history>>

\* Mutant: a file that is gone by now is waited for.
WaitForFile ==
  /\ pc = "read"
  /\ dir[Head(todo)] # Absent
  /\ todo' = Tail(todo)
  /\ sources' = Append(sources, [name |-> Head(todo), doc |-> dir[Head(todo)]])
  /\ pc' = IF todo' = <<>> THEN "parse" ELSE "read"
  /\ UNCHANGED <<disk, opsData, loads, active, history>>

\* os.ReadFile of the next name; a file that is gone by now is an error.
ReadFile ==
  /\ pc = "read"
  /\ todo' = Tail(todo)
  /\ IF dir[Head(todo)] = Absent
     THEN Reject /\ UNCHANGED sources
     ELSE /\ sources' = Append(sources, [name |-> Head(todo), doc |-> dir[Head(todo)]])
          /\ pc' = IF todo' = <<>> THEN "parse" ELSE "read"
          /\ UNCHANGED active
  /\ UNCHANGED <<disk, opsData, loads, changes, past>>

\* NewTicker panics on an interval that is not positive, in the goroutine of
\* the worker: the whole process ends.
tickerPanics(probes) == \E i \in 1..Len(probes) : probes[i].time.interval <= 0

\* The workers are replaced (sched.Start or sched.Reload) and the config is
\* served; active.from is history.
Apply ==
  /\ active' = [probes |-> mergedProbes(sources), global |-> globalOf(sources),
                sha |-> fingerprint(sources), from |-> sources]
  /\ pc' = IF tickerPanics(mergedProbes(sources)) THEN "crashed" ELSE "up"

\* parseSources and its caller.  A panic ends the process at startup; in a
\* handler net/http recovers it, and the deferred unlock releases reloadMu.
Parse ==
  /\ pc = "parse"
  /\ LET verdict == parseSources(opsData, sources, resolves)
     IN  \/ verdict = "ok" /\ Apply
         \/ verdict = "error" /\ Reject
         \/ /\ verdict = "panic"
            /\ pc' = IF active = NoConfig THEN "crashed" ELSE "up"
            /\ UNCHANGED active
  /\ UNCHANGED <<disk, loadVars, changes, past>>

\* GET /config: 503 before the first config, then the one in force.
handleConfig == IF active = NoConfig THEN Null ELSE toConfigDump(active)

Load == BeginLoad \/ ListDir \/ ReadFile \/ Parse

Next ==
  \/ \E f \in fileNames, d \in EditDocs \cup {Absent} : Edit(f, d)
  \/ \E f, g \in fileNames : Rename(f, g)
  \/ \E o \in OpsDocs : EditOps(o)
  \/ ResolverChanges
  \/ Load

Spec == Init /\ [][Next]_vars

\* A Load that has begun runs on: file reads and lookups return.
FairSpec == Spec /\ WF_vars(ListDir \/ ReadFile \/ Parse)

-----------------------------------------------------------------------------
(* Properties *)

\* What the probers take for granted in a probe of their type.
Runnable(p) ==
  /\ p.type \in KnownTypes
  /\ p.targets # <<>> /\ p.maxIPs >= 0
  /\ p.type # "icmp" => p.block # Absent
  /\ p.type = "http" => p.block.scheme \in {"http", "https"} /\ p.block.method # ""
  /\ p.type = "tcp" => p.block.mode \in {"connect", "syn"} /\ IsPort(p.block.port)
  /\ p.type # "http" =>
       /\ p.time.packet > 0 /\ p.time.count > 0
       /\ p.time.timeout \in 1..(p.time.interval - 1)
       /\ \/ p.time.packet * p.time.count < p.time.timeout
          \/ p.time.packet * p.time.count >= Word \div 2

\* Whatever the operator leaves in the files and whenever it changes, the daemon
\* is up only with a config, and a config in force is one the rest of the program
\* can run: the factory knows every type, http.New and tcp.New find their blocks,
\* the scheduler's map has one worker per name, and the attempts of a probe that
\* is no HTTP probe fit into its timeout unless packet_interval * count overflows.
ActiveRunnable ==
  /\ pc = "up" => active # NoConfig
  /\ active # NoConfig =>
       /\ \A i \in 1..Len(active.probes) : Runnable(active.probes[i])
       /\ \A i, j \in 1..Len(active.probes) :
            active.probes[i].name = active.probes[j].name => i = j

\* The default in force for key k, by the files that were read.
DefaultFor(k, read) ==
  LET set == {s \in Range(read) : /\ s.name = GlobalFile
                                  /\ s.doc.global # Absent
                                  /\ s.doc.global[k] # Absent}
  IN  IF set = {} THEN Builtin[k] ELSE (CHOOSE s \in set : TRUE).doc.global[k]

\* _global.yaml governs every fragment, also those that sort and are read
\* before it: each probe of each file read is in force exactly once, with its
\* own timings where it has them and the defaults where it has not.
DefaultsReachEveryProbe ==
  active # NoConfig =>
    LET raws == declared(active.from)
    IN  /\ Len(active.probes) = Len(raws)
        /\ \A i \in 1..Len(raws) : \A k \in {"interval", "packet", "timeout", "count"} :
             active.probes[i].time[k] = Or(raws[i][k], DefaultFor(k, active.from))

\* The dump of /config, split by the operator: the defaults into _global.yaml,
\* the probes into a fragment, where a block that is not written is missing.
Split(dump) ==
  <<[name |-> "fragment.yaml",
     doc |-> [yaml |-> TRUE, global |-> Absent,
              probes |-> [i \in 1..Len(dump.probes) |->
                LET p == dump.probes[i]
                IN  [name |-> p.name, type |-> p.type, targets |-> p.targets, maxIPs |-> p.maxIPs,
                     source |-> p.source, labels |-> p.labels, interval |-> p.interval,
                     packet |-> p.packet, timeout |-> p.timeout, count |-> p.count,
                     block |-> Absent]]]],
    [name |-> GlobalFile, doc |-> [yaml |-> TRUE, global |-> dump.global, probes |-> Absent]]>>

\* The dump, "split across _global.yaml and a fragment", feeds back in (the
\* comment on configDump, ADR-0008) as far as the code keeps that: its defaults are
\* the ones in force, and when all probes are ICMP probes and their names resolve
\* Load takes the dump and makes the same probes of it.  Nothing is claimed of other
\* probes, whose blocks the dump leaves out.
IcmpDumpFeedsBack ==
  handleConfig # Null =>
    LET again == Split(handleConfig)
        icmp  == \A i \in 1..Len(active.probes) : active.probes[i].type = "icmp"
    IN  /\ globalOf(again) = active.global
        /\ icmp => validSources(again, Hostname) /\ mergedProbes(again) = active.probes

\* One change of one file while Load reads is seen entirely or not at all:
\* the set that is parsed was the contents of the directory at some moment.
OneChangeIsAtomic == pc = "parse" /\ changes <= 1 => sources \in past

\* The config in force never makes NewTicker panic: every interval is positive.
IntervalsPositive == active # NoConfig => ~tickerPanics(active.probes)

\* A Load comes to an end whatever becomes of the files it has listed: a
\* /reload is answered and reloadMu released.
LoadReturns == pc \in {"list", "read", "parse"} ~> pc \in {"up", "exited", "crashed"}
=============================================================================
