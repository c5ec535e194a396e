---------------------------- MODULE DaemonProofs ----------------------------
(***************************************************************************)
(* Theorems about the services that keep files or can take a change back:  *)
(* the probe runner, the registry the daemon's threads share, the clients' *)
(* configuration files, the snapshot of a change of the configuration, the *)
(* status board, the history of the routes in use and the gate for streams *)
(* that a swap may cut off.                                                *)
(* Each part ends with a theorem of the composition, as in ServiceProofs.  *)
(***************************************************************************)
EXTENDS Services, SequenceLemmas, FiniteSetTheorems

-----------------------------------------------------------------------------
(* The composition                                                         *)

\* A step is a step of each service, or leaves it as it is: the one in focus moves
\* by its own Next, and the others keep their state.
LEMMA ProbeSteps == [Next]_vars => [Probe!Next]_(Probe!vars)
  <1>1. UNCHANGED probeVars => UNCHANGED Probe!vars
    BY DEF probeVars, Probe!vars
  <1>2. UNCHANGED vars => UNCHANGED probeVars
    BY DEF vars
  <1> QED
    BY <1>1, <1>2 DEF Next, Keeps

LEMMA SyncSteps == [Next]_vars => [Sync!Next]_(Sync!vars)
  <1>1. UNCHANGED syncVars => UNCHANGED Sync!vars
    BY DEF syncVars, Sync!vars
  <1>2. UNCHANGED vars => UNCHANGED syncVars
    BY DEF vars
  <1> QED
    BY <1>1, <1>2 DEF Next, Keeps

LEMMA RegistrySteps == [Next]_vars => [Registry!Next]_(Registry!vars)
  <1>1. UNCHANGED registryVars => UNCHANGED Registry!vars
    BY DEF registryVars, Registry!vars
  <1>2. UNCHANGED vars => UNCHANGED registryVars
    BY DEF vars
  <1> QED
    BY <1>1, <1>2 DEF Next, Keeps

LEMMA ConfigSteps == [Next]_vars => [Config!Next]_(Config!vars)
  <1>1. UNCHANGED configVars => UNCHANGED Config!vars
    BY DEF configVars, Config!vars
  <1>2. UNCHANGED vars => UNCHANGED configVars
    BY DEF vars
  <1> QED
    BY <1>1, <1>2 DEF Next, Keeps

LEMMA WorkerSteps == [Next]_vars => [Worker!Next]_(Worker!vars)
  <1>1. UNCHANGED workerVars => UNCHANGED Worker!vars
    BY DEF workerVars, Worker!vars
  <1>2. UNCHANGED vars => UNCHANGED workerVars
    BY DEF vars
  <1> QED
    BY <1>1, <1>2 DEF Next, Keeps

LEMMA SwitchSteps == [Next]_vars => [Switch!Next]_(Switch!vars)
  <1>1. UNCHANGED switchVars => UNCHANGED Switch!vars
    BY DEF switchVars, Switch!vars
  <1>2. UNCHANGED vars => UNCHANGED switchVars
    BY DEF vars
  <1> QED
    BY <1>1, <1>2 DEF Next, Keeps

LEMMA FormatSteps == [Next]_vars => [Format!Next]_(Format!vars)
  <1>1. UNCHANGED formatVars => UNCHANGED Format!vars
    BY DEF formatVars, Format!vars
  <1>2. UNCHANGED vars => UNCHANGED formatVars
    BY DEF vars
  <1> QED
    BY <1>1, <1>2 DEF Next, Keeps

-----------------------------------------------------------------------------
(* ProbeRun: the two files                                                 *)

\* While the last run to end did so alone one thread at most is ending, what it took is what
\* the memory holds unless the next run has begun, and after it has written the
\* first file that file says so.
ProbeInv ==
  /\ probes \in Nat /\ probes <= MaxRuns
  /\ ending \in [Probe!Runs -> {"none", "over", "taken", "half"}]
  /\ snapshot = [r \in Probe!Runs |-> snapshot[r]]
  /\ running /\ ~stuck => probes \in Probe!Runs
  /\ ~tangled =>
       /\ \A r, q \in Probe!Runs : ending[r] # "none" /\ ending[q] # "none" => r = q
       /\ ~running /\ Probe!Quiet => statusFile = results /\ evidenceFile = results
       /\ \A r \in Probe!Runs :
            ~running => /\ ending[r] \in {"taken", "half"} => snapshot[r] = results
                        /\ ending[r] = "half" => statusFile = results

LEMMA ProbeInit == Probe!Init => ProbeInv
  BY ProbeAssumption DEF Probe!Init, ProbeInv, Probe!Runs, Probe!Nothing

LEMMA ProbeNextKeeps == ProbeInv /\ [Probe!Next]_(Probe!vars) => ProbeInv'
  <1> SUFFICES ASSUME ProbeInv, [Probe!Next]_(Probe!vars) PROVE ProbeInv'
    OBVIOUS
  <1> USE ProbeAssumption
  <1>1. ASSUME NEW scope \in SUBSET Models, Probe!Start(scope) PROVE ProbeInv'
    BY <1>1 DEF ProbeInv, Probe!Start, Probe!Runs, Probe!Quiet
  <1>2. ASSUME NEW m \in Models, Probe!StartBreaks(m) PROVE ProbeInv'
    BY <1>2 DEF ProbeInv, Probe!StartBreaks, Probe!Runs, Probe!Quiet
  <1>3. ASSUME NEW m \in Models, Probe!Probed(m) PROVE ProbeInv'
    BY <1>3 DEF ProbeInv, Probe!Probed, Probe!Runs, Probe!Quiet
  <1>4. CASE Probe!RunEnds
    BY <1>4 DEF ProbeInv, Probe!RunEnds, Probe!Runs, Probe!Quiet
  <1>5. CASE Probe!Change
    BY <1>5 DEF ProbeInv, Probe!Change, Probe!Runs, Probe!Quiet
  <1>6. CASE Probe!Restart
    BY <1>6 DEF ProbeInv, Probe!Restart, Probe!Runs, Probe!Quiet, Probe!Nothing
  <1>7. ASSUME NEW r \in Probe!Runs, Probe!Take(r) PROVE ProbeInv'
    BY <1>7 DEF ProbeInv, Probe!Take, Probe!Taken, Probe!Quiet
  <1>8. ASSUME NEW r \in Probe!Runs, Probe!WriteStatus(r) PROVE ProbeInv'
    BY <1>8 DEF ProbeInv, Probe!WriteStatus, Probe!Quiet
  <1>9. ASSUME NEW r \in Probe!Runs, Probe!WriteEvidence(r) PROVE ProbeInv'
    BY <1>9 DEF ProbeInv, Probe!WriteEvidence, Probe!Quiet
  <1>10. ASSUME NEW r \in Probe!Runs, Probe!WriteFails(r) PROVE ProbeInv'
    BY <1>10 DEF ProbeInv, Probe!WriteFails, Probe!Quiet
  <1>11. CASE UNCHANGED Probe!vars
    BY <1>11 DEF ProbeInv, Probe!vars, Probe!Quiet
  <1> QED
    BY <1>1, <1>2, <1>3, <1>4, <1>5, <1>6, <1>7, <1>8, <1>9, <1>10, <1>11 DEF Probe!Next

\* Whenever nothing runs and nothing is ending, and the last run ended alone and
\* wrote its files, they and the memory agree, whatever earlier runs, failed
\* writes or restarts left: probe.py's finish.
THEOREM ProbeFilesAgree == Spec => []FilesTellTheResults
  <1>1. ProbeInv => FilesTellTheResults
    BY DEF ProbeInv, Probe!FilesTellTheResults, FilesTellTheResults
  <1>2. Init => ProbeInv
    BY ProbeInit DEF Init
  <1>3. ProbeInv /\ [Next]_vars => ProbeInv'
    BY ProbeNextKeeps, ProbeSteps
  <1> QED
    BY <1>1, <1>2, <1>3, PTL DEF Spec

-----------------------------------------------------------------------------
(* RouteConfig: the snapshot                                               *)

\* The slot's fingerprint is of the configuration before the last change, and
\* the slot is empty before the first.
ConfigInv ==
  /\ routes \in Configs /\ events \in Nat /\ change.count \in Nat
  /\ change = [before |-> change.before, count |-> change.count]
  /\ change.count = 0 <=> slot = Config!NoSnapshot
  /\ slot = [routes |-> slot.routes, fingerprint |-> slot.fingerprint]
  /\ slot # Config!NoSnapshot =>
       slot.fingerprint = change.before /\ change.before \in Configs

LEMMA ConfigInit == Config!Init => ConfigInv
  BY DEF Config!Init, ConfigInv, Config!NoSnapshot, Config!None

LEMMA ConfigNextKeeps == ConfigInv /\ [Config!Next]_(Config!vars) => ConfigInv'
  <1> SUFFICES ASSUME ConfigInv, [Config!Next]_(Config!vars) PROVE ConfigInv'
    OBVIOUS
  <1> USE ConfigAssumption
  <1>1. ASSUME NEW c \in Configs, Config!Apply(c) PROVE ConfigInv'
    BY <1>1 DEF ConfigInv, Config!Apply, Config!Snapshot, Config!NoSnapshot, Config!None
  <1>2. ASSUME NEW c \in Configs, Config!Tamper(c) PROVE ConfigInv'
    BY <1>2 DEF ConfigInv, Config!Tamper, Config!NoSnapshot, Config!None
  <1>3. CASE Config!Unhealthy
    BY <1>3 DEF ConfigInv, Config!Unhealthy, Config!Verified
  <1>4. CASE UNCHANGED Config!vars
    BY <1>4 DEF ConfigInv, Config!vars
  <1> QED
    BY <1>1, <1>2, <1>3, <1>4 DEF Config!Next

LEMMA ConfigRestores == ConfigInv /\ [Config!Next]_(Config!vars) => [Config!Restores]_(Config!vars)
  <1> SUFFICES ASSUME ConfigInv, Config!Next PROVE Config!Restores
    OBVIOUS
  <1>1. ASSUME NEW c \in Configs, Config!Apply(c) PROVE Config!Restores
    <2>1. change'.count # change.count /\ events' = events
      BY <1>1 DEF ConfigInv, Config!Apply
    <2> QED
      BY <2>1 DEF Config!Restores
  <1>2. ASSUME NEW c \in Configs, Config!Tamper(c) PROVE Config!Restores
    BY <1>2 DEF Config!Tamper, Config!Restores
  <1>3. CASE Config!Unhealthy
    BY <1>3 DEF ConfigInv, Config!Unhealthy, Config!Verified, Config!Restores
  <1> QED
    BY <1>1, <1>2, <1>3 DEF Config!Next

\* A rollback that is recorded brings back the configuration before the last
\* change, and nothing else but a change moves it: maybe_auto_rollback.
THEOREM ConfigRollsBack == Spec => RollbackRestores
  <1>1. Init => ConfigInv
    BY ConfigInit DEF Init
  <1>2. ConfigInv /\ [Next]_vars => ConfigInv'
    BY ConfigNextKeeps, ConfigSteps
  <1>3. ConfigInv /\ [Next]_vars => [Config!Restores]_(Config!vars)
    BY ConfigRestores, ConfigSteps
  <1> QED
    BY <1>1, <1>2, <1>3, PTL DEF Spec, RollbackRestores, Config!RollbackRestores

-----------------------------------------------------------------------------
(* AgentSync: what a sync leaves in a client's file                        *)

\* The clients that have one entry for the router, of its own name, and those
\* that keep a default model of ours.
OneEntry == {"claude", "openclaw", "codex"}
KeepsDefault == {"kimi", "openclaw"}

\* A file as some sync or its user left it.
SyncFile(f) ==
  /\ f = [state |-> f.state, entries |-> f.entries, default |-> f.default]
  /\ \A e \in f.entries : e.by = "router" =>
       e.to \in Sync!Routers /\ (client \in OneEntry => e.name = "open-free-router")
  /\ client \notin KeepsDefault => f.default \notin Providers

\* A file that tells of the router what a registry of those names does, at that
\* address, but for what the writers overlook.
Present(e, names, at) == e.to = at /\ (e.name \in names \/ client \in OneEntry)

Tells(f, names, at) ==
  client \notin {"pi", "hermes"} =>
    /\ \A e \in f.entries : e.by = "router" =>
         Present(e, names, at) \/ Sync!Overlooked(e, names, at)
    /\ client \notin OneEntry => \A n \in names : Sync!Entry(n, at, "router") \in f.entries
    /\ names # {} /\ f.default \in Providers => f.default \in names

SyncInv ==
  /\ url \in Sync!Routers /\ client \in Sync!Clients
  /\ SyncFile(config) /\ SyncFile(backup)
  /\ sync = [at |-> sync.at, file |-> sync.file, of |-> sync.of]
  /\ sync.at # "none" =>
       SyncFile(sync.file) /\ Tells(sync.file, sync.of[1], sync.of[2])
  /\ fresh => sync.at # "open" /\ Tells(config, provided, url)

LEMMA SyncInit == Sync!Init => SyncInv
  <1> SUFFICES ASSUME Sync!Init PROVE SyncInv
    OBVIOUS
  <1>1. \A s : SyncFile(Sync!File(s, {}, "none"))
    BY SyncAssumption DEF SyncFile, Sync!File
  <1>2. SyncFile(config) /\ SyncFile(backup)
    BY <1>1 DEF Sync!Init
  <1> QED
    BY <1>2 DEF Sync!Init, SyncInv, Sync!NoSync

\* The names of our entries are those we were given.
LEMMA OursNames == \A names : {o.name : o \in Sync!Ours(names)} = names
  <1> SUFFICES ASSUME NEW names, NEW n
               PROVE  n \in {o.name : o \in Sync!Ours(names)} <=> n \in names
    OBVIOUS
  <1>1. ASSUME n \in names PROVE n \in {o.name : o \in Sync!Ours(names)}
    <2>1. Sync!Entry(n, url, "router") \in Sync!Ours(names)
      BY <1>1 DEF Sync!Ours
    <2>2. Sync!Entry(n, url, "router").name = n
      BY DEF Sync!Entry
    <2> QED
      BY <2>1, <2>2
  <1>2. ASSUME NEW o \in Sync!Ours(names) PROVE o.name \in names
    BY DEF Sync!Ours, Sync!Entry
  <1> QED
    BY <1>1, <1>2

\* What every sync but Pi's and Hermes' writes: entries of others, ours that are
\* overlooked, and ours of now.
LEMMA SyncWrites ==
    ASSUME SyncInv, NEW A, A \subseteq config.entries,
           \A e \in A : e.by = "router" => Sync!Overlooked(e, provided, url),
           NEW names, IF client \in OneEntry THEN names = {"open-free-router"}
                                             ELSE names = provided,
           NEW d, client \notin KeepsDefault => d \notin Providers,
           provided # {} /\ d \in Providers => d \in provided
    PROVE  /\ SyncFile(Sync!Written(A \cup Sync!Ours(names), d))
           /\ Tells(Sync!Written(A \cup Sync!Ours(names), d), provided, url)
  <1> DEFINE E == A \cup Sync!Ours(names)
  <1>1. \A e \in Sync!Ours(names) : e.by = "router" /\ e.to = url /\ e.name \in names
    BY DEF Sync!Ours, Sync!Entry
  <1>2. \A n \in names : Sync!Entry(n, url, "router") \in E
    BY DEF Sync!Ours
  <1>3. \A e \in E : e.by = "router" =>
          Present(e, provided, url) \/ Sync!Overlooked(e, provided, url)
    BY <1>1 DEF Present
  <1>4. \A e \in E : e.by = "router" =>
          e.to \in Sync!Routers /\ (client \in OneEntry => e.name = "open-free-router")
    BY <1>1 DEF SyncInv, SyncFile
  <1>5. SyncFile(Sync!Written(E, d))
    BY <1>4 DEF SyncFile, Sync!Written, Sync!File
  <1>6. Tells(Sync!Written(E, d), provided, url)
    <2>1. client \notin OneEntry => \A n \in provided : Sync!Entry(n, url, "router") \in E
      BY <1>2
    <2> HIDE DEF E
    <2> QED
      BY <1>3, <2>1 DEF Tells, Sync!Written, Sync!File
  <1> QED
    BY <1>5, <1>6

\* Pi and Hermes keep what they wrote for another address: no more is said of them
\* than that it is a file.
LEMMA SyncAppends ==
    ASSUME SyncInv, client \in {"pi", "hermes"}, NEW f,
           NEW A, A \subseteq config.entries, NEW names, 
           f = Sync!Written(A \cup Sync!Ours(names), config.default)
    PROVE  SyncFile(f) /\ Tells(f, provided, url)
  <1>1. \A e \in Sync!Ours(names) : e.to = url
    BY DEF Sync!Ours, Sync!Entry
  <1>2. client \notin OneEntry /\ client \notin KeepsDefault
    BY DEF OneEntry, KeepsDefault
  <1> QED
    BY <1>1, <1>2 DEF SyncInv, SyncFile, Tells, Sync!Written, Sync!File

\* What a sync would write tells of the registry there is.
LEMMA SyncWanted ==
    ASSUME SyncInv, NEW explicit \in BOOLEAN, NEW f \in Sync!Wanted(explicit)
    PROVE  SyncFile(f) /\ Tells(f, provided, url)
  <1>f. \A e \in Sync!Foreign :
          /\ e \in config.entries /\ e.to \notin Sync!Local
          /\ client \in {"openclaw", "workbuddy"} => e.to # url
    BY DEF Sync!Foreign, Sync!PointsToLocalProxy
  <1>k. ASSUME NEW entries, NEW names
        PROVE  Sync!Keyed(entries, Sync!Ours(names)) =
                 {e \in entries : e.name \notin names} \cup Sync!Ours(names)
    BY OursNames DEF Sync!Keyed
  <1>d. /\ client \notin KeepsDefault => config.default \notin Providers
        /\ "theirs" \notin Providers /\ "none" \notin Providers
    BY SyncAssumption DEF SyncInv, SyncFile
  <1>1. CASE client = "pi"
    <2>1. f \in Sync!SyncPi
      BY <1>1 DEF Sync!Wanted
    <2>2. f = Sync!Written(Sync!Keyed({e \in config.entries : e.to # url},
                                      Sync!Ours(provided)), config.default)
      BY <2>1 DEF Sync!SyncPi
    <2> DEFINE A == {e \in {x \in config.entries : x.to # url} : e.name \notin provided}
    <2>3. A \subseteq config.entries
          /\ f = Sync!Written(A \cup Sync!Ours(provided), config.default)
      BY <2>2, <1>k
    <2> HIDE DEF A
    <2> QED
      BY <1>1, <2>3, SyncAppends
  <1>2. CASE client = "hermes"
    <2>1. f \in Sync!SyncHermes
      BY <1>2 DEF Sync!Wanted
    <2>2. f = Sync!Written(config.entries \cup Sync!Ours({"open-free-router"}), config.default)
      BY <2>1 DEF Sync!SyncHermes
    <2> QED
      BY <1>2, <2>2, SyncAppends
  <1>3. CASE client \in {"omp", "opencode"}
    <2>1. f = Sync!Written(Sync!Keyed(Sync!Foreign, Sync!Ours(provided)), config.default)
      BY <1>3 DEF Sync!Wanted, Sync!SyncOmp, Sync!SyncOpencode
    <2> DEFINE A == {e \in Sync!Foreign : e.name \notin provided}
    <2>2. f = Sync!Written(A \cup Sync!Ours(provided), config.default)
      BY <2>1, <1>k
    <2>3. client \notin OneEntry /\ client \notin KeepsDefault
      BY <1>3 DEF OneEntry, KeepsDefault
    <2>4. A \subseteq config.entries /\ \A e \in A : Sync!Overlooked(e, provided, url)
      BY <1>3, <1>f DEF Sync!Overlooked
    <2> HIDE DEF A
    <2> QED
      BY <1>d, <2>2, <2>3, <2>4, SyncWrites
  <1>4. CASE client = "workbuddy"
    <2>1. f \in Sync!SyncWorkbuddy(explicit)
      BY <1>4 DEF Sync!Wanted
    <2>2. f = Sync!Written(Sync!Foreign \cup Sync!Ours(provided), config.default)
      BY <2>1 DEF Sync!SyncWorkbuddy
    <2>3. client \notin OneEntry /\ client \notin KeepsDefault
      BY <1>4 DEF OneEntry, KeepsDefault
    <2>4. Sync!Foreign \subseteq config.entries
          /\ \A e \in Sync!Foreign : Sync!Overlooked(e, provided, url)
      BY <1>4, <1>f DEF Sync!Overlooked
    <2> QED
      BY <1>d, <2>2, <2>3, <2>4, SyncWrites
  <1>5. CASE client = "claude"
    <2>1. f \in Sync!SyncClaude(explicit)
      BY <1>5 DEF Sync!Wanted
    <2>2. f = Sync!Written(Sync!Keyed(config.entries, Sync!Ours({"open-free-router"})),
                           config.default)
      BY <2>1 DEF Sync!SyncClaude
    <2> DEFINE A == {e \in config.entries : e.name \notin {"open-free-router"}}
    <2>3. f = Sync!Written(A \cup Sync!Ours({"open-free-router"}), config.default)
      BY <2>2, <1>k
    <2>4. client \in OneEntry /\ client \notin KeepsDefault
      BY <1>5 DEF OneEntry, KeepsDefault
    <2>5. A \subseteq config.entries /\ \A e \in A : e.by # "router"
      BY <2>4 DEF SyncInv, SyncFile
    <2> HIDE DEF A
    <2> QED
      BY <1>d, <2>3, <2>4, <2>5, SyncWrites
  <1>6. CASE client = "codex"
    <2>1. f \in Sync!SyncCodex(explicit)
      BY <1>6 DEF Sync!Wanted
    <2>2. f = Sync!Written({} \cup Sync!Ours({"open-free-router"}), "none")
      BY <2>1 DEF Sync!SyncCodex
    <2>3. client \in OneEntry
      BY <1>6 DEF OneEntry
    <2>4. {} \subseteq config.entries
          /\ \A e \in {} : e.by = "router" => Sync!Overlooked(e, provided, url)
      OBVIOUS
    <2> QED
      BY <1>d, <2>2, <2>3, <2>4, SyncWrites
  <1>7. CASE client = "kimi"
    <2>1. f \in Sync!SyncKimi(explicit)
      BY <1>7 DEF Sync!Wanted
    <2> DEFINE A == {e \in config.entries : e.by # "router"}
    <2>2. PICK d \in IF provided = {} \/ config.default = "theirs"
                     THEN {config.default} ELSE provided :
            f = Sync!Written(A \cup Sync!Ours(provided), d)
      BY <2>1 DEF Sync!SyncKimi
    <2>3. client \notin OneEntry /\ client \in KeepsDefault
      BY <1>7 DEF OneEntry, KeepsDefault
    <2>4. A \subseteq config.entries /\ \A e \in A : e.by # "router"
      OBVIOUS
    <2>5. provided # {} /\ d \in Providers => d \in provided
      BY <1>d, <2>2
    <2> HIDE DEF A
    <2> QED
      BY <2>2, <2>3, <2>4, <2>5, SyncWrites
  <1>8. CASE client = "openclaw"
    <2>1. f \in Sync!SyncOpenclaw(explicit)
      BY <1>8 DEF Sync!Wanted
    <2> DEFINE A == {e \in Sync!Foreign : e.name \notin {"open-free-router"}}
    <2>2. PICK d : /\ f = Sync!Written(Sync!Keyed(Sync!Foreign,
                                                  Sync!Ours({"open-free-router"})), d)
                   /\ \/ d \in provided
                      \/ /\ d = config.default
                         /\ \/ provided = {} \/ config.default = "theirs"
                            \/ config.default \notin {"none"} \cup (Providers \ provided)
      BY <2>1 DEF Sync!SyncOpenclaw
    <2>3. f = Sync!Written(A \cup Sync!Ours({"open-free-router"}), d)
      BY <2>2, <1>k
    <2>4. client \in OneEntry /\ client \in KeepsDefault
      BY <1>8 DEF OneEntry, KeepsDefault
    <2>5. A \subseteq config.entries /\ \A e \in A : e.by # "router"
      BY <1>f, <2>4 DEF SyncInv, SyncFile
    <2>6. provided # {} /\ d \in Providers => d \in provided
      BY <1>d, <2>2
    <2> HIDE DEF A
    <2> QED
      BY <2>3, <2>4, <2>5, <2>6, SyncWrites
  <1> QED
    BY <1>1, <1>2, <1>3, <1>4, <1>5, <1>6, <1>7, <1>8 DEF SyncInv, Sync!Clients

\* A sync takes what it will write from the registry of now, and what it writes is
\* current if that is the registry still.
LEMMA SyncNextKeeps == SyncInv /\ [Sync!Next]_(Sync!vars) => SyncInv'
  <1> SUFFICES ASSUME SyncInv, [Sync!Next]_(Sync!vars) PROVE SyncInv'
    OBVIOUS
  <1>e. \A s : SyncFile(Sync!File(s, {}, "none"))
    BY SyncAssumption DEF SyncFile, Sync!File
  <1>1. ASSUME NEW explicit \in BOOLEAN, Sync!Read(explicit) PROVE SyncInv'
    <2>1. /\ UNCHANGED <<client, config, provided, url, fresh>>
          /\ backup' \in {backup, config}
      BY <1>1 DEF Sync!Read
    <2>2. \/ UNCHANGED sync
          \/ \E f \in Sync!Wanted(explicit) :
               sync' = [at |-> "read", file |-> f, of |-> <<provided, url>>]
      BY <1>1 DEF Sync!Read
    <2>3. CASE UNCHANGED sync
      BY <2>1, <2>3 DEF SyncInv, SyncFile, Tells, Present, Sync!Overlooked
    <2>4. ASSUME NEW f \in Sync!Wanted(explicit),
                 sync' = [at |-> "read", file |-> f, of |-> <<provided, url>>]
          PROVE  SyncInv'
      <3>1. SyncFile(f) /\ Tells(f, provided, url)
        BY SyncWanted
      <3>2. /\ sync'.at = "read" /\ sync'.file = f
            /\ sync'.of[1] = provided /\ sync'.of[2] = url
            /\ sync' = [at |-> sync'.at, file |-> sync'.file, of |-> sync'.of]
        BY <2>4
      <3> QED
        BY <2>1, <3>1, <3>2 DEF SyncInv, SyncFile, Tells, Present, Sync!Overlooked
    <2> QED
      BY <2>2, <2>3, <2>4
  <1>2. CASE Sync!Open
    <2>1. /\ sync.at = "read" /\ sync' = [sync EXCEPT !.at = "open"]
          /\ config' = Sync!File("empty", {}, "none") /\ fresh' = FALSE
          /\ UNCHANGED <<client, backup, provided, url>>
      BY <1>2 DEF Sync!Open
    <2>2. /\ sync'.at = "open" /\ sync'.file = sync.file /\ sync'.of = sync.of
          /\ sync' = [at |-> sync'.at, file |-> sync'.file, of |-> sync'.of]
      BY <2>1 DEF SyncInv
    <2> QED
      BY <1>e, <2>1, <2>2 DEF SyncInv, SyncFile, Tells, Present, Sync!Overlooked
  <1>3. CASE Sync!Write
    <2>1. /\ sync.at = "open" /\ sync' = Sync!NoSync /\ config' = sync.file
          /\ fresh' = (sync.of = <<provided, url>>)
          /\ UNCHANGED <<client, backup, provided, url>>
      BY <1>3 DEF Sync!Write
    <2>2. sync'.at = "none" /\ sync' = [at |-> sync'.at, file |-> sync'.file, of |-> sync'.of]
      BY <2>1 DEF Sync!NoSync
    <2>3. ASSUME fresh' PROVE sync.of[1] = provided /\ sync.of[2] = url
      <3>1. sync.of = <<provided, url>>
        BY ZenonT(60), <2>1, <2>3
      <3> QED
        BY <3>1
    <2> QED
      BY <2>1, <2>2, <2>3 DEF SyncInv, SyncFile, Tells, Present, Sync!Overlooked
  <1>4. CASE Sync!CutShort
    <2>1. /\ sync' = Sync!NoSync /\ UNCHANGED <<client, backup, provided, url, fresh>>
          /\ \/ UNCHANGED config
             \/ sync.at = "open" /\ config' = Sync!File("broken", {}, "none")
      BY <1>4 DEF Sync!CutShort
    <2>2. sync'.at = "none" /\ sync' = [at |-> sync'.at, file |-> sync'.file, of |-> sync'.of]
      BY <2>1 DEF Sync!NoSync
    <2>3. CASE UNCHANGED config
      BY <2>1, <2>2, <2>3 DEF SyncInv, SyncFile, Tells, Present, Sync!Overlooked
    <2>4. CASE sync.at = "open" /\ config' = Sync!File("broken", {}, "none")
      BY <1>e, <2>1, <2>2, <2>4 DEF SyncInv, SyncFile, Tells, Present, Sync!Overlooked
    <2> QED
      BY <2>1, <2>3, <2>4
  <1>5. CASE Sync!ChangeRegistry
    BY <1>5 DEF Sync!ChangeRegistry, SyncInv, SyncFile, Tells, Present, Sync!Overlooked
  <1>6. CASE Sync!ChangeAddress
    BY <1>6 DEF Sync!ChangeAddress, Sync!NoSync, SyncInv, SyncFile
  <1>7. CASE Sync!UserRestores
    BY <1>7 DEF Sync!UserRestores, SyncInv, SyncFile, Tells, Present, Sync!Overlooked
  <1>8. ASSUME NEW n \in UserNames, NEW to \in {"machine", "remote"}, Sync!UserAdds(n, to)
        PROVE  SyncInv'
    <2>1. /\ sync.at # "open" /\ UNCHANGED <<client, backup, provided, url, sync, fresh>>
          /\ \E d \in {config.default, "theirs"} :
               config' = Sync!File("whole",
                                   config.entries \cup {Sync!Entry(n, to, "user")}, d)
      BY <1>8 DEF Sync!UserAdds
    <2>2. PICK d \in {config.default, "theirs"} :
            config' = Sync!File("whole", config.entries \cup {Sync!Entry(n, to, "user")}, d)
      BY <2>1
    <2>3. /\ config'.default = d
          /\ d # config.default => d \notin Providers
          /\ config'.entries = config.entries \cup {Sync!Entry(n, to, "user")}
          /\ config' = [state |-> config'.state, entries |-> config'.entries,
                        default |-> config'.default]
      BY <2>2, SyncAssumption DEF Sync!File
    <2>4. Sync!Entry(n, to, "user").by # "router"
      BY DEF Sync!Entry
    <2>6. SyncFile(config)'
      BY <2>1, <2>3, <2>4 DEF SyncInv, SyncFile
    <2>7. fresh' => Tells(config, provided, url)'
      <3> SUFFICES ASSUME fresh, client \notin {"pi", "hermes"}
                   PROVE  Tells(config, provided, url)'
        BY <2>1 DEF Tells, Present, Sync!Overlooked
      <3>1. \A e \in config'.entries : e.by = "router" =>
              Present(e, provided, url) \/ Sync!Overlooked(e, provided, url)
        BY <2>3, <2>4 DEF SyncInv, Tells
      <3>2. client \notin OneEntry =>
              \A m \in provided : Sync!Entry(m, url, "router") \in config'.entries
        BY <2>3 DEF SyncInv, Tells
      <3>3. provided # {} /\ config'.default \in Providers => config'.default \in provided
        BY <2>3 DEF SyncInv, Tells
      <3> QED
        BY <2>1, <3>1, <3>2, <3>3 DEF Tells, Present, Sync!Overlooked
    <2> QED
      BY <2>1, <2>6, <2>7 DEF SyncInv, SyncFile, Tells, Present, Sync!Overlooked
  <1>9. CASE UNCHANGED Sync!vars
    BY <1>9 DEF Sync!vars, SyncInv, SyncFile, Tells, Present, Sync!Overlooked
  <1> QED
    BY <1>1, <1>2, <1>3, <1>4, <1>5, <1>6, <1>7, <1>8, <1>9 DEF Sync!Next

\* After a sync, until the registry or the address changes, a client's file holds
\* the router's entries of the registry, no others but what its writer overlooks of
\* a host that is not loopback, and no default of ours that is gone, whatever its
\* user does in between and wherever the router was before: the writers of sync.py.
THEOREM SyncIsCurrent == Spec => []RouterEntriesAreCurrent
  <1>1. SyncInv => RouterEntriesAreCurrent
    BY DEF SyncInv, Tells, Present, OneEntry, Sync!Ours, Sync!RouterEntriesAreCurrent,
           RouterEntriesAreCurrent
  <1>2. Init => SyncInv
    BY SyncInit DEF Init
  <1>3. SyncInv /\ [Next]_vars => SyncInv'
    BY SyncNextKeeps, SyncSteps
  <1> QED
    BY <1>1, <1>2, <1>3, PTL DEF Spec

-----------------------------------------------------------------------------
(* RegistryStore: what a quiet daemon has saved                            *)

WorkAts == {"idle", "dead", "between", "asked", "loaded", "changed", "open", "copying", "dumping"}
IsWork(w) ==
  \E T, N, H, C : w \in [at : WorkAts, todo : T, name : N, held : H, changed : BOOLEAN, copy : C]

\* A thread that has still to begin a save: for a change of its own, or for a
\* refresh that changed a provider.
ToSave(w) == w.at = "changed" \/ (w.at \in {"between", "asked"} /\ w.changed)
InSave(w) == w.at \in {"open", "copying", "dumping"}

\* What a save has read of the registry is what is there.
Fresh(w, held) ==
  /\ InSave(w)
  /\ w.at \in {"copying", "dumping"} =>
       \A n \in DOMAIN w.copy : w.copy[n] = held[n]
  /\ w.at = "dumping" => DOMAIN held \subseteq DOMAIN w.copy

Saved == \A n \in DOMAIN mem \ Gateways : n \in DOMAIN file.reg /\ file.reg[n] = mem[n]

\* Unless the last save met another one, or one failed or another process wrote
\* since: what is not in the file is some thread's to save, or what the one
\* thread that is saving has read; and that one has the file for itself.
Alone(t) == \A b \in Registry!Actors \ {t} : ~InSave(work[b])
Due ==
  \/ \E t \in Registry!Threads : ToSave(work[t])
  \/ Saved /\ \A t \in Registry!Threads : ~InSave(work[t])
  \/ \E t \in Registry!Threads : Fresh(work[t], mem)

RegistryInv ==
  /\ work = [a \in Registry!Actors |-> work[a]]
  /\ \A a \in Registry!Actors : IsWork(work[a])
  /\ up /\ ~behind =>
       /\ Due
       /\ \A t \in Registry!Threads : InSave(work[t]) => file.state = "torn" /\ Alone(t)

LEMMA RegistryNames ==
    /\ Registry!Threads \subseteq Registry!Actors /\ "cli" \in Registry!Actors
    /\ "cli" \notin Registry!Threads /\ Registry!Actors = Registry!Threads \cup {"cli"}
    /\ "page" \in Registry!Threads /\ "discovery" \in Registry!Threads
  BY DEF Registry!Threads, Registry!Actors

\* The forms a thread's work is given are forms of a work.
LEMMA WorkForms ==
    /\ IsWork(Registry!Idle) /\ IsWork(Registry!Saving) /\ IsWork(Registry!Dead)
    /\ Registry!Idle.at = "idle" /\ Registry!Saving.at = "changed" /\ Registry!Dead.at = "dead"
    /\ Registry!Idle.changed = FALSE
  <1> DEFINE W(T, C) == [at : WorkAts, todo : T, name : {""}, held : {""}, changed : BOOLEAN,
                         copy : C]
  <1>1. /\ Registry!Idle \in W({{}}, {Registry!Nothing}) /\ Registry!Idle.at = "idle"
        /\ Registry!Idle.changed = FALSE
    BY DEF Registry!Idle, WorkAts
  <1>2. ASSUME NEW s \in {"changed", "dead"}
        PROVE  /\ [Registry!Idle EXCEPT !.at = s] \in W({{}}, {Registry!Nothing})
               /\ [Registry!Idle EXCEPT !.at = s].at = s
    BY <1>1 DEF WorkAts
  <1>3. \A T, C : \A w \in W(T, C) : IsWork(w)
    BY DEF IsWork
  <1> QED
    BY <1>1, <1>2, <1>3 DEF Registry!Saving, Registry!Dead

LEMMA RegistryInit == Registry!Init => RegistryInv
  <1> SUFFICES ASSUME Registry!Init PROVE RegistryInv
    OBVIOUS
  <1>1. \A a \in Registry!Actors : work[a] = Registry!Idle
    BY DEF Registry!Init
  <1> QED
    BY <1>1, WorkForms DEF Registry!Init, RegistryInv

\* One actor goes on outside a save: if it had a save to begin it has still, or
\* something failed, and the file and the registry are as they were.
LEMMA RegistryGoesOn ==
    ASSUME RegistryInv, NEW a \in Registry!Actors, NEW w, IsWork(w),
           work' = [work EXCEPT ![a] = w], UNCHANGED <<mem, file, up>>,
           ~behind' => /\ ~behind
                       /\ a \in Registry!Threads /\ ToSave(work[a]) => ToSave(w)
                       /\ ~InSave(work[a]) /\ ~InSave(w)
    PROVE  RegistryInv'
  <1>1. work'[a] = w /\ \A b \in Registry!Actors \ {a} : work'[b] = work[b]
    BY DEF RegistryInv
  <1>2. \A b \in Registry!Actors : IsWork(work'[b])
    BY <1>1 DEF RegistryInv
  <1>3. work' = [b \in Registry!Actors |-> work'[b]]
    BY DEF RegistryInv
  <1>4. ASSUME up', ~behind'
        PROVE  /\ Due'
               /\ \A t \in Registry!Threads : InSave(work'[t]) => file'.state = "torn" /\ Alone(t)'
    <2>1. /\ Due /\ ~InSave(work[a]) /\ ~InSave(w)
          /\ a \in Registry!Threads /\ ToSave(work[a]) => ToSave(w)
          /\ \A t \in Registry!Threads : InSave(work[t]) => file.state = "torn" /\ Alone(t)
      BY <1>4 DEF RegistryInv
    <2>2. \A b \in Registry!Actors : InSave(work'[b]) <=> InSave(work[b])
      BY <1>1, <2>1
    <2>3. ASSUME NEW t \in Registry!Threads
          PROVE  /\ ToSave(work[t]) => ToSave(work'[t])
                 /\ Fresh(work[t], mem) => Fresh(work'[t], mem')
      BY <1>1, <2>1, RegistryNames DEF Fresh
    <2>4. Due'
      BY <2>1, <2>2, <2>3, RegistryNames DEF Due, Saved
    <2> QED
      BY <2>1, <2>2, <2>4, RegistryNames DEF Alone
  <1> QED
    BY <1>2, <1>3, <1>4 DEF RegistryInv

\* One thread has a save to begin from now on, whatever became of the registry.
LEMMA RegistryToSave ==
    ASSUME RegistryInv, NEW t \in Registry!Threads, UNCHANGED <<up, file, behind>>,
           work' = [a \in Registry!Actors |-> work'[a]],
           \A a \in Registry!Actors : IsWork(work'[a]),
           \A a \in Registry!Actors : InSave(work'[a]) <=> InSave(work[a]),
           ToSave(work'[t])
    PROVE  RegistryInv'
  BY RegistryNames DEF RegistryInv, Due, Alone

LEMMA RegistryAnswerKeeps ==
    ASSUME RegistryInv, NEW t \in Registry!Threads, Registry!Answer(t) PROVE RegistryInv'
  <1>1. PICK list \in Lists \cup {"none"}, changed \in BOOLEAN :
          /\ mem' = IF changed THEN [mem EXCEPT ![work[t].name] = list] ELSE mem
          /\ work' = [work EXCEPT ![t] =
               [Registry!Idle EXCEPT !.at = "between", !.todo = work[t].todo,
                                     !.changed = Registry!Results(work[t], changed)]]
    BY DEF Registry!Answer
  <1>2. work[t].at = "asked" /\ UNCHANGED <<up, file, behind>> /\ t \in Registry!Actors
    BY RegistryNames DEF Registry!Answer
  <1> DEFINE or == work[t].changed \/ changed
             w == [Registry!Idle EXCEPT !.at = "between", !.todo = work[t].todo, !.changed = or]
  <1>3. work' = [work EXCEPT ![t] = w]
    BY <1>1 DEF Registry!Results
  <1>4. IsWork(w) /\ w.at = "between" /\ w.changed = (work[t].changed \/ changed)
    <2>1. or \in BOOLEAN
      OBVIOUS
    <2>2. ASSUME NEW c \in BOOLEAN, NEW todo, NEW v,
                 v = [Registry!Idle EXCEPT !.at = "between", !.todo = todo, !.changed = c]
          PROVE  /\ v \in [at : WorkAts, todo : {todo}, name : {""}, held : {""},
                           changed : BOOLEAN, copy : {Registry!Nothing}]
                 /\ v.at = "between" /\ v.changed = c
      BY <2>2 DEF Registry!Idle, WorkAts
    <2> HIDE DEF or, w
    <2>3. IsWork(w) /\ w.at = "between" /\ w.changed = or
      BY <2>1, <2>2 DEF IsWork, w
    <2> QED
      BY <2>3 DEF or
  <1> HIDE DEF w
  <1>5. /\ ~InSave(work[t]) /\ ~InSave(w)
        /\ ToSave(work[t]) <=> work[t].changed
        /\ ToSave(w) <=> w.changed
    BY <1>2, <1>4 DEF InSave, ToSave
  <1>6. CASE changed
    <2>1. work'[t] = w /\ \A a \in Registry!Actors \ {t} : work'[a] = work[a]
      BY <1>2, <1>3 DEF RegistryInv
    <2>2. work' = [a \in Registry!Actors |-> work'[a]]
      BY <1>3 DEF RegistryInv
    <2>3. /\ \A a \in Registry!Actors : IsWork(work'[a])
          /\ \A a \in Registry!Actors : InSave(work'[a]) <=> InSave(work[a])
      BY <1>4, <1>5, <2>1 DEF RegistryInv
    <2>4. ToSave(w)
      BY <1>4, <1>5, <1>6
    <2> QED
      BY <1>2, <2>1, <2>2, <2>3, <2>4, RegistryToSave
  <1>7. CASE ~changed
    <2>1. mem' = mem /\ (ToSave(work[t]) => ToSave(w))
      BY <1>1, <1>4, <1>5, <1>7
    <2> QED
      BY <1>2, <1>3, <1>4, <1>5, <2>1, RegistryGoesOn
  <1> QED
    BY <1>6, <1>7

\* What the page puts is its own to save; a refresh that asked for the provider
\* goes on with the object it holds.
LEMMA RegistryPutKeeps ==
    ASSUME RegistryInv, NEW n, NEW list, Registry!Put(n, list) PROVE RegistryInv'
  <1>1. /\ work' = [t \in Registry!Actors |->
                      IF t = "page" THEN Registry!Saving
                      ELSE IF work[t].at = "asked" /\ work[t].name = n /\ work[t].held = ""
                           THEN [work[t] EXCEPT !.held = mem[n]] ELSE work[t]]
        /\ work["page"] = Registry!Idle /\ UNCHANGED <<up, file, behind>>
    BY DEF Registry!Put
  <1>2. ~InSave(work["page"]) /\ ~InSave(work'["page"]) /\ ToSave(work'["page"])
    BY <1>1, WorkForms, RegistryNames DEF InSave, ToSave
  <1>3. ASSUME NEW a \in Registry!Actors
        PROVE  IsWork(work'[a]) /\ (InSave(work'[a]) <=> InSave(work[a]))
    <2>1. \A h : IsWork([work[a] EXCEPT !.held = h]) /\ [work[a] EXCEPT !.held = h].at = work[a].at
      <3>1. PICK T, N, H, C :
              work[a] \in [at : WorkAts, todo : T, name : N, held : H, changed : BOOLEAN, copy : C]
        BY DEF RegistryInv, IsWork
      <3>2. \A h : /\ [work[a] EXCEPT !.held = h]
                           \in [at : WorkAts, todo : T, name : N, held : {h}, changed : BOOLEAN, copy : C]
                   /\ [work[a] EXCEPT !.held = h].at = work[a].at
        BY <3>1
      <3> QED
        BY <3>2 DEF IsWork
    <2> QED
      BY <1>1, <1>2, <2>1, WorkForms DEF RegistryInv, InSave
  <1>4. work' = [a \in Registry!Actors |-> work'[a]]
    BY <1>1
  <1> QED
    BY <1>1, <1>2, <1>3, <1>4, RegistryToSave, RegistryNames

\* A start reads the file: what it finds there is what it holds.
LEMMA RegistryStartKeeps == ASSUME RegistryInv, Registry!Start PROVE RegistryInv'
  <1>1. work' = [a \in Registry!Actors |-> IF a = "cli" THEN work[a] ELSE Registry!Idle]
    BY DEF Registry!Start
  <1>2. \A a \in Registry!Actors : IsWork(work'[a])
    BY <1>1, WorkForms DEF RegistryInv
  <1>3. /\ mem' = [n \in DOMAIN file.reg \cup Gateways |->
                     IF n \in DOMAIN file.reg THEN file.reg[n] ELSE Registry!AnyList]
        /\ file' = file
    BY DEF Registry!Start, Registry!Resolved, Registry!Loaded
  <1>4. Saved'
    BY <1>3 DEF Saved
  <1>5. \A t \in Registry!Threads : ~InSave(work'[t])
    BY <1>1, WorkForms, RegistryNames DEF InSave
  <1> QED
    BY <1>1, <1>2, <1>4, <1>5 DEF RegistryInv, Due

\* A save begins: it met another one, or has the file for itself and all to read.
LEMMA RegistryTruncateKeeps ==
    ASSUME RegistryInv, NEW a \in Registry!Actors, Registry!Truncate(a) PROVE RegistryInv'
  <1> DEFINE met == \E b \in Registry!Actors \ {a} : Registry!Saves(b)
             w == [work[a] EXCEPT !.at = "open"]
  <1>1. /\ work' = [work EXCEPT ![a] = w] /\ UNCHANGED <<up, mem>>
        /\ file' = Registry!File(IF met THEN "shared" ELSE "torn", Registry!Nothing)
        /\ behind' = (met \/ a = "cli")
    BY DEF Registry!Truncate
  <1>2. IsWork(w) /\ w.at = "open"
    BY DEF RegistryInv, IsWork, WorkAts
  <1> HIDE DEF w
  <1>3. work'[a] = w /\ \A b \in Registry!Actors \ {a} : work'[b] = work[b]
    BY <1>1 DEF RegistryInv
  <1>4. work' = [b \in Registry!Actors |-> work'[b]]
    BY <1>1 DEF RegistryInv
  <1>5. \A b \in Registry!Actors : IsWork(work'[b])
    BY <1>2, <1>3 DEF RegistryInv
  <1>6. ASSUME ~behind'
        PROVE  /\ Due'
               /\ \A t \in Registry!Threads : InSave(work'[t]) => file'.state = "torn" /\ Alone(t)'
    <2>1. a \in Registry!Threads /\ ~met
      BY <1>1, <1>6, RegistryNames
    <2>2. Fresh(work'[a], mem')
      BY <1>2, <1>3 DEF Fresh, InSave
    <2>3. \A b \in Registry!Actors \ {a} : ~InSave(work'[b])
      BY <1>3, <2>1 DEF InSave, Registry!Saves
    <2>4. file'.state = "torn"
      BY <1>1, <2>1 DEF Registry!File
    <2>5. Alone(a)' /\ \A t \in Registry!Threads : InSave(work'[t]) => t = a
      BY <2>3, RegistryNames DEF Alone
    <2> QED
      BY <2>1, <2>2, <2>4, <2>5 DEF Due
  <1> QED
    BY <1>4, <1>5, <1>6 DEF RegistryInv

\* A save reads on: what it read before is as fresh as it was, and the rest is
\* what there is.
LEMMA RegistryReads ==
    ASSUME RegistryInv, NEW a \in Registry!Actors, NEW w, IsWork(w),
           InSave(work[a]), InSave(w),
           work' = [work EXCEPT ![a] = w], UNCHANGED <<mem, file, up, behind>>,
           a \in Registry!Threads /\ Fresh(work[a], mem) => Fresh(w, mem)
    PROVE  RegistryInv'
  <1>1. work'[a] = w /\ \A b \in Registry!Actors \ {a} : work'[b] = work[b]
    BY DEF RegistryInv
  <1>2. /\ \A b \in Registry!Actors : IsWork(work'[b])
        /\ work' = [b \in Registry!Actors |-> work'[b]]
    BY <1>1 DEF RegistryInv
  <1>3. \A b \in Registry!Actors : InSave(work'[b]) <=> InSave(work[b])
    BY <1>1
  <1>4. ~ToSave(work[a])
    BY DEF InSave, ToSave
  <1>5. \A t \in Registry!Threads :
          /\ ToSave(work[t]) => ToSave(work'[t])
          /\ Fresh(work[t], mem) => Fresh(work'[t], mem')
    BY <1>1, <1>4, RegistryNames
  <1>6. Due => Due'
    BY <1>3, <1>5, RegistryNames DEF Due, Saved
  <1> QED
    BY <1>2, <1>3, <1>6, RegistryNames DEF RegistryInv, Alone

LEMMA RegistryCopyKeeps ==
    ASSUME RegistryInv, NEW a \in Registry!Actors,
           Registry!BeginCopy(a) \/ Registry!Copy(a) \/ Registry!EndCopy(a)
    PROVE  RegistryInv'
  <1>0. IsWork(work[a])
    BY DEF RegistryInv
  <1>1. CASE Registry!BeginCopy(a)
    <2> DEFINE w == IF a = "cli" THEN [work[a] EXCEPT !.at = "dumping"]
                    ELSE [Registry!Idle EXCEPT !.at = "copying", !.todo = DOMAIN mem]
    <2>1. work' = [work EXCEPT ![a] = w] /\ UNCHANGED <<mem, file, up, behind>>
          /\ work[a].at = "open"
      BY <1>1 DEF Registry!BeginCopy
    <2>2. a = "cli" => IsWork(w) /\ w.at = "dumping"
      <3> DEFINE v == [work[a] EXCEPT !.at = "dumping"]
      <3>1. IsWork(v) /\ v.at = "dumping"
        BY <1>0 DEF IsWork, WorkAts
      <3>2. a = "cli" => w = v
        OBVIOUS
      <3> HIDE DEF v, w
      <3> QED
        BY <3>1, <3>2
    <2>3. a # "cli" => IsWork(w) /\ w.at = "copying" /\ w.copy = Registry!Nothing
      <3> DEFINE v == [Registry!Idle EXCEPT !.at = "copying", !.todo = DOMAIN mem]
      <3>1. v \in [at : WorkAts, todo : {DOMAIN mem}, name : {""}, held : {""},
                   changed : BOOLEAN, copy : {Registry!Nothing}] /\ v.at = "copying"
        BY DEF Registry!Idle, WorkAts
      <3>2. a # "cli" => w = v
        OBVIOUS
      <3> HIDE DEF v, w
      <3> QED
        BY <3>1, <3>2 DEF IsWork
    <2> HIDE DEF w
    <2>4. IsWork(w) /\ InSave(w) /\ InSave(work[a])
      BY <2>1, <2>2, <2>3 DEF InSave
    <2>5. a \in Registry!Threads => Fresh(w, mem)
      BY <2>3, <2>4, RegistryNames DEF Fresh, Registry!Nothing
    <2> QED
      BY <2>1, <2>4, <2>5, RegistryReads
  <1>2. CASE Registry!Copy(a)
    <2> DEFINE n == Registry!NextOf(work[a].todo)
               copy == Registry!With(work[a].copy, n, mem[n])
               w == [work[a] EXCEPT !.todo = @ \ {n}, !.copy = copy]
    <2>1. work' = [work EXCEPT ![a] = w] /\ UNCHANGED <<mem, file, up, behind>>
          /\ work[a].at = "copying"
      BY <1>2 DEF Registry!Copy
    <2>2. IsWork(w) /\ w.at = "copying" /\ w.copy = copy
      <3> HIDE DEF copy
      <3>1. PICK T, N, H, C :
              work[a] \in [at : WorkAts, todo : T, name : N, held : H, changed : BOOLEAN, copy : C]
        BY <1>0 DEF IsWork
      <3>2. /\ w \in [at : WorkAts, todo : {work[a].todo \ {n}}, name : N, held : H,
                      changed : BOOLEAN, copy : {copy}]
            /\ w.at = work[a].at /\ w.copy = copy
        BY <3>1
      <3>3. work[a].at = "copying"
        BY <2>1
      <3> HIDE DEF w
      <3> QED
        BY ONLY <3>2, <3>3 DEF IsWork
    <2>3. \A m \in DOMAIN copy : copy[m] = mem[m] \/ (m \in DOMAIN work[a].copy /\ copy[m] = work[a].copy[m])
      BY DEF Registry!With
    <2> HIDE DEF w, copy
    <2>4. InSave(w) /\ InSave(work[a])
      BY <2>1, <2>2 DEF InSave
    <2>5. Fresh(work[a], mem) => Fresh(w, mem)
      BY <2>1, <2>2, <2>3, <2>4 DEF Fresh
    <2> QED
      BY <2>1, <2>2, <2>4, <2>5, RegistryReads
  <1>3. CASE Registry!EndCopy(a)
    <2> DEFINE w == [work[a] EXCEPT !.at = "dumping"]
    <2>1. /\ work' = [work EXCEPT ![a] = w] /\ UNCHANGED <<mem, file, up, behind>>
          /\ work[a].at = "copying" /\ DOMAIN work[a].copy = DOMAIN mem
      BY <1>3 DEF Registry!EndCopy, Registry!Counted
    <2>2. IsWork(w) /\ w.at = "dumping" /\ w.copy = work[a].copy
      BY <1>0 DEF IsWork, WorkAts
    <2> HIDE DEF w
    <2>3. InSave(w) /\ InSave(work[a])
      BY <2>1, <2>2 DEF InSave
    <2>4. Fresh(work[a], mem) => Fresh(w, mem)
      BY <2>1, <2>2, <2>3 DEF Fresh
    <2> QED
      BY <2>1, <2>2, <2>3, <2>4, RegistryReads
  <1> QED
    BY <1>1, <1>2, <1>3

\* A save ends: one that had the file for itself and was fresh leaves the registry
\* there, and the command line's leaves the file behind.
LEMMA RegistryDumpKeeps ==
    ASSUME RegistryInv, NEW a \in Registry!Actors, Registry!Dump(a) PROVE RegistryInv'
  <1>1. /\ work' = [work EXCEPT ![a] = Registry!Idle] /\ behind' = (behind \/ a = "cli")
        /\ mem' = mem /\ up' = up /\ work[a].at = "dumping"
        /\ \/ file' = Registry!File("whole", work[a].copy)
           \/ file.state # "torn" /\ file' = Registry!File("mixed", Registry!Nothing)
    BY DEF Registry!Dump
  <1>2. \A b \in Registry!Actors : IsWork(work'[b])
    BY <1>1, WorkForms DEF RegistryInv
  <1>3. /\ work' = [b \in Registry!Actors |-> work'[b]]
        /\ work'[a] = Registry!Idle /\ \A b \in Registry!Actors \ {a} : work'[b] = work[b]
    BY <1>1 DEF RegistryInv
  <1>4. ASSUME up', ~behind'
        PROVE  /\ Due'
               /\ \A t \in Registry!Threads : InSave(work'[t]) => file'.state = "torn" /\ Alone(t)'
    <2>1. a \in Registry!Threads /\ up /\ ~behind /\ InSave(work[a])
      BY <1>1, <1>4, RegistryNames DEF InSave
    <2>2. Due /\ file.state = "torn" /\ Alone(a)
      BY <2>1 DEF RegistryInv
    <2>3. file' = Registry!File("whole", work[a].copy)
      BY <1>1, <2>2
    <2>4. \A t \in Registry!Threads : ~InSave(work'[t])
      BY <1>3, <2>2, WorkForms, RegistryNames DEF Alone, InSave
    <2>5. CASE \E t \in Registry!Threads : ToSave(work[t])
      <3>1. ~ToSave(work[a])
        BY <1>1 DEF ToSave
      <3>2. \E t \in Registry!Threads : ToSave(work'[t])
        BY <1>3, <2>5, <3>1, RegistryNames
      <3> QED
        BY <2>4, <3>2 DEF Due
    <2>6. CASE \E t \in Registry!Threads : Fresh(work[t], mem)
      <3>1. Fresh(work[a], mem)
        BY <2>2, <2>6, RegistryNames DEF Alone, Fresh
      <3>2. Saved'
        BY <1>1, <2>3, <3>1 DEF Saved, Fresh, Registry!File
      <3> QED
        BY <2>4, <3>2 DEF Due
    <2> QED
      BY <2>1, <2>2, <2>5, <2>6 DEF Due
  <1> QED
    BY <1>2, <1>3, <1>4 DEF RegistryInv

\* Something failed: the file may lack anything.
LEMMA RegistryFails ==
    ASSUME RegistryInv, NEW a \in Registry!Actors,
           work' = [work EXCEPT ![a] = Registry!Broken(a)], behind'
    PROVE  RegistryInv'
  BY WorkForms DEF RegistryInv, Registry!Broken

LEMMA RegistryNextKeeps == RegistryInv /\ [Registry!Next]_(Registry!vars) => RegistryInv'
  <1> SUFFICES ASSUME RegistryInv, [Registry!Next]_(Registry!vars) PROVE RegistryInv'
    OBVIOUS
  <1>w. /\ \A a \in Registry!Actors : IsWork(work[a])
        /\ work = [a \in Registry!Actors |-> work[a]]
        /\ Registry!Threads \subseteq Registry!Actors /\ "cli" \in Registry!Actors
        /\ "cli" \notin Registry!Threads
    BY RegistryNames DEF RegistryInv
  <1>1. CASE Registry!Start
    BY <1>1, RegistryStartKeeps
  <1>2. CASE Registry!CliLoad
    <2> DEFINE w == [Registry!Idle EXCEPT !.at = "loaded", !.copy = Registry!Loaded]
    <2>1. IsWork(w) /\ ~InSave(w)
      <3>1. w \in [at : WorkAts, todo : {{}}, name : {""}, held : {""}, changed : BOOLEAN,
                   copy : {Registry!Loaded}] /\ w.at = "loaded"
        BY DEF Registry!Idle, WorkAts
      <3> HIDE DEF w
      <3> QED
        BY <3>1 DEF IsWork, InSave
    <2>2. /\ work' = [work EXCEPT !["cli"] = w] /\ UNCHANGED <<up, mem, file, behind>>
          /\ work["cli"] = Registry!Idle
      BY <1>2 DEF Registry!CliLoad
    <2>3. ~InSave(work["cli"])
      BY <2>2, WorkForms DEF InSave
    <2> HIDE DEF w
    <2> QED
      BY <1>w, <2>1, <2>2, <2>3, RegistryGoesOn
  <1>3. CASE Registry!Crash
    <2>1. /\ work' = [a \in Registry!Actors |-> IF a = "cli" THEN work[a] ELSE Registry!Idle]
          /\ ~up'
      BY <1>3 DEF Registry!Crash
    <2>2. \A a \in Registry!Actors : IsWork(work'[a])
      BY <1>w, <2>1, WorkForms
    <2> QED
      BY <2>1, <2>2 DEF RegistryInv
  <1>4. ASSUME NEW t \in Registry!Threads, Registry!BeginRefresh(t) PROVE RegistryInv'
    <2>1. PICK todo : work' = [work EXCEPT ![t] =
                          [Registry!Idle EXCEPT !.at = "between", !.todo = todo \cap Listed]]
      BY <1>4 DEF Registry!BeginRefresh, Registry!WithSource
    <2>2. work[t] = Registry!Idle /\ UNCHANGED <<up, mem, file, behind>>
      BY <1>4 DEF Registry!BeginRefresh
    <2> DEFINE w == [Registry!Idle EXCEPT !.at = "between", !.todo = todo \cap Listed]
    <2>3. IsWork(w) /\ w.at = "between" /\ ~InSave(w)
      <3>1. w \in [at : WorkAts, todo : {todo \cap Listed}, name : {""}, held : {""}, changed : BOOLEAN,
                   copy : {Registry!Nothing}] /\ w.at = "between"
        BY DEF Registry!Idle, WorkAts
      <3> HIDE DEF w
      <3> QED
        BY <3>1 DEF IsWork, InSave
    <2>4. ~ToSave(work[t]) /\ ~InSave(work[t])
      BY <2>2, WorkForms DEF ToSave, InSave
    <2> HIDE DEF w
    <2> QED
      BY <1>w, <2>1, <2>2, <2>3, <2>4, RegistryGoesOn DEF w
  <1>5. ASSUME NEW t \in Registry!Threads, Registry!Take(t) PROVE RegistryInv'
    <2>1. PICK n : work' = [work EXCEPT ![t].at = "asked", ![t].todo = @ \ {n},
                                        ![t].name = n, ![t].held = ""]
      BY <1>5 DEF Registry!Take
    <2> DEFINE w == [work[t] EXCEPT !.at = "asked", !.todo = @ \ {n}, !.name = n, !.held = ""]
    <2>2. work' = [work EXCEPT ![t] = w] /\ UNCHANGED <<up, mem, file, behind>>
          /\ work[t].at = "between"
      BY ZenonT(60), <1>5, <2>1 DEF Registry!Take
    <2>3. IsWork(w) /\ w.at = "asked" /\ w.changed = work[t].changed
      <3>1. PICK T, N, H, C :
              work[t] \in [at : WorkAts, todo : T, name : N, held : H, changed : BOOLEAN, copy : C]
        BY <1>w DEF IsWork
      <3>2. /\ w \in [at : WorkAts, todo : {w.todo}, name : {n}, held : {""},
                       changed : BOOLEAN, copy : C]
            /\ w.at = "asked" /\ w.changed = work[t].changed
        BY <3>1 DEF WorkAts
      <3> QED
        BY <3>2 DEF IsWork
    <2> HIDE DEF w
    <2> QED
      BY <1>w, <2>2, <2>3, RegistryGoesOn DEF ToSave, InSave
  <1>6. ASSUME NEW t \in Registry!Threads, Registry!Answer(t) PROVE RegistryInv'
    BY <1>6, RegistryAnswerKeeps
  <1>7. ASSUME NEW t \in Registry!Threads, Registry!EndRefresh(t) PROVE RegistryInv'
    <2> DEFINE w == IF work[t].changed THEN Registry!Saving ELSE Registry!Idle
    <2>1. work' = [work EXCEPT ![t] = w] /\ UNCHANGED <<up, mem, file, behind>>
          /\ work[t].at = "between"
      BY <1>7 DEF Registry!EndRefresh
    <2>2. IsWork(w) /\ (work[t].changed => w.at = "changed") /\ w.at \in {"changed", "idle"}
      BY WorkForms
    <2> HIDE DEF w
    <2> QED
      BY <1>w, <2>1, <2>2, RegistryGoesOn DEF ToSave, InSave
  <1>8. ASSUME NEW n \in Listed \cup Added, NEW l \in Lists, Registry!Put(n, l) PROVE RegistryInv'
    BY <1>8, RegistryPutKeeps
  <1>9. ASSUME NEW n \in Listed \cup Added, NEW l \in Lists, Registry!CliChange(n, l)
         PROVE  RegistryInv'
    <2> DEFINE c == Registry!With(work["cli"].copy, n, l)
               w == [work["cli"] EXCEPT !.at = "changed", !.copy = c]
    <2>1. /\ work' = [work EXCEPT !["cli"] = w]
          /\ UNCHANGED <<up, mem, file, behind>> /\ work["cli"].at = "loaded"
      BY <1>9 DEF Registry!CliChange
    <2>2. IsWork(w) /\ w.at = "changed"
      <3> HIDE DEF c
      <3>1. PICK T, N, H, C :
              work["cli"] \in [at : WorkAts, todo : T, name : N, held : H, changed : BOOLEAN, copy : C]
        BY <1>w DEF IsWork
      <3>2. w \in [at : WorkAts, todo : T, name : N, held : H, changed : BOOLEAN, copy : {c}]
            /\ w.at = "changed"
        BY <3>1 DEF WorkAts
      <3> QED
        BY <3>2 DEF IsWork
    <2> HIDE DEF w
    <2>3. ~InSave(work["cli"]) /\ ~InSave(w)
      BY <2>1, <2>2 DEF InSave
    <2> QED
      BY <1>w, <2>1, <2>2, <2>3, RegistryGoesOn
  <1>10. ASSUME NEW n \in Found, NEW l \in Lists, Registry!Adopt(n, l) PROVE RegistryInv'
    <2>1. /\ work' = [work EXCEPT !["discovery"] = Registry!Saving]
          /\ work["discovery"] = Registry!Idle /\ UNCHANGED <<up, file, behind>>
          /\ "discovery" \in Registry!Threads
      BY <1>10, RegistryNames DEF Registry!Adopt
    <2>2. /\ work' = [a \in Registry!Actors |-> work'[a]] /\ work'["discovery"] = Registry!Saving
          /\ \A a \in Registry!Actors \ {"discovery"} : work'[a] = work[a]
      BY <1>w, <2>1
    <2>3. ToSave(work'["discovery"]) /\ ~InSave(work'["discovery"]) /\ ~InSave(work["discovery"])
      BY <2>1, <2>2, WorkForms DEF ToSave, InSave
    <2>4. /\ \A a \in Registry!Actors : IsWork(work'[a])
          /\ \A a \in Registry!Actors : InSave(work'[a]) <=> InSave(work[a])
      BY <1>w, <2>2, <2>3, WorkForms
    <2> QED
      BY <2>1, <2>2, <2>3, <2>4, RegistryToSave
  <1>11. ASSUME NEW a \in Registry!Actors, Registry!Truncate(a) PROVE RegistryInv'
    BY <1>11, RegistryTruncateKeeps
  <1>12. ASSUME NEW a \in Registry!Actors,
                Registry!BeginCopy(a) \/ Registry!Copy(a) \/ Registry!EndCopy(a)
         PROVE  RegistryInv'
    BY <1>12, RegistryCopyKeeps
  <1>13. ASSUME NEW a \in Registry!Actors, Registry!Dump(a) PROVE RegistryInv'
    BY <1>13, RegistryDumpKeeps
  <1>14. ASSUME NEW a \in Registry!Actors, Registry!CopyBreaks(a) \/ Registry!SaveFails(a)
         PROVE  RegistryInv'
    BY <1>14, RegistryFails DEF Registry!CopyBreaks, Registry!SaveFails
  <1>15. CASE UNCHANGED Registry!vars
    BY <1>15 DEF Registry!vars, RegistryInv, Saved, Due, Alone
  <1> QED
    BY <1>1, <1>2, <1>3, <1>4, <1>5, <1>6, <1>7, <1>8, <1>9, <1>10, <1>11, <1>12,
       <1>13, <1>14, <1>15 DEF Registry!Next

\* Scheduler, discovery and page share one registry without a lock, and a save
\* reads it one provider after the other and writes what it read: still a daemon
\* without work left has in its file all that they changed, when the last save
\* met no other and none failed since: Registry.save and what follows a change.
THEOREM QuietDaemonHasSaved == Spec => []QuietDaemonIsSaved
  <1>1. RegistryInv => QuietDaemonIsSaved
    <2> SUFFICES ASSUME RegistryInv, up, ~behind,
                        \A t \in Registry!Threads : work[t].at \in {"idle", "dead"}
                 PROVE  Saved
      BY DEF QuietDaemonIsSaved, Registry!QuietDaemonIsSaved, Saved
    <2>1. \A t \in Registry!Threads : ~ToSave(work[t]) /\ ~InSave(work[t])
      BY DEF ToSave, InSave
    <2> QED
      BY <2>1 DEF RegistryInv, Due, Fresh
  <1>2. Init => RegistryInv
    BY RegistryInit DEF Init
  <1>3. RegistryInv /\ [Next]_vars => RegistryInv'
    BY RegistryNextKeeps, RegistrySteps
  <1> QED
    BY <1>1, <1>2, <1>3, PTL DEF Spec

-----------------------------------------------------------------------------
(* StatusWorker: two good rounds bring every model back on the page        *)

BoardVerdicts == {"none", "unverified", "available", "unavailable"}
BoardEntries == [v : BoardVerdicts, age : Nat]
BoardRuns == [at : {"none", "cleared", "probing"}, age : 0..2, batch : {0, 1},
              prior : [Models -> BoardEntries], late : BOOLEAN]

\* Units into the slot, and the batch of the slot.
InSlot == clock % 3
ThisBatch == (clock \div 3) % 2

\* The models of a batch have verdicts no older than a.
Within(b, a) ==
  \A m \in Models : Place[m] % 2 = b =>
    kv.models[m].v \in Worker!Verdicts /\ kv.models[m].age <= a

\* The cron run of this slot has not put its snapshot yet.
Pending == due \/ runs["cron"].at = "probing"

\* What the clock, the runs and the snapshot have to do with each other.
BoardRunsInv ==
  /\ clock \in 0..5 /\ due \in BOOLEAN /\ streak \in 0..2
  /\ kv \in [have : BOOLEAN, age : Nat, models : [Models -> BoardEntries]]
  /\ runs \in [Worker!Runs -> BoardRuns]
  /\ ~kv.have => \A m \in Models : kv.models[m].v = "none"
  /\ due => InSlot = 0 /\ runs["cron"].at # "probing"
  /\ runs["cron"].at \in {"none", "probing"}
  /\ runs["cron"].at = "probing" => runs["cron"].age = InSlot
  /\ \A r \in Worker!Runs : runs[r].at = "probing" =>
       runs[r].batch = (IF runs[r].age <= InSlot THEN ThisBatch ELSE 1 - ThisBatch)
  /\ \A r \in Worker!Runs : runs[r].at = "probing" /\ ~runs[r].late =>
       \A m \in Models : Worker!Recent(kv.models[m]) => runs[r].prior[m] = kv.models[m]

\* After one good cron run its batch is known, after two both are; the ages say how
\* long that holds.
StreakInv ==
  /\ streak >= 1 => IF Pending THEN Within(1 - ThisBatch, InSlot + 3) ELSE Within(ThisBatch, InSlot)
  /\ streak = 2 => IF Pending THEN Within(ThisBatch, InSlot + 6) ELSE Within(1 - ThisBatch, InSlot + 3)

LEMMA ClockMoves ==
    ASSUME NEW c \in 0..5, NEW d, d = (c + 1) % 6
    PROVE  /\ d \in 0..5 /\ c % 3 \in 0..2 /\ (c \div 3) % 2 \in {0, 1}
           /\ c % 3 < 2 => d % 3 = (c % 3) + 1 /\ (d \div 3) % 2 = (c \div 3) % 2
           /\ c % 3 = 2 => d % 3 = 0 /\ (d \div 3) % 2 = 1 - ((c \div 3) % 2)
  <1>1. c = 0 \/ c = 1 \/ c = 2 \/ c = 3 \/ c = 4 \/ c = 5
    OBVIOUS
  <1> QED
    BY <1>1

LEMMA BoardClock == BoardRunsInv => InSlot \in 0..2 /\ ThisBatch \in {0, 1}
  BY ClockMoves DEF BoardRunsInv, InSlot, ThisBatch

LEMMA BoardInit == Worker!Init => BoardRunsInv /\ StreakInv
  <1> SUFFICES ASSUME Worker!Init PROVE BoardRunsInv /\ StreakInv
    OBVIOUS
  <1>1. Worker!Absent \in BoardEntries /\ Worker!Absent.v = "none"
    BY DEF Worker!Absent, BoardEntries, BoardVerdicts
  <1>2. [m \in Models |-> Worker!Absent] \in [Models -> BoardEntries]
    BY <1>1
  <1>3. Worker!NoRun \in BoardRuns /\ Worker!NoRun.at = "none"
    BY <1>2 DEF Worker!NoRun, BoardRuns
  <1>4. clock = 0 /\ due = TRUE /\ streak = 0 /\ runs = [r \in Worker!Runs |-> Worker!NoRun]
        /\ kv = [have |-> FALSE, age |-> 0, models |-> [m \in Models |-> Worker!Absent]]
    BY DEF Worker!Init
  <1>5. kv \in [have : BOOLEAN, age : Nat, models : [Models -> BoardEntries]]
    BY <1>2, <1>4
  <1>6. \A m \in Models : kv.models[m].v = "none"
    BY <1>1, <1>4
  <1>7. runs \in [Worker!Runs -> BoardRuns] /\ \A r \in Worker!Runs : runs[r].at = "none"
    BY <1>3, <1>4
  <1>8. "cron" \in Worker!Runs /\ InSlot = 0
    BY <1>4 DEF Worker!Runs, InSlot
  <1> QED
    BY <1>4, <1>5, <1>6, <1>7, <1>8 DEF BoardRunsInv, StreakInv

LEMMA BoardShows == BoardRunsInv /\ StreakInv => Worker!TwoGoodRunsShowAll
  <1> SUFFICES ASSUME BoardRunsInv, StreakInv, streak = 2, NEW m \in Models
               PROVE  Worker!Served(m) \in Worker!Verdicts
    BY DEF Worker!TwoGoodRunsShowAll
  <1>1. InSlot \in 0..2 /\ ThisBatch \in {0, 1}
    BY BoardClock
  <1>2. Place[m] % 2 = ThisBatch \/ Place[m] % 2 = 1 - ThisBatch
    BY <1>1, WorkerAssumption
  <1>3. kv.models[m] \in BoardEntries
    BY DEF BoardRunsInv
  <1>4. kv.models[m].v \in Worker!Verdicts /\ kv.models[m].age <= 8
    <2>1. CASE Place[m] % 2 = ThisBatch
      BY <1>1, <1>3, <2>1 DEF StreakInv, Within, BoardEntries
    <2>2. CASE Place[m] % 2 = 1 - ThisBatch
      BY <1>1, <1>3, <2>2 DEF StreakInv, Within, BoardEntries
    <2> QED
      BY <1>2, <2>1, <2>2
  <1>5. kv.have /\ Worker!Recent(kv.models[m])
    BY <1>3, <1>4 DEF BoardRunsInv, Worker!Recent, Worker!Verdicts, Worker!Slot, BoardEntries
  <1> QED
    BY <1>4, <1>5 DEF Worker!Served

\* An entry is one unit older.
LEMMA OlderEntry ==
    ASSUME NEW e \in BoardEntries, NEW o, o = [e EXCEPT !.age = Worker!Min2(e.age + 1, Worker!Old)]
    PROVE  o \in BoardEntries /\ o.v = e.v /\ o.age <= e.age + 1
           /\ (Worker!Recent(o) => Worker!Recent(e))
  <1>1. Worker!Min2(e.age + 1, Worker!Old) \in Nat /\ Worker!Min2(e.age + 1, Worker!Old) <= e.age + 1
        /\ (Worker!Min2(e.age + 1, Worker!Old) <= 9 => e.age <= 9)
    BY DEF BoardEntries, Worker!Min2, Worker!Old
  <1>2. o \in BoardEntries /\ o.v = e.v /\ o.age = Worker!Min2(e.age + 1, Worker!Old)
    BY <1>1 DEF BoardEntries
  <1> QED
    BY <1>1, <1>2 DEF Worker!Recent, Worker!Slot

LEMMA OlderEntries ==
    ASSUME NEW f \in [Models -> BoardEntries]
    PROVE  /\ Worker!Older(f) \in [Models -> BoardEntries]
           /\ \A m \in Models : /\ Worker!Older(f)[m].v = f[m].v
                                /\ Worker!Older(f)[m].age <= f[m].age + 1
                                /\ Worker!Recent(Worker!Older(f)[m]) => Worker!Recent(f[m])
           /\ \A g \in [Models -> BoardEntries] : \A m \in Models :
                g[m] = f[m] => Worker!Older(g)[m] = Worker!Older(f)[m]
  <1>1. \A m \in Models : Worker!Older(f)[m] = [f[m] EXCEPT !.age = Worker!Min2(f[m].age + 1, Worker!Old)]
    BY DEF Worker!Older
  <1>2. ASSUME NEW m \in Models
        PROVE  /\ Worker!Older(f)[m] \in BoardEntries
               /\ Worker!Older(f)[m].v = f[m].v
               /\ Worker!Older(f)[m].age <= f[m].age + 1
               /\ Worker!Recent(Worker!Older(f)[m]) => Worker!Recent(f[m])
    <2>1. f[m] \in BoardEntries
      OBVIOUS
    <2> QED
      BY ONLY <1>1, <2>1, m \in Models, OlderEntry
  <1>3. Worker!Older(f) = [m \in Models |-> Worker!Older(f)[m]]
    BY DEF Worker!Older
  <1>4. Worker!Older(f) \in [Models -> BoardEntries]
    BY ONLY <1>2, <1>3
  <1>5. \A g \in [Models -> BoardEntries] : \A m \in Models :
          g[m] = f[m] => Worker!Older(g)[m] = Worker!Older(f)[m]
    BY DEF Worker!Older
  <1> QED
    BY <1>2, <1>4, <1>5

\* A run that is over, and one that begins.
LEMMA BoardNoRun == Worker!NoRun \in BoardRuns /\ Worker!NoRun.at = "none" /\ Worker!NoRun.age = 0
  <1>1. Worker!Absent \in BoardEntries
    BY DEF Worker!Absent, BoardEntries, BoardVerdicts
  <1>2. [m \in Models |-> Worker!Absent] \in [Models -> BoardEntries]
    BY <1>1
  <1> QED
    BY <1>2 DEF Worker!NoRun, BoardRuns

LEMMA BoardBegun ==
    ASSUME BoardRunsInv
    PROVE  /\ Worker!Begun \in BoardRuns /\ Worker!Begun.at = "probing" /\ Worker!Begun.age = 0
           /\ Worker!Begun.batch = ThisBatch
           /\ \A m \in Models : Worker!Recent(kv.models[m]) => Worker!Begun.prior[m] = kv.models[m]
  <1> DEFINE f == [m \in Models |-> IF kv.have /\ Worker!Recent(kv.models[m])
                                    THEN kv.models[m] ELSE Worker!Absent]
  <1>1. Worker!Absent \in BoardEntries
    BY DEF Worker!Absent, BoardEntries, BoardVerdicts
  <1>2. f \in [Models -> BoardEntries]
    BY <1>1 DEF BoardRunsInv
  <1>3. \A m \in Models : Worker!Recent(kv.models[m]) => f[m] = kv.models[m]
    BY DEF BoardRunsInv, Worker!Recent
  <1>4. Worker!Batch = ThisBatch /\ ThisBatch \in {0, 1}
    BY BoardClock DEF Worker!Batch, Worker!Slot, Worker!Batches, ThisBatch
  <1>5. Worker!Begun = [at |-> "probing", age |-> 0, batch |-> ThisBatch, late |-> FALSE, prior |-> f]
    BY <1>4 DEF Worker!Begun
  <1> HIDE DEF f
  <1> QED
    BY <1>2, <1>3, <1>4, <1>5 DEF BoardRuns

LEMMA BoardTickKeeps ==
    ASSUME BoardRunsInv, StreakInv, Worker!Tick PROVE BoardRunsInv' /\ StreakInv'
  <1>a. \A r \in Worker!Runs : runs[r].age < 2
    BY DEF Worker!Tick
  <1>b. clock' = (clock + 1) % 6
    <2>1. clock' = (clock + 1) % (2 * 3)
      BY DEF Worker!Tick, Worker!Slot
    <2> QED
      BY ONLY <2>1
  <1>c. due' = (clock' % 3 = 0)
    BY Zenon DEF Worker!Tick, Worker!Slot
  <1>d. kv' = [kv EXCEPT !.age = Worker!Min2(kv.age + 1, Worker!Old),
                         !.models = Worker!Older(kv.models)]
    BY Zenon DEF Worker!Tick
  <1>e. runs' = [r \in Worker!Runs |-> IF runs[r].at = "none" THEN Worker!NoRun
          ELSE [runs[r] EXCEPT !.age = runs[r].age + 1, !.prior = Worker!Older(runs[r].prior)]]
    BY Zenon DEF Worker!Tick
  <1>f. streak' = IF due THEN 0 ELSE streak
    BY Zenon DEF Worker!Tick
  <1>2. /\ clock \in 0..5 /\ clock' \in 0..5 /\ InSlot \in 0..2 /\ ThisBatch \in {0, 1}
        /\ InSlot' \in 0..2 /\ ThisBatch' \in {0, 1}
        /\ InSlot < 2 => InSlot' = InSlot + 1 /\ ThisBatch' = ThisBatch
        /\ InSlot = 2 => InSlot' = 0 /\ ThisBatch' = 1 - ThisBatch
    <2>1. clock \in 0..5
      BY DEF BoardRunsInv
    <2>2. clock' \in 0..5
      BY <1>b, <2>1
    <2> QED
      BY <1>b, <2>1, <2>2, ClockMoves DEF InSlot, ThisBatch
  <1>3. (due' <=> InSlot' = 0) /\ due' \in BOOLEAN
    BY <1>c, Zenon DEF InSlot
  <1>4. kv.models \in [Models -> BoardEntries] /\ kv.have \in BOOLEAN /\ kv.age \in Nat
    BY DEF BoardRunsInv
  <1>5. /\ kv'.have = kv.have /\ kv'.models = Worker!Older(kv.models)
        /\ kv' \in [have : BOOLEAN, age : Nat, models : [Models -> BoardEntries]]
    <2>1. Worker!Min2(kv.age + 1, Worker!Old) \in Nat
      BY <1>4 DEF Worker!Min2, Worker!Old
    <2>2. Worker!Older(kv.models) \in [Models -> BoardEntries]
      BY <1>4, OlderEntries
    <2> QED
      BY <1>d, <2>1, <2>2 DEF BoardRunsInv
  <1>6. \A m \in Models : /\ kv'.models[m].v = kv.models[m].v
                          /\ kv'.models[m].age <= kv.models[m].age + 1
                          /\ kv'.models[m].age \in Nat /\ kv.models[m].age \in Nat
                          /\ Worker!Recent(kv'.models[m]) => Worker!Recent(kv.models[m])
    <2>1. kv'.models \in [Models -> BoardEntries]
      BY <1>5
    <2> QED
      BY <1>4, <1>5, <2>1, OlderEntries DEF BoardEntries
  \* The runs that go on.
  <1>7. ASSUME NEW r \in Worker!Runs
        PROVE  /\ runs'[r] \in BoardRuns
               /\ runs[r].at # "probing" => runs'[r].at # "probing"
               /\ runs[r].at = "probing" =>
                    /\ runs'[r].at = "probing" /\ runs'[r].age = runs[r].age + 1
                    /\ runs'[r].batch = runs[r].batch /\ runs'[r].late = runs[r].late
                    /\ runs'[r].prior = Worker!Older(runs[r].prior)
               /\ runs'[r].at = runs[r].at
    <2>1. runs[r] \in BoardRuns /\ runs[r].age < 2
      BY <1>a DEF BoardRunsInv
    <2>2. Worker!Older(runs[r].prior) \in [Models -> BoardEntries]
      BY <2>1, OlderEntries DEF BoardRuns
    <2>3. CASE runs[r].at = "none"
      BY <1>e, <2>1, <2>3, BoardNoRun
    <2>4. CASE runs[r].at # "none"
      <3>1. runs'[r] = [runs[r] EXCEPT !.age = runs[r].age + 1, !.prior = Worker!Older(runs[r].prior)]
        BY <1>e, <2>4
      <3>2. runs[r].age + 1 \in 0..2
        BY <2>1 DEF BoardRuns
      <3> QED
        BY <2>1, <2>2, <3>1, <3>2 DEF BoardRuns
    <2> QED
      BY <2>3, <2>4
  <1>8. runs' \in [Worker!Runs -> BoardRuns]
    <2>1. runs' = [r \in Worker!Runs |-> runs'[r]]
      BY <1>e
    <2> QED
      BY ONLY <1>7, <2>1
  <1>9. "cron" \in Worker!Runs
    BY DEF Worker!Runs
  <1>10. ASSUME NEW r \in Worker!Runs, runs'[r].at = "probing"
         PROVE  runs'[r].batch = (IF runs'[r].age <= InSlot' THEN ThisBatch' ELSE 1 - ThisBatch')
    <2>1. /\ runs[r].at = "probing" /\ runs[r].age \in Nat /\ runs[r].age < 2
          /\ runs'[r].age = runs[r].age + 1 /\ runs'[r].batch = runs[r].batch
      BY <1>a, <1>7, <1>10 DEF BoardRunsInv, BoardRuns
    <2>2. runs[r].batch = (IF runs[r].age <= InSlot THEN ThisBatch ELSE 1 - ThisBatch)
      BY <2>1 DEF BoardRunsInv
    <2> QED
      BY <1>2, <2>1, <2>2
  <1>11. ASSUME NEW r \in Worker!Runs, runs'[r].at = "probing", ~runs'[r].late, NEW m \in Models,
                Worker!Recent(kv'.models[m])
         PROVE  runs'[r].prior[m] = kv'.models[m]
    <2>1. /\ runs[r].at = "probing" /\ ~runs[r].late /\ runs'[r].prior = Worker!Older(runs[r].prior)
          /\ runs[r].prior \in [Models -> BoardEntries]
      BY <1>7, <1>11 DEF BoardRunsInv, BoardRuns
    <2>2. runs[r].prior[m] = kv.models[m]
      BY <1>6, <1>11, <2>1 DEF BoardRunsInv
    <2> QED
      BY <1>4, <1>5, <2>1, <2>2, OlderEntries
  <1>12. runs["cron"].at = "probing" =>
           runs["cron"].age = InSlot /\ runs["cron"].age < 2 /\ runs'["cron"].age = InSlot + 1
    BY <1>a, <1>7, <1>9 DEF BoardRunsInv
  <1>13. runs'["cron"].at = runs["cron"].at
    BY <1>7, <1>9
  <1>14. BoardRunsInv'
    <2>1. streak' \in 0..2
      BY <1>f DEF BoardRunsInv
    <2>2. ~kv'.have => \A m \in Models : kv'.models[m].v = "none"
      BY <1>5, <1>6 DEF BoardRunsInv
    <2>3. due' => InSlot' = 0 /\ runs'["cron"].at # "probing"
      BY <1>2, <1>3, <1>12, <1>13
    <2>4. runs'["cron"].at \in {"none", "probing"}
      BY <1>13 DEF BoardRunsInv
    <2>5. runs'["cron"].at = "probing" => runs'["cron"].age = InSlot'
      BY <1>2, <1>12, <1>13
    <2> QED
      BY <1>2, <1>3, <1>5, <1>8, <1>10, <1>11, <2>1, <2>2, <2>3, <2>4, <2>5 DEF BoardRunsInv
  <1> DEFINE Then(b, a) == \A m \in Models : Place[m] % 2 = b =>
                             kv'.models[m].v \in Worker!Verdicts /\ kv'.models[m].age <= a
  <1>15. ASSUME NEW b, NEW a \in Nat, Within(b, a) PROVE Then(b, a + 1)
    BY <1>6, <1>15 DEF Within
  <1>16. /\ Then(ThisBatch', InSlot') => Within(ThisBatch, InSlot)'
         /\ Then(ThisBatch', InSlot' + 6) => Within(ThisBatch, InSlot + 6)'
         /\ Then(1 - ThisBatch', InSlot' + 3) => Within(1 - ThisBatch, InSlot + 3)'
    BY DEF Within
  <1> HIDE DEF Then
  <1>17. StreakInv'
    <2>3. streak' \in 0..2
      BY <1>14 DEF BoardRunsInv
    <2>1. CASE streak' < 1
      BY <2>1, <2>3 DEF StreakInv
    <2>2. CASE streak' >= 1
      <3>1. ~due /\ streak' = streak /\ streak \in 0..2
        BY <1>f, <2>2 DEF BoardRunsInv
      <3>2. CASE runs["cron"].at = "probing"
        <4>1. InSlot < 2 /\ Pending /\ Pending'
          BY <1>2, <1>12, <1>13, <3>2 DEF Pending
        <4>2. Within(1 - ThisBatch, InSlot + 3) /\ (streak = 2 => Within(ThisBatch, InSlot + 6))
          BY <2>2, <3>1, <4>1 DEF StreakInv
        <4>3. Then(1 - ThisBatch, InSlot + 3 + 1) /\ (streak = 2 => Then(ThisBatch, InSlot + 6 + 1))
          BY <1>2, <1>15, <4>2
        <4>4. /\ ThisBatch' = ThisBatch /\ InSlot + 3 + 1 = InSlot' + 3
              /\ InSlot + 6 + 1 = InSlot' + 6
          BY <1>2, <4>1
        <4> QED
          BY <1>16, <3>1, <4>1, <4>3, <4>4 DEF StreakInv
      <3>3. CASE runs["cron"].at # "probing"
        <4>1. ~Pending
          BY <3>1, <3>3 DEF Pending
        <4>2. Within(ThisBatch, InSlot) /\ (streak = 2 => Within(1 - ThisBatch, InSlot + 3))
          BY <2>2, <3>1, <4>1 DEF StreakInv
        <4>3. Then(ThisBatch, InSlot + 1) /\ (streak = 2 => Then(1 - ThisBatch, InSlot + 3 + 1))
          BY <1>2, <1>15, <4>2
        <4>4. CASE InSlot < 2
          <5>1. ThisBatch' = ThisBatch /\ InSlot + 1 = InSlot' /\ InSlot + 3 + 1 = InSlot' + 3
            BY <1>2, <4>4
          <5>2. ~Pending'
            BY <1>2, <1>3, <1>13, <3>3, <4>4 DEF Pending
          <5> QED
            BY <1>16, <3>1, <4>3, <5>1, <5>2 DEF StreakInv
        <4>5. CASE InSlot = 2
          <5>1. ThisBatch = 1 - ThisBatch' /\ 1 - ThisBatch = ThisBatch'
            BY <1>2, <4>5
          <5>2. InSlot + 1 = InSlot' + 3 /\ InSlot + 3 + 1 = InSlot' + 6
            BY <1>2, <4>5
          <5>3. Pending'
            BY <1>2, <1>3, <4>5 DEF Pending
          <5> QED
            BY <1>16, <3>1, <4>3, <5>1, <5>2, <5>3 DEF StreakInv
        <4> QED
          BY <1>2, <4>4, <4>5
      <3> QED
        BY <3>2, <3>3
    <2> QED
      BY <2>1, <2>2, <2>3
  <1> QED
    BY <1>14, <1>17

\* A run begins or ends and the snapshot stays.
LEMMA BoardRunMoves ==
    ASSUME BoardRunsInv, NEW r \in Worker!Runs, NEW x \in BoardRuns,
           runs' = [runs EXCEPT ![r] = x], UNCHANGED <<clock, kv>>,
           due' \in BOOLEAN, due' => due, streak' \in 0..2,
           x.at = "probing" => x = Worker!Begun,
           r = "cron" => x.at # "cleared" /\ (x.at = "probing" => InSlot = 0 /\ ~due')
    PROVE  BoardRunsInv'
  <1>1. /\ clock \in 0..5 /\ kv \in [have : BOOLEAN, age : Nat, models : [Models -> BoardEntries]]
        /\ runs \in [Worker!Runs -> BoardRuns]
        /\ ~kv.have => \A m \in Models : kv.models[m].v = "none"
    BY DEF BoardRunsInv
  <1>2. InSlot' = InSlot /\ ThisBatch' = ThisBatch /\ InSlot \in 0..2
    BY BoardClock DEF InSlot, ThisBatch
  <1>3. runs' \in [Worker!Runs -> BoardRuns] /\ runs'[r] = x /\ "cron" \in Worker!Runs
        /\ \A q \in Worker!Runs : q # r => runs'[q] = runs[q]
    BY <1>1 DEF Worker!Runs
  <1>4. x.at = "probing" =>
          /\ x.age = 0 /\ x.batch = ThisBatch
          /\ \A m \in Models : Worker!Recent(kv.models[m]) => x.prior[m] = kv.models[m]
    BY BoardBegun
  <1>5. ASSUME NEW q \in Worker!Runs, runs'[q].at = "probing"
        PROVE  /\ runs'[q].batch = (IF runs'[q].age <= InSlot' THEN ThisBatch' ELSE 1 - ThisBatch')
               /\ ~runs'[q].late =>
                    \A m \in Models : Worker!Recent(kv.models[m]) => runs'[q].prior[m] = kv.models[m]
    <2>1. CASE q = r
      BY <1>2, <1>3, <1>4, <1>5, <2>1
    <2>2. CASE q # r
      BY <1>2, <1>3, <1>5, <2>2 DEF BoardRunsInv
    <2> QED
      BY <2>1, <2>2
  <1>6. /\ due' => InSlot' = 0 /\ runs'["cron"].at # "probing"
        /\ runs'["cron"].at \in {"none", "probing"}
        /\ runs'["cron"].at = "probing" => runs'["cron"].age = InSlot'
    <2>1. CASE r = "cron"
      BY <1>2, <1>3, <1>4, <2>1 DEF BoardRunsInv, BoardRuns
    <2>2. CASE r # "cron"
      BY <1>2, <1>3, <2>2 DEF BoardRunsInv
    <2> QED
      BY <2>1, <2>2
  <1> QED
    BY <1>1, <1>3, <1>5, <1>6 DEF BoardRunsInv

\* What the streak says stays while the snapshot and the cron run's turn do.
LEMMA StreakStays ==
    ASSUME StreakInv, UNCHANGED <<clock, kv, streak>>, Pending' <=> Pending PROVE StreakInv'
  <1>1. InSlot' = InSlot /\ ThisBatch' = ThisBatch
    BY DEF InSlot, ThisBatch
  <1>2. /\ Within(ThisBatch, InSlot)' <=> Within(ThisBatch, InSlot)
        /\ Within(ThisBatch, InSlot + 6)' <=> Within(ThisBatch, InSlot + 6)
        /\ Within(1 - ThisBatch, InSlot + 3)' <=> Within(1 - ThisBatch, InSlot + 3)
    BY <1>1 DEF Within
  <1> QED
    BY <1>2 DEF StreakInv

LEMMA BoardBeginKeeps ==
    ASSUME BoardRunsInv, StreakInv,
           Worker!Cron \/ \E r \in Visits : Worker!Visit(r) \/ Worker!TakeLock(r)
    PROVE  BoardRunsInv' /\ StreakInv'
  <1>1. "cron" \in Worker!Runs /\ \A r \in Visits : r \in Worker!Runs /\ r # "cron"
    BY WorkerAssumption DEF Worker!Runs
  <1>2. Worker!Begun \in BoardRuns /\ Worker!Begun.at = "probing"
    BY BoardBegun
  <1>3. streak \in 0..2 /\ due \in BOOLEAN /\ runs \in [Worker!Runs -> BoardRuns]
    BY DEF BoardRunsInv
  <1>4. CASE Worker!Cron
    <2>1. due = TRUE /\ due' = FALSE /\ runs' = [runs EXCEPT !["cron"] = Worker!Begun]
          /\ UNCHANGED <<clock, kv, lock, streak>>
      BY <1>3, <1>4 DEF Worker!Cron
    <2>2. InSlot = 0
      BY <2>1 DEF BoardRunsInv
    <2>3. BoardRunsInv'
      BY <1>1, <1>2, <1>3, <2>1, <2>2, BoardRunMoves
    <2>4. runs'["cron"] = Worker!Begun
      BY <1>1, <1>3, <2>1
    <2>5. Pending /\ Pending'
      BY <1>2, <2>1, <2>4 DEF Pending
    <2> QED
      BY <2>1, <2>3, <2>5, StreakStays
  <1>5. ASSUME NEW r \in Visits, Worker!Visit(r) \/ Worker!TakeLock(r)
        PROVE  BoardRunsInv' /\ StreakInv'
    <2>1. /\ runs' \in {[runs EXCEPT ![r] = [Worker!NoRun EXCEPT !.at = "cleared"]],
                        [runs EXCEPT ![r] = Worker!Begun]}
          /\ UNCHANGED <<clock, due, kv, streak>>
      BY <1>5 DEF Worker!Visit, Worker!TakeLock
    <2>2. [Worker!NoRun EXCEPT !.at = "cleared"] \in BoardRuns
          /\ [Worker!NoRun EXCEPT !.at = "cleared"].at = "cleared"
      BY BoardNoRun DEF BoardRuns
    <2>3. BoardRunsInv'
      BY <1>1, <1>2, <1>3, <1>5, <2>1, <2>2, BoardRunMoves
    <2>4. runs'["cron"] = runs["cron"]
      BY <1>1, <1>3, <1>5, <2>1
    <2>5. Pending' <=> Pending
      BY <2>1, <2>4 DEF Pending
    <2> QED
      BY <2>1, <2>3, <2>5, StreakStays
  <1> QED
    BY <1>4, <1>5

LEMMA BoardFailKeeps ==
    ASSUME BoardRunsInv, StreakInv, NEW r \in Worker!Runs, Worker!Fail(r)
    PROVE  BoardRunsInv' /\ StreakInv'
  <1>1. /\ runs' = [runs EXCEPT ![r] = Worker!NoRun] /\ UNCHANGED <<clock, due, kv>>
        /\ streak' = IF r = "cron" THEN 0 ELSE streak
    BY DEF Worker!Fail
  <1>2. streak \in 0..2 /\ due \in BOOLEAN /\ runs \in [Worker!Runs -> BoardRuns]
    BY DEF BoardRunsInv
  <1>3. BoardRunsInv'
    <2>1. streak' \in 0..2
      BY <1>1, <1>2
    <2>2. due' \in BOOLEAN /\ (due' => due) /\ UNCHANGED <<clock, kv>>
      BY <1>1, <1>2
    <2> QED
      BY <1>1, <2>1, <2>2, BoardNoRun, BoardRunMoves
  <1>4. CASE r = "cron"
    <2>1. streak' = 0
      BY <1>1, <1>4
    <2> QED
      BY <1>3, <2>1 DEF StreakInv
  <1>5. CASE r # "cron"
    <2>1. runs'["cron"] = runs["cron"] /\ streak' = streak
      BY <1>1, <1>2, <1>5 DEF Worker!Runs
    <2>2. Pending' <=> Pending
      BY <1>1, <2>1 DEF Pending
    <2>3. UNCHANGED <<clock, kv, streak>>
      BY <1>1, <2>1
    <2> QED
      BY <1>3, <2>2, <2>3, StreakStays
  <1> QED
    BY <1>3, <1>4, <1>5

\* A run that nobody overtook keeps what is known, and renews its own batch.
LEMMA OutcomeKeeps ==
    ASSUME BoardRunsInv, NEW r \in Worker!Runs, runs[r].at = "probing", ~runs[r].late,
           NEW found \in [Worker!Selected(runs[r]) -> {"unverified", "available", "unavailable"}],
           NEW b, NEW a \in Nat, a <= 9, Within(b, a), b = runs[r].batch => runs[r].age <= a,
           NEW m \in Models, Place[m] % 2 = b
    PROVE  /\ Worker!Outcome(runs[r], found, m).v \in Worker!Verdicts
           /\ Worker!Outcome(runs[r], found, m).age <= a
  <1> DEFINE x == runs[r]
  <1>1. kv.models[m] \in BoardEntries /\ x \in BoardRuns
    BY DEF BoardRunsInv
  <1>2. kv.models[m].v \in Worker!Verdicts /\ kv.models[m].age <= a
    BY DEF Within
  <1>3. Worker!Recent(kv.models[m])
    BY <1>1, <1>2 DEF Worker!Recent, Worker!Verdicts, Worker!Slot, BoardEntries
  <1>4. x.prior[m] = kv.models[m]
    BY <1>3 DEF BoardRunsInv
  <1> HIDE DEF x
  <1>5. CASE m \notin Worker!Selected(x) \/ found[m] = "unverified"
    BY <1>2, <1>4, <1>5 DEF Worker!Outcome, x
  <1>6. CASE m \in Worker!Selected(x) /\ found[m] # "unverified"
    <2>1. found[m] \in Worker!Verdicts
      BY <1>6 DEF Worker!Verdicts, x
    <2>2. x.batch = b /\ x.age <= a
      BY <1>6 DEF Worker!Selected, Worker!Batches, x
    <2>3. Worker!Outcome(x, found, m) = [v |-> found[m], age |-> x.age]
      BY <1>6 DEF Worker!Outcome
    <2> QED
      BY <2>1, <2>2, <2>3 DEF x
  <1> QED
    BY <1>5, <1>6

LEMMA OutcomeType ==
    ASSUME BoardRunsInv, NEW r \in Worker!Runs,
           NEW found \in [Worker!Selected(runs[r]) -> {"unverified", "available", "unavailable"}],
           NEW m \in Models
    PROVE  Worker!Outcome(runs[r], found, m) \in BoardEntries
  <1>1. runs[r] \in BoardRuns /\ runs[r].age \in Nat /\ runs[r].prior[m] \in BoardEntries
    BY DEF BoardRunsInv, BoardRuns
  <1>2. m \in Worker!Selected(runs[r]) => [v |-> found[m], age |-> runs[r].age] \in BoardEntries
    BY <1>1 DEF BoardEntries, BoardVerdicts
  <1> QED
    BY <1>1, <1>2 DEF Worker!Outcome

LEMMA BoardPutKeeps ==
    ASSUME BoardRunsInv, StreakInv, NEW r \in Worker!Runs, Worker!Put(r)
    PROVE  BoardRunsInv' /\ StreakInv'
  <1> DEFINE V == {"unverified", "available", "unavailable"}
             x == runs[r]
  <1>1. runs[r].at = "probing" /\ UNCHANGED <<clock, due>>
    BY DEF Worker!Put
  <1>2. runs' = [k \in Worker!Runs |-> IF k = r THEN Worker!NoRun
                   ELSE [runs[k] EXCEPT !.late = (runs[k].at = "probing")]]
    BY Zenon DEF Worker!Put
  <1>3. \A p \in Worker!Probes : Worker!Verdict(p) \in V
    BY DEF Worker!Probes, Worker!Verdict
  <1>4. {Worker!Verdict(p) : p \in Worker!Probes} \subseteq V
    BY <1>3
  <1>5. PICK found \in [Worker!Selected(runs[r]) -> {Worker!Verdict(p) : p \in Worker!Probes}] :
          /\ kv' = [have |-> TRUE, age |-> runs[r].age,
                    models |-> [m \in Models |-> Worker!Outcome(runs[r], found, m)]]
          /\ streak' = IF runs[r].late \/ \E m \in DOMAIN found : found[m] = "unverified" /\ r = "cron"
                       THEN 0 ELSE IF r = "cron" THEN Worker!Min2(streak + 1, 2) ELSE streak
    BY Zenon DEF Worker!Put
  <1>6. found \in [Worker!Selected(runs[r]) -> V]
    BY <1>4
  <1>7. streak \in 0..2 /\ due \in BOOLEAN /\ runs \in [Worker!Runs -> BoardRuns] /\ clock \in 0..5
        /\ x \in BoardRuns /\ x.age \in 0..2 /\ x.batch \in {0, 1}
    BY DEF BoardRunsInv, BoardRuns
  <1>8. InSlot' = InSlot /\ ThisBatch' = ThisBatch /\ InSlot \in 0..2 /\ ThisBatch \in {0, 1}
    BY <1>1, BoardClock DEF InSlot, ThisBatch
  <1> DEFINE f == [m \in Models |-> Worker!Outcome(runs[r], found, m)]
  <1>9. f \in [Models -> BoardEntries]
    BY <1>6, OutcomeType
  <1>10. kv' \in [have : BOOLEAN, age : Nat, models : [Models -> BoardEntries]] /\ kv'.have
         /\ kv'.models = f
    BY <1>5, <1>7, <1>9
  \* The other runs were overtaken.
  <1>11. ASSUME NEW q \in Worker!Runs
         PROVE  /\ runs'[q] \in BoardRuns
                /\ q = r => runs'[q].at = "none"
                /\ q # r => /\ runs'[q].at = runs[q].at /\ runs'[q].age = runs[q].age
                            /\ runs'[q].batch = runs[q].batch
                            /\ runs[q].at = "probing" => runs'[q].late
    <2>1. CASE q = r
      BY <1>2, <2>1, BoardNoRun
    <2>2. CASE q # r
      <3>1. runs'[q] = [runs[q] EXCEPT !.late = (runs[q].at = "probing")]
        BY <1>2, <2>2
      <3>2. runs[q] \in BoardRuns
        BY <1>7
      <3>3. (runs[q].at = "probing") \in BOOLEAN
        OBVIOUS
      <3>4. ASSUME NEW y \in BoardRuns, NEW l \in BOOLEAN, NEW z, z = [y EXCEPT !.late = l]
            PROVE  z \in BoardRuns /\ z.at = y.at /\ z.age = y.age /\ z.batch = y.batch /\ z.late = l
        BY <3>4 DEF BoardRuns
      <3>5. /\ runs'[q] \in BoardRuns /\ runs'[q].at = runs[q].at /\ runs'[q].age = runs[q].age
            /\ runs'[q].batch = runs[q].batch /\ runs'[q].late = (runs[q].at = "probing")
        BY ONLY <3>1, <3>2, <3>3, <3>4, Zenon
      <3> QED
        BY <2>2, <3>5
    <2> QED
      BY <2>1, <2>2
  <1>12. runs' \in [Worker!Runs -> BoardRuns]
    <2>1. runs' = [q \in Worker!Runs |-> runs'[q]]
      BY <1>2
    <2> QED
      BY ONLY <1>11, <2>1
  <1>13. "cron" \in Worker!Runs
    BY DEF Worker!Runs
  <1>14. streak' \in 0..2
    BY <1>5, <1>7 DEF Worker!Min2
  <1>15. BoardRunsInv'
    <2>1. ASSUME NEW q \in Worker!Runs, runs'[q].at = "probing"
          PROVE  /\ runs'[q].batch = (IF runs'[q].age <= InSlot' THEN ThisBatch' ELSE 1 - ThisBatch')
                 /\ runs'[q].late
      <3>1. q # r
        BY <1>11, <2>1
      <3>2. runs[q].at = "probing" /\ runs'[q].age = runs[q].age /\ runs'[q].batch = runs[q].batch
            /\ runs'[q].late
        BY <1>11, <2>1, <3>1
      <3> QED
        BY <1>8, <3>2 DEF BoardRunsInv
    <2>2. /\ runs'["cron"].at \in {"none", "probing"}
          /\ runs'["cron"].at = "probing" => runs["cron"].at = "probing" /\ runs'["cron"].age = runs["cron"].age
      BY <1>11, <1>13 DEF BoardRunsInv
    <2>3. /\ due' => InSlot' = 0 /\ runs'["cron"].at # "probing"
          /\ runs'["cron"].at = "probing" => runs'["cron"].age = InSlot'
      BY <1>1, <1>8, <2>2 DEF BoardRunsInv
    <2> QED
      BY <1>1, <1>7, <1>10, <1>12, <1>14, <2>1, <2>2, <2>3 DEF BoardRunsInv
  <1> DEFINE Then(b, a) == \A m \in Models : Place[m] % 2 = b =>
                             kv'.models[m].v \in Worker!Verdicts /\ kv'.models[m].age <= a
  <1>16. ASSUME NEW b, NEW a \in Nat, a <= 9, Within(b, a), b = x.batch => x.age <= a, ~x.late
         PROVE  Then(b, a)
    <2>1. ASSUME NEW m \in Models, Place[m] % 2 = b
          PROVE  f[m].v \in Worker!Verdicts /\ f[m].age <= a
      BY <1>1, <1>6, <1>16, <2>1, OutcomeKeeps
    <2> QED
      BY <1>10, <2>1
  <1>17. /\ Then(ThisBatch', InSlot') => Within(ThisBatch, InSlot)'
         /\ Then(ThisBatch', InSlot' + 6) => Within(ThisBatch, InSlot + 6)'
         /\ Then(1 - ThisBatch', InSlot' + 3) => Within(1 - ThisBatch, InSlot + 3)'
    BY DEF Within
  <1>18. StreakInv'
    <2>1. CASE streak' < 1
      BY <1>14, <2>1 DEF StreakInv
    <2>2. CASE streak' >= 1 /\ r # "cron"
      <3>1. streak' = streak /\ ~x.late
        BY <1>5, <2>2
      <3>2. Pending' <=> Pending
        BY <1>1, <1>11, <1>13, <2>2 DEF Pending
      <3>3. x.batch = ThisBatch => x.age <= InSlot
        BY <1>1, <1>7, <1>8 DEF BoardRunsInv
      <3>4. CASE Pending
        <4>1. Within(1 - ThisBatch, InSlot + 3) /\ (streak = 2 => Within(ThisBatch, InSlot + 6))
          BY <1>7, <2>2, <3>1, <3>4 DEF StreakInv
        <4>2. Then(1 - ThisBatch, InSlot + 3)
          BY <1>7, <1>8, <1>16, <3>1, <4>1
        <4>3. streak = 2 => Then(ThisBatch, InSlot + 6)
          BY <1>7, <1>8, <1>16, <3>1, <4>1
        <4> HIDE DEF Then
        <4> QED
          BY <1>8, <1>17, <3>1, <3>2, <3>4, <4>2, <4>3 DEF StreakInv
      <3>5. CASE ~Pending
        <4>1. Within(ThisBatch, InSlot) /\ (streak = 2 => Within(1 - ThisBatch, InSlot + 3))
          BY <1>7, <2>2, <3>1, <3>5 DEF StreakInv
        <4>2. Then(ThisBatch, InSlot)
          BY <1>7, <1>8, <1>16, <3>1, <3>3, <4>1
        <4>3. streak = 2 => Then(1 - ThisBatch, InSlot + 3)
          BY <1>7, <1>8, <1>16, <3>1, <4>1
        <4> HIDE DEF Then
        <4> QED
          BY <1>8, <1>17, <3>1, <3>2, <3>5, <4>2, <4>3 DEF StreakInv
      <3> QED
        BY <3>4, <3>5
    <2>3. CASE streak' >= 1 /\ r = "cron"
      <3>1. /\ ~x.late /\ streak' = Worker!Min2(streak + 1, 2)
            /\ \A m \in DOMAIN found : found[m] # "unverified"
        BY <1>5, <2>3
      <3>2. Pending /\ ~Pending' /\ x.age = InSlot /\ x.batch = ThisBatch
        BY <1>1, <1>7, <1>8, <1>11, <1>13, <2>3 DEF Pending, BoardRunsInv
      <3>3. Then(ThisBatch, InSlot)
        <4>1. ASSUME NEW m \in Models, Place[m] % 2 = ThisBatch
              PROVE  f[m].v \in Worker!Verdicts /\ f[m].age <= InSlot
          <5>1. m \in Worker!Selected(x)
            BY <3>2, <4>1 DEF Worker!Selected, Worker!Batches
          <5>2. found[m] # "unverified" /\ found[m] \in Worker!Verdicts
            BY <1>6, <3>1, <5>1 DEF Worker!Verdicts
          <5>3. f[m] = [v |-> found[m], age |-> x.age]
            BY <5>1, <5>2 DEF Worker!Outcome
          <5> QED
            BY <1>8, <3>2, <5>2, <5>3
        <4> QED
          BY <1>10, <4>1
      <3>4. streak' = 2 => Then(1 - ThisBatch, InSlot + 3)
        <4>1. streak' = 2 => streak >= 1
          BY <1>7, <3>1 DEF Worker!Min2
        <4>2. streak' = 2 => Within(1 - ThisBatch, InSlot + 3)
          BY <3>2, <4>1 DEF StreakInv
        <4> QED
          BY <1>7, <1>8, <1>16, <3>1, <4>2
      <3> HIDE DEF Then
      <3> QED
        BY <1>8, <1>17, <2>3, <3>2, <3>3, <3>4 DEF StreakInv
    <2> QED
      BY <1>14, <2>1, <2>2, <2>3
  <1> QED
    BY <1>15, <1>18

LEMMA BoardNextKeeps ==
    ASSUME BoardRunsInv, StreakInv, [Worker!Next]_(Worker!vars) PROVE BoardRunsInv' /\ StreakInv'
  <1>1. CASE UNCHANGED Worker!vars
    <2>1. UNCHANGED <<clock, due, kv, runs, streak>>
      BY <1>1 DEF Worker!vars
    <2>2. (Pending' <=> Pending) /\ InSlot' = InSlot /\ ThisBatch' = ThisBatch
      BY <2>1 DEF Pending, InSlot, ThisBatch
    <2>3. StreakInv'
      BY <2>1, <2>2, StreakStays
    <2> QED
      BY <2>1, <2>2, <2>3 DEF BoardRunsInv
  <1> QED
    BY <1>1, BoardTickKeeps, BoardBeginKeeps, BoardPutKeeps, BoardFailKeeps DEF Worker!Next

\* Two good cron runs in a row, not overlapped by another, bring every model back on the page,
\* until one is missed, fails or is throttled, whatever the visits start in between:
\* buildServerSnapshot and mergeServerStatus.
THEOREM WorkerTwoRoundsShowAll == Spec => []TwoGoodRunsShowAll
  <1>1. Init => BoardRunsInv /\ StreakInv
    BY BoardInit DEF Init
  <1>2. BoardRunsInv /\ StreakInv /\ [Next]_vars => BoardRunsInv' /\ StreakInv'
    BY BoardNextKeeps, WorkerSteps
  <1>3. BoardRunsInv /\ StreakInv => TwoGoodRunsShowAll
    BY BoardShows DEF TwoGoodRunsShowAll
  <1> QED
    BY <1>1, <1>2, <1>3, PTL DEF Spec

-----------------------------------------------------------------------------
(* RouteSwitch: the routes a user went through                             *)

AnyRoute == SwitchRoutes \cup {FirstRoute}
SwitchEntries == [from : AnyRoute, to : AnyRoute, kind : {"switch", "rollback"}]
SwitchTraces == [from : AnyRoute, to : AnyRoute, status : {"ok", "failed"},
                 kind : {"switch", "rollback"}]

\* An offer has a route of the table when it is of a switch; the traces that went well
\* lead to the route in use.
SwitchInv ==
  /\ route \in AnyRoute
  /\ offer \in [action : {"switch", "rollback", Switch!None}, target : AnyRoute \cup {Switch!None},
                confirmed : BOOLEAN]
  /\ offer.action = "switch" => offer.target \in SwitchRoutes
  /\ stack \in Seq(SwitchEntries) /\ traces \in Seq(SwitchTraces)
  /\ Switch!TracesTellTheRoute

\* What an entry of the history adds to the chain, and a trace to those that went well.
LeftBehind == [x \in SwitchEntries |-> IF x.kind # "rollback" THEN <<x.from>> ELSE <<>>]
WentWell == [x \in SwitchTraces |-> IF x.status = "ok" THEN <<x>> ELSE <<>>]

LEMMA SwitchMaps ==
  /\ LeftBehind \in [SwitchEntries -> Seq(AnyRoute)]
  /\ WentWell \in [SwitchTraces -> Seq(SwitchTraces)]
  <1>1. ASSUME NEW x \in SwitchEntries PROVE LeftBehind[x] \in Seq(AnyRoute)
    BY DEF LeftBehind, SwitchEntries
  <1>2. ASSUME NEW x \in SwitchTraces PROVE WentWell[x] \in Seq(SwitchTraces)
    BY DEF WentWell
  <1> QED
    BY <1>1, <1>2 DEF LeftBehind, WentWell

LEMMA LeftGrows ==
  \A s \in Seq(SwitchEntries), e \in SwitchEntries :
    /\ Mapped(s, LeftBehind) \in Seq(AnyRoute)
    /\ Mapped(Append(s, e), LeftBehind) = Mapped(s, LeftBehind) \o LeftBehind[e]
  <1> SUFFICES ASSUME NEW s \in Seq(SwitchEntries), NEW e \in SwitchEntries
               PROVE  /\ Mapped(s, LeftBehind) \in Seq(AnyRoute)
                      /\ Mapped(Append(s, e), LeftBehind) = Mapped(s, LeftBehind) \o LeftBehind[e]
    OBVIOUS
  <1>1. LeftBehind \in [SwitchEntries -> Seq(AnyRoute)]
    BY SwitchMaps
  <1>2. Mapped(s, LeftBehind) \in Seq(AnyRoute)
    BY ONLY <1>1, s \in Seq(SwitchEntries), MappedType
  <1>3. Mapped(Append(s, e), LeftBehind) = Mapped(s, LeftBehind) \o LeftBehind[e]
    BY ONLY <1>1, s \in Seq(SwitchEntries), e \in SwitchEntries, MappedAppend
  <1> QED
    BY <1>2, <1>3

LEMMA GoodGrows ==
  \A s \in Seq(SwitchTraces), e \in SwitchTraces :
    /\ Mapped(s, WentWell) \in Seq(SwitchTraces)
    /\ Mapped(Append(s, e), WentWell) = Mapped(s, WentWell) \o WentWell[e]
  <1> SUFFICES ASSUME NEW s \in Seq(SwitchTraces), NEW e \in SwitchTraces
               PROVE  /\ Mapped(s, WentWell) \in Seq(SwitchTraces)
                      /\ Mapped(Append(s, e), WentWell) = Mapped(s, WentWell) \o WentWell[e]
    OBVIOUS
  <1>1. WentWell \in [SwitchTraces -> Seq(SwitchTraces)]
    BY SwitchMaps
  <1>2. Mapped(s, WentWell) \in Seq(SwitchTraces)
    BY ONLY <1>1, s \in Seq(SwitchTraces), MappedType
  <1>3. Mapped(Append(s, e), WentWell) = Mapped(s, WentWell) \o WentWell[e]
    BY ONLY <1>1, s \in Seq(SwitchTraces), e \in SwitchTraces, MappedAppend
  <1> QED
    BY <1>2, <1>3

LEMMA LeftIsMapped == stack \in Seq(SwitchEntries) => Switch!Left = Mapped(stack, LeftBehind)
  <1> SUFFICES ASSUME stack \in Seq(SwitchEntries) PROVE Switch!Left = Mapped(stack, LeftBehind)
    OBVIOUS
  <1>1. \A k \in DOMAIN stack : stack[k] \in SwitchEntries
    BY LenProperties, ElementOfSeq
  <1>2. [k \in DOMAIN stack |-> IF stack[k].kind # "rollback" THEN <<stack[k].from>> ELSE <<>>]
          = [k \in DOMAIN stack |-> LeftBehind[stack[k]]]
    BY <1>1 DEF LeftBehind
  <1>3. Switch!Left = FlattenSeq([k \in DOMAIN stack |->
                        IF stack[k].kind # "rollback" THEN <<stack[k].from>> ELSE <<>>])
    BY Zenon DEF Switch!Left, Switch!FlattenSeq, FlattenSeq
  <1> QED
    BY <1>2, <1>3 DEF Mapped

LEMMA GoodIsMapped == traces \in Seq(SwitchTraces) => Switch!Good = Mapped(traces, WentWell)
  <1> SUFFICES ASSUME traces \in Seq(SwitchTraces) PROVE Switch!Good = Mapped(traces, WentWell)
    OBVIOUS
  <1>1. \A k \in DOMAIN traces : traces[k] \in SwitchTraces
    BY LenProperties, ElementOfSeq
  <1>2. [k \in DOMAIN traces |-> IF traces[k].status = "ok" THEN <<traces[k]>> ELSE <<>>]
          = [k \in DOMAIN traces |-> WentWell[traces[k]]]
    BY <1>1 DEF WentWell
  <1>3. Switch!Good = FlattenSeq([k \in DOMAIN traces |->
                        IF traces[k].status = "ok" THEN <<traces[k]>> ELSE <<>>])
    BY Zenon DEF Switch!Good, Switch!FlattenSeq, FlattenSeq
  <1> QED
    BY <1>2, <1>3 DEF Mapped

LEMMA SwitchInit == Switch!Init => SwitchInv
  <1> SUFFICES ASSUME Switch!Init PROVE SwitchInv
    OBVIOUS
  <1>1. Switch!Good = <<>>
    BY GoodIsMapped, MappedEmpty DEF Switch!Init
  <1> QED
    BY <1>1 DEF SwitchInv, Switch!Init, Switch!NoOffer, Switch!None, Switch!TracesTellTheRoute, AnyRoute

\* A move that went well is the next one of those that did.
LEMMA MoveIsTraced ==
  ASSUME SwitchInv, NEW to \in AnyRoute, NEW kind \in {"switch", "rollback"}, route' = to,
         traces' = Append(traces, Switch!Trace(to, "ok", kind))
  PROVE  traces' \in Seq(SwitchTraces) /\ Switch!TracesTellTheRoute'
  <1> DEFINE tr == Switch!Trace(to, "ok", kind)
             g == Switch!Good
  <1>1. tr \in SwitchTraces /\ tr.from = route /\ tr.to = to /\ tr.status = "ok"
    BY DEF SwitchInv, SwitchTraces, Switch!Trace
  <1> HIDE DEF tr
  <1>2. traces \in Seq(SwitchTraces) /\ traces' \in Seq(SwitchTraces) /\ traces' = Append(traces, tr)
    BY <1>1, AppendProperties DEF SwitchInv, tr
  <1>3. g = Mapped(traces, WentWell) /\ g \in Seq(SwitchTraces)
    BY <1>1, <1>2, GoodIsMapped, GoodGrows
  <1>4. Switch!Good' = Mapped(traces', WentWell)
    <2>1. (traces \in Seq(SwitchTraces) => Switch!Good = Mapped(traces, WentWell))'
      BY GoodIsMapped, PTL
    <2> QED
      BY <1>2, <2>1
  <1>5. Mapped(traces', WentWell) = Mapped(traces, WentWell) \o WentWell[tr]
    BY <1>1, <1>2, GoodGrows
  <1>6. WentWell[tr] = <<tr>>
    BY <1>1 DEF WentWell
  <1>7. Switch!Good' = Append(g, tr)
    BY <1>1, <1>3, <1>4, <1>5, <1>6, AppendIsConcat
  <1>8. /\ g # <<>> => g[1].from = FirstRoute /\ g[Len(g)].to = route
        /\ g = <<>> => route = FirstRoute
        /\ \A k \in 1..(Len(g) - 1) : g[k].to = g[k + 1].from
    BY DEF SwitchInv, Switch!TracesTellTheRoute, Switch!Last
  <1> DEFINE h == Switch!Good'
             n == Len(g)
  <1>9. /\ n \in Nat /\ Len(h) = n + 1 /\ h[n + 1] = tr /\ h # <<>>
        /\ \A k \in 1..n : h[k] = g[k]
        /\ g = <<>> <=> n = 0
    <2> HIDE DEF g
    <2> QED
      BY <1>1, <1>3, <1>7, AppendProperties, LenProperties, EmptySeq
  <1> HIDE DEF g, h, n
  <1>10. h[1].from = FirstRoute
    <2>1. CASE n = 0
      BY <1>1, <1>8, <1>9, <2>1
    <2>2. CASE n # 0
      <3>1. 1 \in 1..n /\ g # <<>>
        BY <1>9, <2>2
      <3> QED
        BY <1>8, <1>9, <3>1
    <2> QED
      BY <2>1, <2>2
  <1>11. ASSUME NEW k \in 1..(Len(h) - 1) PROVE h[k].to = h[k + 1].from
    <2>1. CASE k = n
      <3>1. n \in 1..n /\ g # <<>> /\ h[n] = g[n]
        BY <1>9, <2>1
      <3>2. g[n].to = route
        BY <1>8, <3>1 DEF n
      <3> QED
        BY <1>1, <1>9, <2>1, <3>1, <3>2
    <2>2. CASE k # n
      <3>1. k \in 1..n /\ k + 1 \in 1..n /\ k \in 1..(n - 1)
        BY <1>9, <2>2
      <3>2. g[k].to = g[k + 1].from
        BY <1>8, <3>1 DEF n
      <3> QED
        BY <1>9, <3>1, <3>2
    <2> QED
      BY <2>1, <2>2
  <1>12. h[Len(h)].to = route'
    BY <1>1, <1>9
  <1>13. (/\ h # <<>> => h[1].from = FirstRoute /\ h[Len(h)].to = route'
          /\ h = <<>> => route' = FirstRoute
          /\ \A k \in 1..(Len(h) - 1) : h[k].to = h[k + 1].from)
         => Switch!TracesTellTheRoute'
    BY Zenon DEF h, Switch!TracesTellTheRoute, Switch!Last
  <1> QED
    BY <1>2, <1>9, <1>10, <1>11, <1>12, <1>13

\* A failed move is traced and counts for nothing.
LEMMA FailureIsTraced ==
  ASSUME SwitchInv, NEW to \in AnyRoute, NEW kind \in {"switch", "rollback"}, route' = route,
         traces' = Append(traces, Switch!Trace(to, "failed", kind))
  PROVE  traces' \in Seq(SwitchTraces) /\ Switch!TracesTellTheRoute'
  <1> DEFINE tr == Switch!Trace(to, "failed", kind)
  <1>1. tr \in SwitchTraces /\ tr.status = "failed"
    BY DEF SwitchInv, SwitchTraces, Switch!Trace
  <1> HIDE DEF tr
  <1>2. traces \in Seq(SwitchTraces) /\ traces' \in Seq(SwitchTraces) /\ traces' = Append(traces, tr)
    BY <1>1, AppendProperties DEF SwitchInv, tr
  <1>3. Switch!Good = Mapped(traces, WentWell) /\ Switch!Good \in Seq(SwitchTraces)
    BY <1>1, <1>2, GoodIsMapped, GoodGrows
  <1>4. Switch!Good' = Mapped(traces', WentWell)
    <2>1. (traces \in Seq(SwitchTraces) => Switch!Good = Mapped(traces, WentWell))'
      BY GoodIsMapped, PTL
    <2> QED
      BY <1>2, <2>1
  <1>5. Mapped(traces', WentWell) = Mapped(traces, WentWell) \o WentWell[tr]
    BY <1>1, <1>2, GoodGrows
  <1>6. WentWell[tr] = <<>>
    BY <1>1 DEF WentWell
  <1>7. Switch!Good' = Switch!Good
    BY <1>3, <1>4, <1>5, <1>6, ConcatEmptySeq
  <1> QED
    BY <1>2, <1>7 DEF SwitchInv, Switch!TracesTellTheRoute

LEMMA SwitchMoves ==
  ASSUME SwitchInv, Switch!Switch
  PROVE  SwitchInv' /\ [Switch!Chain!Next]_(Append(Switch!Left, route))
  <1> DEFINE e == Switch!Entry(offer.target, "switch")
             c == Append(Switch!Left, route)
  <1>1. offer.target \in SwitchRoutes /\ offer.target \in AnyRoute
    BY DEF SwitchInv, Switch!Switch, AnyRoute
  <1>2. SwitchInv!2' /\ SwitchInv!3'
    BY DEF SwitchInv, Switch!Switch, Switch!NoOffer, Switch!None
  <1>3. e \in SwitchEntries /\ e.from = route /\ e.kind = "switch"
    BY <1>1 DEF SwitchInv, SwitchEntries, Switch!Entry
  <1>4. Switch!Left = Mapped(stack, LeftBehind) /\ Switch!Left \in Seq(AnyRoute)
        /\ stack \in Seq(SwitchEntries) /\ route \in AnyRoute
    BY <1>3, LeftIsMapped, LeftGrows DEF SwitchInv
  <1>5. stack' \in Seq(SwitchEntries) => Switch!Left' = Mapped(stack', LeftBehind)
    <2>1. (stack \in Seq(SwitchEntries) => Switch!Left = Mapped(stack, LeftBehind))'
      BY LeftIsMapped, PTL
    <2> QED
      BY <2>1
  <1>6. CASE /\ route' = offer.target
             /\ traces' = Append(traces, Switch!Trace(offer.target, "ok", "switch"))
             /\ stack' = Append(stack, e)
    <2>1. traces' \in Seq(SwitchTraces) /\ Switch!TracesTellTheRoute'
      BY <1>1, <1>6, MoveIsTraced
    <2>2. stack' \in Seq(SwitchEntries)
      BY <1>3, <1>4, <1>6, AppendProperties
    <2>3. SwitchInv'
      BY <1>1, <1>2, <1>6, <2>1, <2>2 DEF SwitchInv
    <2>4. Switch!Left' = Switch!Left \o LeftBehind[e]
      BY <1>3, <1>4, <1>5, <1>6, <2>2, LeftGrows
    <2>5. LeftBehind[e] = <<route>>
      BY <1>3 DEF LeftBehind
    <2>6. Switch!Left' = c
      BY <1>4, <2>4, <2>5, AppendIsConcat
    <2>7. c' = Append(c, offer.target)
      BY <1>6, <2>6
    <2> QED
      BY <1>1, <2>3, <2>7 DEF Switch!Chain!Next, Switch!Chain!Switch
  <1>7. CASE Switch!Failed(offer.target) /\ UNCHANGED stack
    <2>1. route' = route /\ traces' = Append(traces, Switch!Trace(offer.target, "failed", "switch"))
      BY <1>7 DEF Switch!Failed
    <2>2. traces' \in Seq(SwitchTraces) /\ Switch!TracesTellTheRoute'
      BY <1>1, <2>1, FailureIsTraced
    <2>3. SwitchInv'
      BY <1>2, <1>4, <1>7, <2>1, <2>2 DEF SwitchInv
    <2>4. UNCHANGED c
      BY <1>4, <1>5, <1>7, <2>1
    <2> QED
      BY <2>3, <2>4
  <1> QED
    BY <1>6, <1>7 DEF Switch!Switch

\* The entries that undo looks past are those of earlier undos.
LEMMA UndoneAtTheEnd ==
  ASSUME stack \in Seq(SwitchEntries)
  PROVE  \E n \in 0..Len(stack) :
           /\ Switch!WithoutUndone = SubSeq(stack, 1, n)
           /\ \A k \in (n + 1)..Len(stack) : stack[k].kind = "rollback"
           /\ n # 0 => stack[n].kind # "rollback"
  <1> DEFINE live == {k \in DOMAIN stack : stack[k].kind # "rollback"}
  <1>1. Len(stack) \in Nat /\ DOMAIN stack = 1..Len(stack)
    BY LenProperties
  <1>2. CASE live = {}
    <2>1. Switch!WithoutUndone = SubSeq(stack, 1, 0)
      BY Zenon, <1>2 DEF Switch!WithoutUndone
    <2>2. \A k \in (0 + 1)..Len(stack) : stack[k].kind = "rollback"
      BY <1>1, <1>2
    <2>3. 0 \in 0..Len(stack)
      BY <1>1
    <2> QED
      BY Zenon, <2>1, <2>2, <2>3
  <1>3. CASE live # {}
    <2> DEFINE n == CHOOSE k \in live : \A j \in live : j <= k
    <2>1. \E k \in live : \A j \in live : j <= k
      <3>1. live \in SUBSET (1..Len(stack))
        BY <1>1
      <3> HIDE DEF live
      <3> QED
        BY <1>1, <1>3, <3>1, LastOfPlaces
    <2>2. n \in live /\ \A j \in live : j <= n
      BY Zenon, <2>1
    <2>3. Switch!WithoutUndone = SubSeq(stack, 1, n)
      BY Zenon, <1>3 DEF Switch!WithoutUndone
    <2> HIDE DEF n
    <2>4. n \in 1..Len(stack) /\ n \in 0..Len(stack) /\ stack[n].kind # "rollback"
      BY <1>1, <2>2
    <2>5. ASSUME NEW k \in (n + 1)..Len(stack) PROVE stack[k].kind = "rollback"
      <3>1. k \in 1..Len(stack) /\ ~(k <= n)
        BY <1>1, <2>4
      <3>2. k \notin live
        BY <2>2, <3>1
      <3> QED
        BY <1>1, <3>1, <3>2
    <2> QED
      BY Zenon, <2>3, <2>4, <2>5
  <1> QED
    BY <1>2, <1>3

\* Entries of earlier undos leave the chain as it is.
LEMMA LeftWithoutUndone ==
  ASSUME stack \in Seq(SwitchEntries), NEW n \in 0..Len(stack),
         \A k \in (n + 1)..Len(stack) : stack[k].kind = "rollback"
  PROVE  /\ SubSeq(stack, 1, n) \in Seq(SwitchEntries)
         /\ Mapped(SubSeq(stack, 1, n), LeftBehind) = Mapped(stack, LeftBehind)
  <1>1. SubSeq(stack, 1, n) \in Seq(SwitchEntries)
    OBVIOUS
  <1>2. ASSUME NEW k \in (n + 1)..Len(stack) PROVE LeftBehind[stack[k]] = <<>>
    <2>1. k \in 1..Len(stack)
      BY LenProperties
    <2>2. stack[k] \in SwitchEntries
      BY <2>1, ElementOfSeq
    <2> QED
      BY <2>2 DEF LeftBehind
  <1>3. LeftBehind \in [SwitchEntries -> Seq(AnyRoute)]
    BY SwitchMaps
  <1>4. \A m \in 0..Len(stack) : (\A k \in (m + 1)..Len(stack) : LeftBehind[stack[k]] = <<>>)
          => Mapped(SubSeq(stack, 1, m), LeftBehind) = Mapped(stack, LeftBehind)
    BY ONLY <1>3, stack \in Seq(SwitchEntries), MappedTail
  <1> QED
    BY <1>1, <1>2, <1>4

LEMMA SwitchUndoes ==
  ASSUME SwitchInv, Switch!Undo
  PROVE  SwitchInv' /\ [Switch!Chain!Next]_(Append(Switch!Left, route))
  <1> DEFINE h == Switch!WithoutUndone
             target == h[Len(h)].from
             rolled == [h[Len(h)] EXCEPT !.kind = "rollback"]
             back == Switch!Entry(target, "rollback")
             c == Append(Switch!Left, route)
  <1>1. SwitchInv!2' /\ SwitchInv!3'
    BY DEF SwitchInv, Switch!Undo, Switch!NoOffer, Switch!None
  <1>2. stack \in Seq(SwitchEntries) /\ traces \in Seq(SwitchTraces) /\ route \in AnyRoute
    BY DEF SwitchInv
  <1>3. PICK n \in 0..Len(stack) :
          /\ h = SubSeq(stack, 1, n)
          /\ \A k \in (n + 1)..Len(stack) : stack[k].kind = "rollback"
          /\ n # 0 => stack[n].kind # "rollback"
    BY Zenon, <1>2, UndoneAtTheEnd
  <1>4. h \in Seq(SwitchEntries) /\ Mapped(h, LeftBehind) = Mapped(stack, LeftBehind)
    BY <1>2, <1>3, LeftWithoutUndone
  <1>5. Switch!Left = Mapped(h, LeftBehind)
    BY <1>2, <1>4, LeftIsMapped
  <1>6. stack' \in Seq(SwitchEntries) => Switch!Left' = Mapped(stack', LeftBehind)
    <2>1. (stack \in Seq(SwitchEntries) => Switch!Left = Mapped(stack, LeftBehind))'
      BY LeftIsMapped, PTL
    <2> QED
      BY <2>1
  <1>7. h # <<>> => Len(h) = n /\ h[Len(h)] = stack[n] /\ n # 0
    <2>1. Len(stack) \in Nat /\ Len(SubSeq(stack, 1, n)) = n
          /\ (n # 0 => SubSeq(stack, 1, n)[n] = stack[n])
      BY <1>2, LenProperties
    <2> HIDE DEF h
    <2>2. h # <<>> => Len(h) # 0
      BY <1>4, EmptySeq
    <2> QED
      BY <1>3, <2>1, <2>2
  <1>8. \/ h = <<>> /\ stack' = h /\ UNCHANGED <<route, traces>>
        \/ /\ h # <<>>
           /\ stack' = Append(Switch!Front(h) \o <<rolled>>, back)
           /\ route' = target
           /\ traces' = Append(traces, Switch!Trace(target, "ok", "rollback"))
        \/ h # <<>> /\ Switch!Failed(target) /\ stack' = h
    BY Zenon DEF Switch!Undo, Switch!Last
  <1> HIDE DEF h
  <1>9. CASE h = <<>> /\ stack' = h /\ UNCHANGED <<route, traces>>
    <2>1. SwitchInv'
      <3>1. Switch!TracesTellTheRoute'
        BY <1>9 DEF SwitchInv, Switch!TracesTellTheRoute, Switch!Good
      <3> QED
        BY <1>1, <1>2, <1>4, <1>9, <3>1 DEF SwitchInv
    <2>2. UNCHANGED c
      BY <1>4, <1>5, <1>6, <1>9
    <2> QED
      BY <2>1, <2>2
  <1>10. ASSUME h # <<>>
         PROVE  /\ Front(h) \in Seq(SwitchEntries) /\ h[Len(h)] \in SwitchEntries
                /\ h = Append(Front(h), h[Len(h)]) /\ h[Len(h)].kind # "rollback"
                /\ target \in AnyRoute
    <2>1. /\ Front(h) \in Seq(SwitchEntries) /\ h[Len(h)] \in SwitchEntries
          /\ h = Append(Front(h), h[Len(h)])
      BY <1>4, <1>10, FrontAndLast DEF Last
    <2> QED
      BY <1>3, <1>7, <1>10, <2>1 DEF SwitchEntries
  <1>11. CASE h # <<>> /\ Switch!Failed(target) /\ stack' = h
    <2>1. route' = route /\ traces' = Append(traces, Switch!Trace(target, "failed", "switch"))
      BY <1>11 DEF Switch!Failed
    <2>2. traces' \in Seq(SwitchTraces) /\ Switch!TracesTellTheRoute'
      BY <1>10, <1>11, <2>1, FailureIsTraced
    <2>3. SwitchInv'
      BY <1>1, <1>2, <1>4, <1>11, <2>1, <2>2 DEF SwitchInv
    <2>4. UNCHANGED c
      BY <1>4, <1>5, <1>6, <1>11, <2>1
    <2> QED
      BY <2>3, <2>4
  <1>12. CASE /\ h # <<>>
              /\ stack' = Append(Switch!Front(h) \o <<rolled>>, back)
              /\ route' = target
              /\ traces' = Append(traces, Switch!Trace(target, "ok", "rollback"))
    <2> DEFINE f == Front(h)
               l == h[Len(h)]
    <2>1. f \in Seq(SwitchEntries) /\ l \in SwitchEntries /\ h = Append(f, l)
          /\ l.kind # "rollback" /\ target \in AnyRoute /\ target = l.from
      BY <1>10, <1>12
    <2>2. rolled \in SwitchEntries /\ rolled.kind = "rollback"
      BY <2>1 DEF SwitchEntries
    <2>3. back \in SwitchEntries /\ back.kind = "rollback"
      BY <1>2, <2>1 DEF SwitchEntries, Switch!Entry
    <2>4. Switch!Front(h) = f
      BY DEF Switch!Front, Front
    <2> HIDE DEF f, l, rolled, back, target
    <2>5. stack' = Append(Append(f, rolled), back) /\ Append(f, rolled) \in Seq(SwitchEntries)
          /\ stack' \in Seq(SwitchEntries)
      BY <1>12, <2>1, <2>2, <2>3, <2>4, AppendIsConcat, AppendProperties
    <2>6. traces' \in Seq(SwitchTraces) /\ Switch!TracesTellTheRoute'
      BY <1>12, <2>1, MoveIsTraced
    <2>7. SwitchInv'
      BY <1>1, <1>12, <2>1, <2>5, <2>6 DEF SwitchInv
    <2>8. LeftBehind[rolled] = <<>> /\ LeftBehind[back] = <<>> /\ LeftBehind[l] = <<target>>
      BY <2>1, <2>2, <2>3 DEF LeftBehind
    <2> DEFINE m == Mapped(f, LeftBehind)
    <2>9. m \in Seq(AnyRoute)
      BY <2>1, LeftGrows
    <2>10. Switch!Left = m \o <<target>>
      BY <1>5, <2>1, <2>8, LeftGrows
    <2>11. Switch!Left' = (m \o <<>>) \o <<>>
      BY <1>6, <2>1, <2>2, <2>3, <2>5, <2>8, LeftGrows
    <2> HIDE DEF m
    <2>12. Switch!Left' = m /\ Switch!Left = Append(m, target)
      BY <2>1, <2>9, <2>10, <2>11, ConcatEmptySeq, AppendIsConcat
    <2>13. c = Append(Append(m, target), route) /\ c' = Append(m, target)
      BY <1>12, <2>12
    <2>14. Append(m, target) \in Seq(AnyRoute) /\ Len(Append(m, target)) = Len(m) + 1 /\ Len(m) \in Nat
      BY <2>1, <2>9, AppendProperties, LenProperties
    <2>15. Front(c) = c'
      BY <1>2, <2>13, <2>14, FrontOfAppend
    <2>16. Len(c) = (Len(m) + 1) + 1 /\ Len(c) > 1
      BY <1>2, <2>13, <2>14, AppendProperties
    <2>17. Switch!Chain!Undo
      BY <2>15, <2>16 DEF Switch!Chain!Undo, Switch!Chain!Front, Front
    <2> QED
      BY <2>7, <2>17 DEF Switch!Chain!Next
  <1> QED
    BY <1>8, <1>9, <1>11, <1>12

LEMMA SwitchNextKeeps ==
  SwitchInv /\ [Switch!Next]_(Switch!vars)
    => SwitchInv' /\ [Switch!Chain!Next]_(Append(Switch!Left, route))
  <1> SUFFICES ASSUME SwitchInv, [Switch!Next]_(Switch!vars)
               PROVE  SwitchInv' /\ [Switch!Chain!Next]_(Append(Switch!Left, route))
    OBVIOUS
  <1>1. ASSUME UNCHANGED <<route, stack, traces>>,
               SwitchInv!2', SwitchInv!3'
        PROVE  SwitchInv' /\ UNCHANGED Append(Switch!Left, route)
    <2>1. Switch!TracesTellTheRoute'
      BY <1>1 DEF SwitchInv, Switch!TracesTellTheRoute, Switch!Good
    <2>2. UNCHANGED Append(Switch!Left, route)
      BY <1>1 DEF Switch!Left
    <2> QED
      BY <1>1, <2>1, <2>2 DEF SwitchInv
  <1>2. ASSUME NEW target \in SwitchRoutes, Switch!Echo("switch", target)
        PROVE  SwitchInv!2' /\ SwitchInv!3' /\ UNCHANGED <<route, stack, traces>>
    BY <1>2 DEF SwitchInv, Switch!Echo, AnyRoute
  <1>3. ASSUME Switch!Echo("rollback", Switch!None)
        PROVE  SwitchInv!2' /\ SwitchInv!3' /\ UNCHANGED <<route, stack, traces>>
    BY <1>3 DEF SwitchInv, Switch!Echo, Switch!None
  <1>4. ASSUME Switch!Confirm
        PROVE  SwitchInv!2' /\ SwitchInv!3' /\ UNCHANGED <<route, stack, traces>>
    BY <1>4 DEF SwitchInv, Switch!Confirm
  <1>5. ASSUME UNCHANGED Switch!vars
        PROVE  SwitchInv!2' /\ SwitchInv!3' /\ UNCHANGED <<route, stack, traces>>
    BY <1>5 DEF SwitchInv, Switch!vars
  <1> QED
    BY <1>1, <1>2, <1>3, <1>4, <1>5, SwitchMoves, SwitchUndoes DEF Switch!Next

\* Undo goes back through the routes in the order in which they were left, whatever
\* switches, undos and failures of both came before, and the traces that went well
\* lead from the first route to the one in use.
THEOREM UndoGoesBack == Spec => UndoWalksBack
  <1>1. Init => SwitchInv
    BY SwitchInit DEF Init
  <1>2. SwitchInv /\ [Next]_vars => SwitchInv' /\ [Switch!Chain!Next]_(Append(Switch!Left, route))
    BY SwitchSteps, SwitchNextKeeps
  <1>3. Init => Switch!Chain!Init
    <2> SUFFICES ASSUME Switch!Init PROVE Switch!Chain!Init
      BY DEF Init
    <2>1. Switch!Left = <<>>
      BY LeftIsMapped, MappedEmpty DEF Switch!Init
    <2> QED
      BY <2>1 DEF Switch!Chain!Init, Switch!Init
  <1>4. SwitchInv => Switch!TracesTellTheRoute
    BY DEF SwitchInv
  <1> QED
    BY <1>1, <1>2, <1>3, <1>4, PTL DEF Spec, UndoWalksBack, Switch!UndoWalksBack, Switch!Chain!Spec

-----------------------------------------------------------------------------
(* SwapFormat: a stream that a switch may cut off                          *)

\* A stream that was cut off ends with the frames of the switch.
Ending == <<Format!Comment, Format!Abort, Format!Done>>
FormatInv ==
  /\ stream \in Seq(Format!Frames) /\ cut \in BOOLEAN
  /\ cut => \E s \in Seq(Format!Frames) : stream = s \o Ending

LEMMA FramesOfTheSwitch ==
  Format!Comment \in Format!Frames /\ Format!Abort \in Format!Frames /\ Format!Done \in Format!Frames
  <1>1. Format!Abort \in Format!Frames
    <2>1. {} \in Format!Deltas
      BY DEF Format!Deltas
    <2> QED
      BY <2>1 DEF Format!Abort, Format!Frames
  <1> QED
    BY <1>1 DEF Format!Frames

LEMMA FormatInit == Format!Init => FormatInv
  <1>1. <<>> \in Seq(Format!Frames)
    OBVIOUS
  <1> QED
    BY Zenon, <1>1 DEF Format!Init, FormatInv

LEMMA FormatNextKeeps == FormatInv /\ [Format!Next]_(Format!vars) => FormatInv'
  <1> SUFFICES ASSUME FormatInv, [Format!Next]_(Format!vars) PROVE FormatInv'
    OBVIOUS
  <1>1. ASSUME NEW frame \in Format!Frames, Format!Send(frame) PROVE FormatInv'
    <2>1. stream' \in Seq(Format!Frames)
      BY <1>1, AppendProperties DEF FormatInv, Format!Send
    <2> QED
      BY <1>1, <2>1 DEF FormatInv, Format!Send
  <1>2. ASSUME Format!Force PROVE FormatInv'
    <2>1. Ending \in Seq(Format!Frames)
      BY FramesOfTheSwitch DEF Ending
    <2>2. stream' = stream \o Ending /\ cut' = TRUE
      BY <1>2 DEF Format!Force, Ending
    <2>3. stream' \in Seq(Format!Frames)
      BY <2>1, <2>2, ConcatProperties DEF FormatInv
    <2> QED
      BY <2>2, <2>3 DEF FormatInv
  <1>3. ASSUME UNCHANGED Format!vars PROVE FormatInv'
    BY <1>3 DEF FormatInv, Format!vars
  <1> QED
    BY <1>1, <1>2, <1>3 DEF Format!Next

-----------------------------------------------------------------------------
\* What is left of a frame without comments.
DataFrames == {x \in Format!Frames : x.kind # "comment"}
OfFrame(T) == [x \in T |-> IF x.kind = "comment" THEN <<>> ELSE <<x>>]

\* The frames of a set, comments apart, are all there is in the data.
LEMMA DataGrows ==
  ASSUME NEW T \in SUBSET Format!Frames
  PROVE  /\ \A s \in Seq(T) : /\ Format!Data(s) = Mapped(s, OfFrame(T))
                              /\ Format!Data(s) \in Seq({x \in T : x.kind # "comment"})
         /\ \A s \in Seq(T), e \in T : Format!Data(Append(s, e)) = Format!Data(s) \o OfFrame(T)[e]
  <1> DEFINE U == {x \in T : x.kind # "comment"}
             f == OfFrame(T)
  <1>1. f \in [T -> Seq(U)]
    <2>1. ASSUME NEW x \in T PROVE f[x] \in Seq(U)
      <3>1. CASE x.kind = "comment"
        BY <3>1 DEF OfFrame
      <3>2. CASE x.kind # "comment"
        <4>1. x \in U /\ f[x] = <<x>>
          BY <3>2 DEF OfFrame
        <4> HIDE DEF U
        <4> QED
          BY <4>1
      <3> QED
        BY <3>1, <3>2
    <2> QED
      BY <2>1 DEF OfFrame
  <1>2. ASSUME NEW s \in Seq(T) PROVE Format!Data(s) = Mapped(s, f)
    <2>1. \A k \in DOMAIN s : s[k] \in T
      BY LenProperties, ElementOfSeq
    <2>2. [k \in DOMAIN s |-> IF s[k].kind = "comment" THEN <<>> ELSE <<s[k]>>]
            = [k \in DOMAIN s |-> f[s[k]]]
      BY <2>1 DEF OfFrame
    <2>3. Format!Data(s) = FlattenSeq([k \in DOMAIN s |->
                             IF s[k].kind = "comment" THEN <<>> ELSE <<s[k]>>])
      BY Zenon DEF Format!Data, Format!FlattenSeq, FlattenSeq
    <2> QED
      BY <2>2, <2>3 DEF Mapped
  <1> HIDE DEF f, U
  <1>3. ASSUME NEW s \in Seq(T) PROVE Mapped(s, f) \in Seq(U)
    BY ONLY <1>1, s \in Seq(T), MappedType
  <1>4. ASSUME NEW s \in Seq(T), NEW e \in T
        PROVE  Mapped(Append(s, e), f) = Mapped(s, f) \o f[e]
    BY ONLY <1>1, s \in Seq(T), e \in T, MappedAppend
  <1>5. ASSUME NEW s \in Seq(T), NEW e \in T
        PROVE  Format!Data(Append(s, e)) = Format!Data(s) \o f[e]
    <2>1. Append(s, e) \in Seq(T)
      BY AppendProperties
    <2> QED
      BY <1>2, <1>4, <2>1
  <1> QED
    BY <1>2, <1>3, <1>5 DEF f, U

LEMMA DataAppend ==
  \A s \in Seq(Format!Frames), e \in DataFrames :
    Format!Data(s) \in Seq(DataFrames) /\ Format!Data(Append(s, e)) = Append(Format!Data(s), e)
  <1> SUFFICES ASSUME NEW s \in Seq(Format!Frames), NEW e \in DataFrames
               PROVE  /\ Format!Data(s) \in Seq(DataFrames)
                      /\ Format!Data(Append(s, e)) = Append(Format!Data(s), e)
    OBVIOUS
  <1>1. Format!Data(s) \in Seq(DataFrames)
    BY DataGrows DEF DataFrames
  <1>2. e \in Format!Frames /\ OfFrame(Format!Frames)[e] = <<e>>
    BY DEF OfFrame, DataFrames
  <1>3. Format!Data(Append(s, e)) = Format!Data(s) \o <<e>>
    BY <1>2, DataGrows
  <1> QED
    BY <1>1, <1>3, AppendIsConcat

LEMMA FramesOfData ==
  /\ Format!Done \in DataFrames /\ Format!Done.kind = "done" /\ Format!Garbage.kind = "garbage"
  /\ \A x \in DataFrames : x.kind # "frame" => x = Format!Done \/ x = Format!Garbage
  /\ \A x \in DataFrames : x.kind = "frame" => x.delta \subseteq {"role", "content"}
  <1>1. \A x \in Format!Frames :
          \/ x \in {Format!Done, Format!Garbage, Format!Comment}
          \/ x.kind = "frame" /\ x.delta \subseteq {"role", "content"}
    BY DEF Format!Frames, Format!Frame, Format!Deltas
  <1>2. /\ Format!Done.kind = "done" /\ Format!Garbage.kind = "garbage"
        /\ Format!Comment.kind = "comment" /\ Format!Done \in Format!Frames
    BY DEF Format!Done, Format!Garbage, Format!Comment, Format!Frames
  <1> QED
    BY <1>1, <1>2 DEF DataFrames

\* What a reader can follow, of the frames before [DONE].
Followable(b) ==
  \A k \in 1..Len(b) :
    /\ b[k].kind = "frame" /\ b[k].finish # "unknown"
    /\ b[k].finish # "none" => k = Len(b)
    /\ "role" \in b[k].delta => k = 1

LEMMA ReadableIs ==
  ASSUME NEW s, NEW b \in Seq(DataFrames), Format!Data(s) = Append(b, Format!Done)
  PROVE  Format!Readable(s) <=> Followable(b)
  <1> DEFINE d == Format!Data(s)
  <1>1. Front(d) = b /\ Last(d) = Format!Done /\ d # <<>>
    BY FramesOfData, FrontOfAppend
  <1>2. Format!Front(d) = Front(d) /\ Format!Last(d) = Last(d)
    BY DEF Format!Front, Format!Last, Front, Last
  <1>3. DOMAIN b = 1..Len(b)
    BY LenProperties
  <1> QED
    BY <1>1, <1>2, <1>3 DEF Format!Readable, Followable

\* The chunks of the data, those with a finish reason, and the last of them.
ChunksOf(d) == {k \in DOMAIN d : d[k].kind = "frame"}
FinishesOf(d) == {k \in ChunksOf(d) : d[k].finish # "none"}
LastOf(d) == CHOOSE k \in FinishesOf(d) : \A j \in FinishesOf(d) : j <= k

\* The errors of a stream, rule by rule.
Rule(d, error) ==
  CASE error = "parse" -> Format!Garbage \in Format!Range(d)
    [] error = "R1" -> \E k \in ChunksOf(d) \ {1} : "role" \in d[k].delta
    [] error = "R2" -> \E k \in ChunksOf(d) \ {1} : ~d[k].delta \subseteq {"content", "tool_calls"}
    [] error = "R3" -> \/ \E k \in ChunksOf(d) : d[k].finish = "unknown"
                       \/ Cardinality(FinishesOf(d)) > 1
                       \/ FinishesOf(d) # {} /\ ~Format!FinishInPlace(d, LastOf(d))
    [] error = "R4" -> Cardinality({k \in DOMAIN d : d[k] = Format!Done}) # 1

LEMMA FormatCounts == \A S : Format!Cardinality(S) = Cardinality(S)
  BY Zenon DEF Format!Cardinality, Cardinality

LEMMA RulesOf ==
  ASSUME NEW s, NEW d, d = Format!Data(s)
  PROVE  Format!Errors(s) = {} <=>
           /\ Format!Garbage \notin Format!Range(d)
           /\ ~\E k \in ChunksOf(d) \ {1} : "role" \in d[k].delta
           /\ ~\E k \in ChunksOf(d) \ {1} : ~d[k].delta \subseteq {"content", "tool_calls"}
           /\ ~\E k \in ChunksOf(d) : d[k].finish = "unknown"
           /\ ~(Cardinality(FinishesOf(d)) > 1)
           /\ ~(FinishesOf(d) # {} /\ ~Format!FinishInPlace(d, LastOf(d)))
           /\ Cardinality({k \in DOMAIN d : d[k] = Format!Done}) = 1
  <1>1. Format!Errors(s) = {error \in {"parse", "R1", "R2", "R3", "R4"} : Rule(Format!Data(s), error)}
    BY Zenon, FormatCounts DEF Format!Errors, Rule, ChunksOf, FinishesOf, LastOf
  <1>2. Rule(d, "parse") <=> Format!Garbage \in Format!Range(d)
    BY DEF Rule
  <1>3. Rule(d, "R1") <=> \E k \in ChunksOf(d) \ {1} : "role" \in d[k].delta
    BY DEF Rule
  <1>4. Rule(d, "R2") <=> \E k \in ChunksOf(d) \ {1} : ~d[k].delta \subseteq {"content", "tool_calls"}
    BY DEF Rule
  <1>5. Rule(d, "R3") <=> (\/ \E k \in ChunksOf(d) : d[k].finish = "unknown"
                           \/ Cardinality(FinishesOf(d)) > 1
                           \/ FinishesOf(d) # {} /\ ~Format!FinishInPlace(d, LastOf(d)))
    BY DEF Rule
  <1>6. Rule(d, "R4") <=> Cardinality({k \in DOMAIN d : d[k] = Format!Done}) # 1
    BY DEF Rule
  <1>7. Format!Errors(s) = {} <=> /\ ~Rule(d, "parse") /\ ~Rule(d, "R1") /\ ~Rule(d, "R2")
                                  /\ ~Rule(d, "R3") /\ ~Rule(d, "R4")
    BY <1>1
  <1> QED
    BY <1>2, <1>3, <1>4, <1>5, <1>6, <1>7

\* The gate passes a stream that ends with [DONE] when a reader can follow it, and no other.
LEMMA ErrorsAre ==
  ASSUME NEW s, NEW b \in Seq(DataFrames), Format!Data(s) = Append(b, Format!Done)
  PROVE  Format!Errors(s) = {} <=> Followable(b)
  <1> DEFINE d == Format!Data(s)
             n == Len(b)
             dones == {k \in DOMAIN d : d[k] = Format!Done}
  <1>1. /\ n \in Nat /\ DOMAIN d = 1..(n + 1) /\ Len(d) = n + 1 /\ d[n + 1] = Format!Done
        /\ \A k \in 1..n : d[k] = b[k] /\ b[k] \in DataFrames
    BY FramesOfData, AppendProperties, LenProperties, ElementOfSeq
  <1>2. Format!Errors(s) = {} <=>
           /\ Format!Garbage \notin Format!Range(d)
           /\ ~\E k \in ChunksOf(d) \ {1} : "role" \in d[k].delta
           /\ ~\E k \in ChunksOf(d) \ {1} : ~d[k].delta \subseteq {"content", "tool_calls"}
           /\ ~\E k \in ChunksOf(d) : d[k].finish = "unknown"
           /\ ~(Cardinality(FinishesOf(d)) > 1)
           /\ ~(FinishesOf(d) # {} /\ ~Format!FinishInPlace(d, LastOf(d)))
           /\ Cardinality(dones) = 1
    BY Zenon, RulesOf
  <1> HIDE DEF d
  <1>3. ChunksOf(d) = {k \in 1..n : b[k].kind = "frame"}
    BY <1>1, FramesOfData DEF ChunksOf
  <1>4. FinishesOf(d) = {k \in 1..n : b[k].kind = "frame" /\ b[k].finish # "none"}
    BY <1>1, <1>3 DEF FinishesOf
  <1>5. IsFiniteSet(dones) /\ IsFiniteSet(FinishesOf(d)) /\ n + 1 \in dones
    <2>1. IsFiniteSet(1..(n + 1)) /\ IsFiniteSet(1..n)
      <3>1. 1 \in Int /\ n \in Int /\ n + 1 \in Int
        BY <1>1
      <3> HIDE DEF n
      <3>2. IsFiniteSet(1..n)
        BY ONLY <3>1, FS_Interval
      <3>3. IsFiniteSet(1..(n + 1))
        BY ONLY <3>1, FS_Interval
      <3> QED
        BY <3>2, <3>3
    <2>2. dones \subseteq 1..(n + 1) /\ FinishesOf(d) \subseteq 1..n /\ n + 1 \in 1..(n + 1)
      BY <1>1, <1>4
    <2>3. IsFiniteSet(dones)
      BY <2>1, <2>2, FS_Subset
    <2>4. IsFiniteSet(FinishesOf(d))
      BY <2>1, <2>2, FS_Subset
    <2> QED
      BY <1>1, <2>2, <2>3, <2>4
  <1>6. Format!Garbage \in Format!Range(d) <=> \E k \in 1..n : b[k] = Format!Garbage
    <2>1. Format!Garbage # Format!Done
      BY FramesOfData
    <2> QED
      BY <1>1, <2>1 DEF Format!Range
  <1>7. Format!FinishInPlace(d, LastOf(d)) <=> LastOf(d) = n
    BY <1>1 DEF Format!FinishInPlace
  <1>8. \A k : FinishesOf(d) = {k} => LastOf(d) = k
    <2> SUFFICES ASSUME NEW k, FinishesOf(d) = {k} PROVE LastOf(d) = k
      OBVIOUS
    <2>1. k \in FinishesOf(d) /\ k \in Nat
      BY <1>1, <1>4
    <2>2. \E x \in FinishesOf(d) : \A j \in FinishesOf(d) : j <= x
      BY <2>1
    <2>3. LastOf(d) \in FinishesOf(d)
      BY Zenon, <2>2 DEF LastOf
    <2> QED
      BY <2>3
  <1>9. ASSUME Format!Errors(s) = {} PROVE Followable(b)
    <2> SUFFICES ASSUME NEW k \in 1..n
                 PROVE  /\ b[k].kind = "frame" /\ b[k].finish # "unknown"
                        /\ b[k].finish # "none" => k = n
                        /\ "role" \in b[k].delta => k = 1
      BY DEF Followable
    <2>1. b[k] # Format!Garbage
      BY <1>2, <1>6, <1>9
    <2>2. b[k] # Format!Done
      <3>1. Cardinality(dones) = 1
        BY <1>2, <1>9
      <3>2. PICK x : dones = {x}
        BY <1>5, <3>1, FS_Singleton
      <3>3. k # n + 1 /\ k \in 1..(n + 1)
        BY <1>1
      <3>4. k \notin dones
        BY <1>5, <3>2, <3>3
      <3> QED
        BY <1>1, <3>3, <3>4
    <2>3. b[k].kind = "frame"
      BY <1>1, <2>1, <2>2, FramesOfData
    <2>4. k \in ChunksOf(d) /\ d[k] = b[k]
      BY <1>1, <1>3, <2>3
    <2>5. b[k].finish # "unknown" /\ ("role" \in b[k].delta => k = 1)
      BY <1>2, <1>9, <2>4
    <2>6. ASSUME b[k].finish # "none" PROVE k = n
      <3>1. k \in FinishesOf(d)
        BY <1>4, <2>3, <2>6
      <3>2. Cardinality(FinishesOf(d)) \in Nat /\ Cardinality(FinishesOf(d)) # 0
        BY <1>5, <3>1, FS_CardinalityType, FS_EmptySet
      <3>3. ~(Cardinality(FinishesOf(d)) > 1)
        BY <1>2, <1>9
      <3>4. Cardinality(FinishesOf(d)) = 1
        BY <3>2, <3>3
      <3>5. PICK x : FinishesOf(d) = {x}
        BY <1>5, <3>4, FS_Singleton
      <3>6. FinishesOf(d) = {k}
        BY <3>1, <3>5
      <3>7. LastOf(d) = n
        BY <1>2, <1>7, <1>9, <3>1
      <3> QED
        BY <1>8, <3>6, <3>7
    <2> QED
      BY <2>3, <2>5, <2>6
  <1>10. ASSUME Followable(b) PROVE Format!Errors(s) = {}
    <2>1. \A k \in 1..n : /\ b[k].kind = "frame" /\ b[k].finish # "unknown"
                          /\ b[k].finish # "none" => k = n
                          /\ "role" \in b[k].delta => k = 1
      BY <1>10 DEF Followable
    <2>2. Format!Garbage \notin Format!Range(d)
      BY <1>6, <2>1, FramesOfData
    <2>3. \A k \in ChunksOf(d) \ {1} : k \in 1..n /\ k # 1 /\ d[k] = b[k]
      BY <1>1, <1>3
    <2>4. ~\E k \in ChunksOf(d) \ {1} : "role" \in d[k].delta
      BY <2>1, <2>3
    <2>5. ~\E k \in ChunksOf(d) \ {1} : ~d[k].delta \subseteq {"content", "tool_calls"}
      <3> SUFFICES ASSUME NEW k \in ChunksOf(d) \ {1}
                   PROVE  d[k].delta \subseteq {"content", "tool_calls"}
        OBVIOUS
      <3>1. d[k].delta \subseteq {"role", "content"} /\ "role" \notin d[k].delta
        BY <1>1, <2>1, <2>3, FramesOfData
      <3> QED
        BY <3>1
    <2>6. ~\E k \in ChunksOf(d) : d[k].finish = "unknown"
      BY <1>1, <1>3, <2>1
    <2>7. FinishesOf(d) = {} \/ FinishesOf(d) = {n}
      BY <1>4, <2>1
    <2>8. ~(Cardinality(FinishesOf(d)) > 1)
      <3>1. CASE FinishesOf(d) = {}
        BY <3>1, FS_EmptySet
      <3>2. CASE FinishesOf(d) = {n}
        <4>1. Cardinality({n}) = 1
          BY FS_Singleton
        <4> QED
          BY <3>2, <4>1
      <3> QED
        BY <2>7, <3>1, <3>2
    <2>9. ~(FinishesOf(d) # {} /\ ~Format!FinishInPlace(d, LastOf(d)))
      BY <1>7, <1>8, <2>7
    <2>10. dones = {n + 1}
      <3>1. \A k \in 1..n : d[k] # Format!Done
        BY <1>1, <2>1, FramesOfData
      <3>2. \A k \in 1..(n + 1) : k \in 1..n \/ k = n + 1
        BY <1>1
      <3> QED
        BY <1>1, <1>5, <3>1, <3>2
    <2>11. Cardinality(dones) = 1
      BY <2>10, FS_Singleton
    <2> QED
      BY <1>2, <2>2, <2>4, <2>5, <2>6, <2>8, <2>9, <2>11
  <1> QED
    BY <1>9, <1>10

LEMMA GateIsExact == FormatInv => Format!StreamGateIsExact
  <1> SUFFICES ASSUME FormatInv, stream # <<>>, Format!Last(stream) = Format!Done
               PROVE  /\ Format!Errors(stream) = {} <=> Format!Readable(stream)
                      /\ cut =>
                           LET sent == SubSeq(stream, 1, Len(stream) - 3)
                           IN  /\ Format!Readable(Append(sent, Format!Done))
                               /\ \A k \in DOMAIN sent : sent[k].finish = "none"
                               => Format!Errors(stream) = {}
    BY DEF Format!StreamGateIsExact
  <1>1. stream \in Seq(Format!Frames)
    BY DEF FormatInv
  <1>2. Front(stream) \in Seq(Format!Frames) /\ stream = Append(Front(stream), Format!Done)
    <2>1. Format!Last(stream) = Last(stream)
      BY DEF Format!Last, Last
    <2> QED
      BY <1>1, <2>1, FrontAndLast
  <1> DEFINE b == Format!Data(Front(stream))
  <1>3. b \in Seq(DataFrames) /\ Format!Data(stream) = Append(b, Format!Done)
    BY <1>2, FramesOfData, DataAppend
  <1> HIDE DEF b
  <1>4. Format!Errors(stream) = {} <=> Followable(b)
    BY <1>3, ErrorsAre
  <1>5. Format!Readable(stream) <=> Followable(b)
    BY <1>3, ReadableIs
  <1>6. ASSUME cut, NEW sent, sent = SubSeq(stream, 1, Len(stream) - 3),
               Format!Readable(Append(sent, Format!Done)),
               \A k \in DOMAIN sent : sent[k].finish = "none"
        PROVE  Followable(b)
    <2>1. PICK s \in Seq(Format!Frames) : stream = s \o Ending
      BY <1>6 DEF FormatInv
    <2> DEFINE r == Append(s, Format!Comment)
               q == Append(r, Format!Abort)
    <2>2. /\ Format!Comment \in Format!Frames /\ Format!Abort \in Format!Frames
          /\ Format!Done \in Format!Frames
      BY FramesOfTheSwitch
    <2>3. stream = Append(q, Format!Done)
      BY <2>1, <2>2, ThreeAppended DEF Ending
    <2>4. r \in Seq(Format!Frames) /\ q \in Seq(Format!Frames)
          /\ Len(r) = Len(s) + 1 /\ Len(q) = Len(r) + 1 /\ Len(s) \in Nat
      BY <2>2, AppendProperties, LenProperties
    <2> HIDE DEF q
    <2>5. Front(stream) = q
      BY <2>2, <2>3, <2>4, FrontOfAppend
    <2>6. sent = s
      <3>1. Len(stream) - 3 = Len(s)
        BY <2>2, <2>3, <2>4, AppendProperties
      <3>2. SubSeq(s \o Ending, 1, Len(s)) = s
        <4>1. Ending \in Seq(Format!Frames)
          BY <2>2 DEF Ending
        <4> QED
          BY <4>1
      <3> QED
        BY <1>6, <2>1, <3>1, <3>2
    <2> DEFINE c == Format!Data(s)
    <2>7. c \in Seq(DataFrames) /\ Format!Data(Append(s, Format!Done)) = Append(c, Format!Done)
      BY FramesOfData, DataAppend
    <2>8. Format!Data(r) = c
      <3>1. OfFrame(Format!Frames)[Format!Comment] = <<>>
        BY <2>2 DEF OfFrame, Format!Comment
      <3>2. Format!Data(r) = c \o <<>>
        BY <2>2, <3>1, DataGrows
      <3> HIDE DEF c
      <3> QED
        BY <2>7, <3>2, ConcatEmptySeq
    <2>9. b = Append(c, Format!Abort)
      <3>1. Format!Abort \in DataFrames
        BY <2>2 DEF DataFrames, Format!Abort, Format!Frame
      <3>2. Format!Data(q) = Append(Format!Data(r), Format!Abort)
        BY <2>4, <3>1, DataAppend DEF q
      <3> QED
        BY <2>5, <2>8, <3>2 DEF b
    <2>10. Followable(c)
      BY <1>6, <2>6, <2>7, ReadableIs
    <2>11. \A k \in 1..Len(c) : c[k].finish = "none"
      <3> DEFINE T == {x \in Format!Frames : x.finish = "none"}
      <3>1. s \in Seq(T)
        <4>1. \A k \in 1..Len(s) : s[k] \in Format!Frames /\ s[k].finish = "none"
          BY <1>6, <2>6, LenProperties, ElementOfSeq
        <4> QED
          BY <4>1
      <3>2. c \in Seq({x \in T : x.kind # "comment"})
        BY <3>1, DataGrows
      <3> HIDE DEF c
      <3>3. \A k \in 1..Len(c) : c[k] \in {x \in T : x.kind # "comment"}
        BY <3>2, ElementOfSeq
      <3> QED
        BY <3>3
    <2>12. /\ Format!Abort.kind = "frame" /\ Format!Abort.finish = "known" /\ Format!Abort.delta = {}
           /\ Format!Abort \in DataFrames
      BY <2>2 DEF Format!Abort, Format!Frame, DataFrames
    <2>13. /\ Len(b) = Len(c) + 1 /\ Len(c) \in Nat /\ b[Len(c) + 1] = Format!Abort
           /\ \A k \in 1..Len(c) : b[k] = c[k]
      <3> HIDE DEF c
      <3> QED
        BY <2>7, <2>9, <2>12, AppendProperties, LenProperties
    <2> HIDE DEF c
    <2> QED
      BY <2>10, <2>11, <2>12, <2>13 DEF Followable
  <1> QED
    BY <1>4, <1>5, <1>6

\* The gate for streams passes, of those that end with [DONE], the ones a reader can
\* follow and no other; a stream that a switch cuts off before its finish reason passes
\* when it could be followed up to there.
THEOREM FormatGateIsExact == Spec => []StreamGateIsExact
  <1>1. Init => FormatInv
    BY FormatInit DEF Init
  <1>2. FormatInv /\ [Next]_vars => FormatInv'
    BY FormatSteps, FormatNextKeeps
  <1>3. FormatInv => StreamGateIsExact
    BY GateIsExact DEF StreamGateIsExact
  <1> QED
    BY <1>1, <1>2, <1>3, PTL DEF Spec
=============================================================================
