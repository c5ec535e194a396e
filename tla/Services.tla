------------------------------- MODULE Services -------------------------------
(***************************************************************************)
(* The services around the request path.  They share nothing that is       *)
(* modelled: each behaviour is one of one of them, and focus says which    *)
(* (so the states of a run are the sum of theirs, not the product).        *)
(***************************************************************************)
EXTENDS Integers, FiniteSets, TLC

CONSTANTS Models, First, SwapIds, Retries,
          SwitchRoutes, FirstRoute, Configs, MaxSwitches, MaxChanges, MaxFrames,
          Length, MaxRetries, Budget, CallTimeout, Delays, CallFailures,
          Writers, Keep, Full, MaxRecords, MaxCrashes,
          Children, Retain, Backend, Adapters, Ids, Envelopes, MaxCalls,
          Plugins, Packages, Findings, Shelf, GateTime, MaxReviews,
          Recs, TTL, MaxTime, MaxEvidence,
          Listed, Added, Found, Gateways, Lists, MaxWork,
          Place, Visits, MaxRuns, Providers, UserNames, Loopback, Elsewhere, MaxEdits,
          McpIds, MayWrite, Posts, Guarded, Measured, MaxAsked

\* What the services need of their constants.
ASSUME SwapAssumption ==
  /\ First \in Models /\ Retries \subseteq Nat /\ "none" \notin SwapIds
ASSUME LearningAssumption == TTL \in Nat
ASSUME CallerAssumption ==
  /\ Length \in Nat /\ MaxRetries \in Nat \ {0} /\ Budget \in Nat \ {0}
  /\ CallTimeout \in Nat /\ Delays \subseteq Nat /\ "stalled" \notin CallFailures
ASSUME LogAssumption == Keep \in Nat /\ Full \in Nat
ASSUME HarnessAssumption == "none" \notin DOMAIN Backend
ASSUME WorkerAssumption == Place \in [Models -> Nat] /\ "cron" \notin Visits
ASSUME McpAssumption == IsFiniteSet(McpIds)
ASSUME ProbeAssumption == MaxRuns \in Nat
ASSUME SyncAssumption == {"none", "theirs"} \cap Providers = {}
ASSUME ConfigAssumption == "none" \notin Configs

VARIABLES focus,
          swaps, active, current, loaded, runtime, astray,
          route, offer, stack, traces,
          routes, slot, events, change,
          stream, cut,
          models, trail, left, verdict, late,
          files, pc, written, crashes,
          phase, workdir, started, alive, grouped, piped, exit, result, auditRows,
          rows, last, switches, cancelled, expired, told,
          package, report, reviews, gate, now,
          status, generated, evidence, confirmHash, journal, ticks,
          up, mem, file, work, behind, jobs,
          clock, due, kv, lock, runs, streak,
          reg, running, stuck, targets, total, done, results, probes, ending,
          snapshot, statusFile, evidenceFile, tangled,
          client, config, backup, provided, url, sync, edits, fresh,
          reading, call, out, errors, stdout, saved, chatter,
          asked, heads, unread, stage, opened, kept

swapVars == <<swaps, active, current, loaded, runtime, astray>>
switchVars == <<route, offer, stack, traces>>
configVars == <<routes, slot, events, change>>
formatVars == <<stream, cut>>
callerVars == <<models, trail, left, verdict, late>>
logVars == <<files, pc, written, crashes>>
runVars == <<phase, workdir, started, alive, grouped, piped, exit, result, auditRows>>
harnessVars == <<rows, last, switches, cancelled, expired, told>>
gateVars == <<package, report, reviews, gate, now>>
learningVars == <<status, generated, evidence, confirmHash, journal, ticks>>
registryVars == <<up, mem, file, work, behind, jobs>>
workerVars == <<clock, due, kv, lock, runs, streak>>
probeVars == <<reg, running, stuck, targets, total, done, results, probes, ending,
               snapshot, statusFile, evidenceFile, tangled>>
syncVars == <<client, config, backup, provided, url, sync, edits, fresh>>
mcpVars == <<reading, call, out, errors, stdout, saved, chatter>>
proxyVars == <<asked, heads, unread, stage, opened, kept>>

Swap == INSTANCE HotSwap WITH Requests <- SwapIds
Switch == INSTANCE RouteSwitch WITH Routes <- SwitchRoutes, Start <- FirstRoute
Config == INSTANCE RouteConfig
Format == INSTANCE SwapFormat
Caller == INSTANCE SandboxCaller WITH Kinds <- CallFailures, Timeout <- CallTimeout
Log == INSTANCE AuditLog
Run == INSTANCE SandboxRun
Harness == INSTANCE Harness
Gate == INSTANCE PluginGate WITH MaxTime <- GateTime
Learn == INSTANCE Learning WITH now <- ticks
Registry == INSTANCE RegistryStore
Worker == INSTANCE StatusWorker
Probe == INSTANCE ProbeRun WITH
  runs <- probes, status <- statusFile, evidence <- evidenceFile
Sync == INSTANCE AgentSync WITH
  file <- config, reg <- provided, current <- fresh
Mcp == INSTANCE McpSession WITH Ids <- McpIds, Write <- MayWrite

Proxy == INSTANCE Proxy WITH Asked <- Posts

ASSUME ProxyAssumption == Posts \subseteq Proxy!Requests

-----------------------------------------------------------------------------
\* What only one of them chooses at the start is fixed for the others.
Init ==
  /\ focus \in {"swap", "switch", "config", "format", "caller", "log", "run", "harness",
                "gate", "learning", "registry", "worker", "probe", "sync", "mcp", "proxy"}
  /\ Swap!Init /\ Switch!Init /\ Config!Init /\ Format!Init
  /\ Caller!Init /\ Log!Init /\ Run!Init /\ Harness!Init /\ Gate!Init /\ Learn!Init
  /\ Registry!Init /\ Worker!Init /\ Probe!Init /\ Sync!Init /\ Mcp!Init
  /\ Proxy!Init
  /\ focus # "config" => routes = CHOOSE c \in Configs : TRUE
  /\ focus # "caller" => models = Length
  /\ focus # "gate" => package = CHOOSE f \in [Plugins -> Packages] : TRUE
  /\ focus # "probe" => reg = Models
  /\ focus # "sync" =>
       /\ client = "pi" /\ config.state = "whole" /\ provided = {}
       /\ url = CHOOSE u \in Sync!Routers : TRUE

\* The modules whose turn it is not keep their state.
Keeps(f, vs) == IF focus = f THEN TRUE ELSE UNCHANGED vs

Next ==
  /\ UNCHANGED focus
  /\ Keeps("swap", swapVars) /\ Keeps("switch", switchVars)
  /\ Keeps("config", configVars) /\ Keeps("format", formatVars)
  /\ Keeps("caller", callerVars) /\ Keeps("log", logVars) /\ Keeps("run", runVars)
  /\ Keeps("harness", harnessVars) /\ Keeps("gate", gateVars)
  /\ Keeps("learning", learningVars) /\ Keeps("registry", registryVars)
  /\ Keeps("worker", workerVars) /\ Keeps("probe", probeVars)
  /\ Keeps("sync", syncVars) /\ Keeps("mcp", mcpVars)
  /\ Keeps("proxy", proxyVars)
  /\ \/ focus = "swap" /\ Swap!Next
     \/ focus = "switch" /\ Switch!Next
     \/ focus = "config" /\ Config!Next
     \/ focus = "format" /\ Format!Next
     \/ focus = "caller" /\ Caller!Next
     \/ focus = "log" /\ Log!Next
     \/ focus = "run" /\ Run!Next
     \/ focus = "harness" /\ Harness!Next
     \/ focus = "gate" /\ Gate!Next
     \/ focus = "learning" /\ Learn!Next
     \/ focus = "registry" /\ Registry!Next
     \/ focus = "worker" /\ Worker!Next
     \/ focus = "probe" /\ Probe!Next
     \/ focus = "sync" /\ Sync!Next
     \/ focus = "mcp" /\ Mcp!Next
     \/ focus = "proxy" /\ Proxy!Next

vars == <<focus, swapVars, switchVars, configVars, formatVars, callerVars, logVars,
          runVars, harnessVars, gateVars, learningVars, registryVars, workerVars,
          probeVars, syncVars, mcpVars, proxyVars>>

\* That of the swaps and of the MCP calls.
Fairness ==
  /\ \A r \in SwapIds : WF_swapVars(focus = "swap" /\ Swap!Step(r))
  /\ \A i \in McpIds : WF_mcpVars(focus = "mcp" /\ Mcp!Finish(i))

Spec == Init /\ [][Next]_vars /\ Fairness

-----------------------------------------------------------------------------
\* The properties of the modules, each for the behaviours that are its own.

\* The model the swap controller calls active is the one that is loaded (hot_swap.py).
ServedModelIsLoaded == focus = "swap" => Swap!ServedModelIsLoaded

\* Every swap ends, committed or rolled back (hot_swap.py).
SwapsEnd == focus = "swap" => Swap!SwapsEnd

\* An undo goes to the route before the one in force, never to one undone (model_switch.py).
UndoWalksBack == Switch!UndoWalksBack

\* A rollback restores what the last change replaced, or refuses (auto_rollback.py).
RollbackRestores == Config!RollbackRestores

\* The gate accepts exactly the well-formed streams (swap_consistency.py).
StreamGateIsExact == focus = "format" => Format!StreamGateIsExact

\* The sandbox caller's retries keep FailoverContract (sandbox/caller.py).
CallerKeepsContract == Caller!CallerKeepsContract

\* A rotation of the log drops its oldest file only (sandbox/audit.py).
OnlyTheOldestGoes == Log!OnlyTheOldestGoes

\* A sandbox run that ended left no process and the directory it says (sandbox/runner.py).
RunLeavesNothing == focus = "run" => Run!RunLeavesNothing

\* The harness's audit rows tell what its callers were told (harness_route.py).
AuditTellsTheCalls == focus = "harness" => Harness!AuditTellsTheCalls

\* The plugin gate opens for the package as it is now (plugin_gate_gate.py).
OpensForThePresentPackage == Gate!OpensForThePresentPackage

\* What is applied is what was confirmed (learning_confirm.py).
AppliedAsConfirmed == focus = "learning" => Learn!AppliedAsConfirmed

\* A daemon without work has in memory what its file says (registry.py, serve.py).
QuietDaemonIsSaved == focus = "registry" => Registry!QuietDaemonIsSaved

\* Two good rounds bring every provider back on the page (worker/probe.js).
TwoGoodRunsShowAll == focus = "worker" => Worker!TwoGoodRunsShowAll

\* Both files of a finished probe run tell the same results (probe.py).
FilesTellTheResults == focus = "probe" => Probe!FilesTellTheResults

\* A sync leaves the router's present entries, and of its old ones only those of a
\* host that is not loopback (sync.py).
RouterEntriesAreCurrent == focus = "sync" => Sync!RouterEntriesAreCurrent

\* With one writing tool at a time the protocol's output stays clean (mcp_server.py).
OneWriterStaysQuiet == focus = "mcp" => Mcp!OneWriterStaysQuiet

\* A kept connection answers its requests in turn (proxy.py).
AnswersInTurn == focus = "proxy" => Proxy!AnswersInTurn

\* Every MCP call is answered (mcp_server.py).
CallsAreAnswered == focus = "mcp" => Mcp!CallsAreAnswered
===============================================================================
