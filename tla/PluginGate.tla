------------------------------ MODULE PluginGate ------------------------------
(***************************************************************************)
(* Plugins are scanned, reviewed and admitted (plugin_gate.py,             *)
(* plugin_gate_gate.py, plugin_whitelist.py).  A report is about the       *)
(* package that was scanned, a review lasts for a time, and packages       *)
(* change: the gate must not let an old verdict pass for a new one.        *)
(***************************************************************************)
EXTENDS Naturals, FiniteSets

CONSTANTS
  Plugins,      \* backend adapters and MCP configurations, by name
  Packages,     \* their contents; a content hash is its package
  Findings,     \* the rules that fire on each package
  Shelf,        \* ticks a review lasts
  MaxTime,      \* bound: ticks
  MaxReviews    \* bound: reviews

VARIABLES
  package,      \* what each plugin holds now
  report,       \* its report on file, or NoReport
  reviews,      \* the whitelist: a rule waived for a plugin until a time
  gate,         \* the outcome of the last admission: open, blocked, unregistered
  now

vars == <<package, report, reviews, gate, now>>

NoReport == [hash |-> "none", version |-> "none", rules |-> {}]

\* All rules but one make a finding HIGH at least, whatever its deduction; the
\* missing name or version deducts too little to be blocked alone.
Rules == {"B-1-01", "B-1-02", "B-2-01", "B-2-02", "B-3-01", "B-4-01", "B-4-02"}
Floors == Rules \ {"B-4-01"}
Blocked(rules) == rules \cap Floors # {}

Init ==
  /\ package \in [Plugins -> Packages]
  /\ report = [p \in Plugins |-> NoReport]
  /\ reviews = {}
  /\ gate = [p \in Plugins |-> "unregistered"]
  /\ now = 0

\* A report is stamped with the hash of what was scanned; one made by another
\* version of the scanner stays on file.
Scan(p, version) ==
  /\ report' = [report EXCEPT ![p] =
       [hash |-> package[p], version |-> version, rules |-> Findings[package[p]]]]
  /\ UNCHANGED <<package, reviews, gate, now>>

Repackage(p, to) ==
  /\ package' = [package EXCEPT ![p] = to]
  /\ UNCHANGED <<report, reviews, gate, now>>

Review(rule, p) ==
  /\ Cardinality(reviews) < MaxReviews
  /\ reviews' = reviews \cup {[rule |-> rule, scope |-> p, until |-> now + Shelf]}
  /\ UNCHANGED <<package, report, gate, now>>

Tick ==
  /\ now < MaxTime /\ now' = now + 1
  /\ UNCHANGED <<package, report, reviews, gate>>

\* Mutant: a review of the rule counts for every plugin.
HitAnywhere(rule, p) == \E e \in reviews : e.rule = rule /\ e.until > now

Hit(rule, p) == \E e \in reviews : e.rule = rule /\ e.scope = p /\ e.until > now

\* The report is there, made by this scanner, and of this package.
Valid(p) ==
  /\ report[p] # NoReport
  /\ report[p].version = "current" /\ report[p].hash = package[p]

Kept(p) == {rule \in report[p].rules : ~Hit(rule, p)}

\* registration_gate, and what the whitelist makes of a blocked report.
Admit(p) ==
  /\ gate' = [gate EXCEPT ![p] =
       IF Valid(p) /\ ~Blocked(Kept(p)) THEN "open" ELSE "blocked"]
  /\ UNCHANGED <<package, report, reviews, now>>

Next ==
  \/ \E p \in Plugins, version \in {"older", "current"} : Scan(p, version)
  \/ \E p \in Plugins, to \in Packages : Repackage(p, to)
  \/ \E p \in Plugins, rule \in (UNION {Findings[k] : k \in Packages}) \cap Floors :
       Review(rule, p)
  \/ \E p \in Plugins : Admit(p)
  \/ Tick

Spec == Init /\ [][Next]_vars

\* What the gate opens for is what the plugin holds at that moment: each finding
\* of its present package that blocks is waived, for this plugin, by a review
\* that has not run out.
OpensForThePresentPackage ==
  [][\A p \in Plugins : gate'[p] = "open" /\ gate[p] # "open" =>
       \A rule \in Findings[package[p]] \cap Floors :
         \E e \in reviews : e.rule = rule /\ e.scope = p /\ e.until > now]_vars
===============================================================================
