---------------------------- MODULE RegistryStore ----------------------------
(***************************************************************************)
(* The provider registry: the copy in the daemon's memory, which its       *)
(* scheduler, its discovery thread and the handlers of its web page change *)
(* and save without a lock; the file; and the command line, another        *)
(* process that loads the file, changes its own copy and saves that.  A    *)
(* registry is a function from the names it defines to their model lists,  *)
(* and a model list is one value.                                          *)
(***************************************************************************)
EXTENDS Naturals

CONSTANTS Listed,    \* providers of the file that have a refresh source
          Added,     \* providers a user adds
          Found,     \* providers discovery may adopt
          Gateways,  \* BYOS adapters configured and present in the environment
          Lists,     \* model lists
          MaxWork    \* bound: requests of the page, runs of the scheduler, adoptions,
                     \* commands, crashes and failed saves, together

VARIABLES up,      \* the daemon runs
          mem,     \* its registry
          file,    \* [state, reg]: "whole", "torn" (just truncated), "shared"
                   \* (truncated under another writer) or "mixed"
          work,    \* what each thread, and the command line, is doing
          behind,  \* history: the last save begun met another one, or since it
                   \* a save failed or another process wrote
          jobs     \* how much of MaxWork has happened

vars == <<up, mem, file, work, behind, jobs>>

Threads == {"scheduler", "discovery", "page"}
Actors == Threads \cup {"cli"}
Names == Listed \cup Added \cup Found \cup Gateways
Registries == UNION {[D -> Lists] : D \in SUBSET Names}
Nothing == [n \in {} |-> 0]
AnyList == CHOOSE l \in Lists : TRUE
File(s, r) == [state |-> s, reg |-> r]
With(f, n, value) == [m \in DOMAIN f \cup {n} |-> IF m = n THEN value ELSE f[m]]

\* refresh keeps the provider object it took before the network call: held is
\* the object's model list once the page has put another in its place.  copy
\* is what a save has read of the registry, todo then what it has yet to read;
\* the command line's is its own registry, from its load on.
Idle == [at |-> "idle", todo |-> {}, name |-> "", held |-> "", changed |-> FALSE,
         copy |-> Nothing]
Dead == [Idle EXCEPT !.at = "dead"]
Saving == [Idle EXCEPT !.at = "changed"]

TypeOK ==
  /\ up \in BOOLEAN /\ behind \in BOOLEAN /\ mem \in Registries
  /\ file.state \in {"whole", "torn", "shared", "mixed"} /\ file.reg \in Registries

Init ==
  /\ up = FALSE /\ mem = Nothing
  /\ file = File("whole", [n \in Listed |-> AnyList])
  /\ work = [a \in Actors |-> Idle]
  /\ behind = FALSE /\ jobs = 0

\* Registry.load: a file being rewritten reads as an empty registry.
Loaded == file.reg
Readable == file.state # "mixed"

\* register_byos_providers: what the file does not define is added in memory.
Resolved(reg) ==
  [n \in DOMAIN reg \cup Gateways |-> IF n \in DOMAIN reg THEN reg[n] ELSE AnyList]

Start ==
  /\ ~up /\ Readable
  /\ up' = TRUE /\ mem' = Resolved(Loaded) /\ behind' = FALSE
  /\ work' = [a \in Actors |-> IF a = "cli" THEN work[a] ELSE Idle]
  /\ UNCHANGED <<file, jobs>>

\* refresh passes over what has no source or comes from an adapter.
WithSource(names) == names \cap Listed

\* Over the providers there are when it begins; the page may ask for one.
BeginRefresh(t) ==
  /\ t \in {"scheduler", "page"} /\ up /\ work[t] = Idle /\ jobs < MaxWork
  /\ jobs' = jobs + 1
  /\ \E todo \in {DOMAIN mem} \cup {{n} : n \in IF t = "page" THEN DOMAIN mem ELSE {}} :
       work' = [work EXCEPT ![t] = [Idle EXCEPT !.at = "between", !.todo = WithSource(todo)]]
  /\ UNCHANGED <<up, mem, file, behind>>

NextOf(todo) == CHOOSE n \in todo : TRUE    \* the order of a dictionary is fixed

Take(t) ==
  /\ up /\ work[t].at = "between"
  /\ work[t].todo # {}
  /\ LET n == NextOf(work[t].todo) IN
       work' = [work EXCEPT ![t].at = "asked", ![t].todo = @ \ {n},
                            ![t].name = n, ![t].held = ""]
  /\ UNCHANGED <<up, mem, file, behind, jobs>>

\* any(results.values()): the run saves when one of its providers changed.
\* Mutant: the last provider's result is the run's.
ResultOfTheLast(w, changed) == changed
Results(w, changed) == w.changed \/ changed

Answer(t) ==
  /\ up /\ work[t].at = "asked"
  /\ \E list \in Lists \cup {"none"} :
       LET current == IF work[t].held = "" THEN mem[work[t].name] ELSE work[t].held
           changed == list \notin {"none", current} IN
       /\ mem' = IF changed THEN [mem EXCEPT ![work[t].name] = list] ELSE mem
       /\ work' = [work EXCEPT ![t] =
            [Idle EXCEPT !.at = "between", !.todo = work[t].todo,
                         !.changed = Results(work[t], changed)]]
  /\ UNCHANGED <<up, file, behind, jobs>>

EndRefresh(t) ==
  /\ up /\ work[t].at = "between" /\ work[t].todo = {}
  /\ work' = [work EXCEPT ![t] = IF @.changed THEN Saving ELSE Idle]
  /\ UNCHANGED <<up, mem, file, behind, jobs>>

\* The page adds or replaces a provider.
Put(n, list) ==
  /\ up /\ work["page"] = Idle /\ jobs < MaxWork
  /\ jobs' = jobs + 1
  /\ mem' = With(mem, n, list)
  /\ work' = [t \in Actors |->
       IF t = "page" THEN Saving
       ELSE IF work[t].at = "asked" /\ work[t].name = n /\ work[t].held = ""
            THEN [work[t] EXCEPT !.held = mem[n]] ELSE work[t]]
  /\ UNCHANGED <<up, file, behind>>

\* adopt_validated: what is already defined is left alone.
Adopt(n, list) ==
  /\ up /\ work["discovery"] = Idle /\ n \notin DOMAIN mem /\ jobs < MaxWork
  /\ jobs' = jobs + 1
  /\ mem' = With(mem, n, list)
  /\ work' = [work EXCEPT !["discovery"] = Saving]
  /\ UNCHANGED <<up, file, behind>>

\* The command line: load, change (add, setup, refresh), save.  Between the
\* load and the save setup waits for an answer typed by a person.
CliLoad ==
  /\ work["cli"] = Idle /\ Readable /\ jobs < MaxWork
  /\ jobs' = jobs + 1
  /\ work' = [work EXCEPT !["cli"] = [Idle EXCEPT !.at = "loaded", !.copy = Loaded]]
  /\ UNCHANGED <<up, mem, file, behind>>

CliChange(n, list) ==
  /\ work["cli"].at = "loaded"
  /\ work' = [work EXCEPT !["cli"].at = "changed", !["cli"].copy = With(@, n, list)]
  /\ UNCHANGED <<up, mem, file, behind, jobs>>

-----------------------------------------------------------------------------
\* Registry.save.  The file is copied to a time-stamped backup (not modelled:
\* no code reads one back), then opened for writing, which empties it.
Saves(a) == work[a].at \in {"open", "copying", "dumping"}

Truncate(a) ==
  /\ work[a].at = "changed"
  /\ LET met == \E b \in Actors \ {a} : Saves(b) IN
       /\ file' = File(IF met THEN "shared" ELSE "torn", Nothing)
       /\ behind' = (met \/ a = "cli")
  /\ work' = [work EXCEPT ![a].at = "open"]
  /\ UNCHANGED <<up, mem, jobs>>

\* to_dict goes over the shared registry one provider after the other; the
\* command line's copy is nobody else's.
BeginCopy(a) ==
  /\ work[a].at = "open"
  /\ work' = [work EXCEPT ![a] =
       IF a = "cli" THEN [@ EXCEPT !.at = "dumping"]
       ELSE [Idle EXCEPT !.at = "copying", !.todo = DOMAIN mem]]
  /\ UNCHANGED <<up, mem, file, behind, jobs>>

\* The providers the iteration began with; none is ever taken out.
Counted(a) == work[a].todo \cup DOMAIN work[a].copy = DOMAIN mem

Copy(a) ==
  /\ work[a].at = "copying" /\ Counted(a) /\ work[a].todo # {}
  /\ LET n == NextOf(work[a].todo) IN
       work' = [work EXCEPT ![a].todo = @ \ {n}, ![a].copy = With(@, n, mem[n])]
  /\ UNCHANGED <<up, mem, file, behind, jobs>>

EndCopy(a) ==
  /\ work[a].at = "copying" /\ Counted(a) /\ work[a].todo = {}
  /\ work' = [work EXCEPT ![a].at = "dumping"]
  /\ UNCHANGED <<up, mem, file, behind, jobs>>

\* What a save that raised leaves of its thread: nothing catches it in the
\* scheduler, which ends for ever; discovery prints it, and the page's handler
\* and the command end.
Broken(a) == IF a = "scheduler" THEN Dead ELSE Idle

\* A provider was added meanwhile: "dictionary changed size during iteration".
CopyBreaks(a) ==
  /\ work[a].at = "copying" /\ ~Counted(a)
  /\ work' = [work EXCEPT ![a] = Broken(a)]
  /\ behind' = TRUE
  /\ UNCHANGED <<up, mem, file, jobs>>

\* yaml.dump writes what was copied, whatever the registry is by now.  When
\* another writer had the file meanwhile, the parts of both may stand in it.
Dump(a) ==
  /\ work[a].at = "dumping"
  /\ \/ file' = File("whole", work[a].copy)
     \/ file.state # "torn" /\ file' = File("mixed", Nothing)
  /\ work' = [work EXCEPT ![a] = Idle]
  /\ behind' = (behind \/ a = "cli")
  /\ UNCHANGED <<up, mem, jobs>>

\* An OSError, or the end of a process, in the middle of the text cuts it.
Cut(dumping) == file' = file \/ (dumping /\ file' = File("mixed", Nothing))

SaveFails(a) ==
  /\ work[a].at = "changed" \/ Saves(a)
  /\ jobs < MaxWork
  /\ jobs' = jobs + 1
  /\ work' = [work EXCEPT ![a] = Broken(a)]
  /\ behind' = TRUE
  /\ Cut(work[a].at = "dumping")
  /\ UNCHANGED <<up, mem>>

Crash ==
  /\ up /\ jobs < MaxWork
  /\ jobs' = jobs + 1
  /\ up' = FALSE /\ mem' = Nothing
  /\ work' = [a \in Actors |-> IF a = "cli" THEN work[a] ELSE Idle]
  /\ Cut(\E t \in Threads : work[t].at = "dumping")
  /\ UNCHANGED behind

Next ==
  \/ Start \/ CliLoad \/ Crash
  \/ \E t \in Threads : BeginRefresh(t) \/ Take(t) \/ Answer(t) \/ EndRefresh(t)
  \/ \E n \in Listed \cup Added, l \in Lists : Put(n, l) \/ CliChange(n, l)
  \/ \E n \in Found, l \in Lists : Adopt(n, l)
  \/ \E a \in Actors : Truncate(a) \/ BeginCopy(a) \/ Copy(a) \/ EndCopy(a)
                       \/ CopyBreaks(a) \/ Dump(a) \/ SaveFails(a)

Spec == Init /\ [][Next]_vars
-----------------------------------------------------------------------------
\* When no thread of the daemon has work left, everything its threads and
\* handlers changed in the shared registry, before, during or after somebody's
\* save, is in the file, and the file is whole: once the last save that was
\* begun met no other one, and since then none failed and no other process
\* wrote.  (Two saves that meet may leave the older copy, or a mixture; one
\* that runs alone afterwards makes good all that went wrong before it.)
QuietDaemonIsSaved ==
  up /\ ~behind /\ (\A t \in Threads : work[t].at \in {"idle", "dead"}) =>
     \A n \in DOMAIN mem \ Gateways : n \in DOMAIN file.reg /\ file.reg[n] = mem[n]

\* byos/wiring.py:53, serve.py:36: what an adapter resolves from the
\* environment is registered in memory and never written to registry.yaml.
ByosStaysInMemory == Gateways \cap DOMAIN file.reg = {}
=============================================================================
