---------------------------- MODULE ServiceProofs ----------------------------
(***************************************************************************)
(* Theorems about the services whose state is small: the swap of a model,  *)
(* what is learned and applied, the plugin gate, a sandbox run, the MCP    *)
(* session, a connection of the proxy, the sandbox's caller and its log,   *)
(* and the harness.  A part of this module is about one of them, and its   *)
(* last theorem says what the run of MCServices checks, for every value of *)
(* the constants.                                                          *)
(***************************************************************************)
EXTENDS Services, SequenceLemmas, FiniteSetTheorems

-----------------------------------------------------------------------------
(* The composition                                                         *)

\* A step is a step of each service, or leaves it as it is: the one in focus moves
\* by its own Next, and the others keep their state.
LEMMA SwapSteps == [Next]_vars => [Swap!Next]_(Swap!vars)
  <1>1. UNCHANGED swapVars => UNCHANGED Swap!vars
    BY DEF swapVars, Swap!vars
  <1>2. UNCHANGED vars => UNCHANGED swapVars
    BY DEF vars
  <1> QED
    BY <1>1, <1>2 DEF Next, Keeps

LEMMA LearnSteps == [Next]_vars => [Learn!Next]_(Learn!vars)
  <1>1. UNCHANGED learningVars => UNCHANGED Learn!vars
    BY DEF learningVars, Learn!vars
  <1>2. UNCHANGED vars => UNCHANGED learningVars
    BY DEF vars
  <1> QED
    BY <1>1, <1>2 DEF Next, Keeps

LEMMA GateSteps == [Next]_vars => [Gate!Next]_(Gate!vars)
  <1>1. UNCHANGED gateVars => UNCHANGED Gate!vars
    BY DEF gateVars, Gate!vars
  <1>2. UNCHANGED vars => UNCHANGED gateVars
    BY DEF vars
  <1> QED
    BY <1>1, <1>2 DEF Next, Keeps

LEMMA RunSteps == [Next]_vars => [Run!Next]_(Run!vars)
  <1>1. UNCHANGED runVars => UNCHANGED Run!vars
    BY DEF runVars, Run!vars
  <1>2. UNCHANGED vars => UNCHANGED runVars
    BY DEF vars
  <1> QED
    BY <1>1, <1>2 DEF Next, Keeps

LEMMA McpSteps == [Next]_vars => [Mcp!Next]_(Mcp!vars)
  <1>1. UNCHANGED mcpVars => UNCHANGED Mcp!vars
    BY DEF mcpVars, Mcp!vars
  <1>2. UNCHANGED vars => UNCHANGED mcpVars
    BY DEF vars
  <1> QED
    BY <1>1, <1>2 DEF Next, Keeps

LEMMA CallerSteps == [Next]_vars => [Caller!Next]_(Caller!vars)
  <1>1. UNCHANGED callerVars => UNCHANGED Caller!vars
    BY DEF callerVars, Caller!vars
  <1>2. UNCHANGED vars => UNCHANGED callerVars
    BY DEF vars
  <1> QED
    BY <1>1, <1>2 DEF Next, Keeps

LEMMA LogSteps == [Next]_vars => [Log!Next]_(Log!vars)
  <1>1. UNCHANGED logVars => UNCHANGED Log!vars
    BY DEF logVars, Log!vars
  <1>2. UNCHANGED vars => UNCHANGED logVars
    BY DEF vars
  <1> QED
    BY <1>1, <1>2 DEF Next, Keeps

LEMMA HarnessSteps == [Next]_vars => [Harness!Next]_(Harness!vars)
  <1>1. UNCHANGED harnessVars => UNCHANGED Harness!vars
    BY DEF harnessVars, Harness!vars
  <1>2. UNCHANGED vars => UNCHANGED harnessVars
    BY DEF vars
  <1> QED
    BY <1>1, <1>2 DEF Next, Keeps

LEMMA ProxySteps == [Next]_vars => [Proxy!Next]_(Proxy!vars)
  <1>1. UNCHANGED proxyVars => UNCHANGED Proxy!vars
    BY DEF proxyVars, Proxy!vars
  <1>2. UNCHANGED vars => UNCHANGED proxyVars
    BY DEF vars
  <1> QED
    BY <1>1, <1>2 DEF Next, Keeps

-----------------------------------------------------------------------------
(* HotSwap: the model that is served                                       *)

\* Request ids are not the mark that no swap is active.
LEMMA SwapConstants == First \in Models /\ Retries \subseteq Nat /\ Swap!None \notin SwapIds
  BY SwapAssumption DEF Swap!None

SwapRecords ==
  [state : Swap!States, target : Models \cup {Swap!None},
   previous : Models \cup {Swap!None}, retries : Nat, probes : Nat,
   rollback : BOOLEAN, running : BOOLEAN]

\* Where the active swap stands and what the runtime holds then: nothing was
\* touched before the load, the target is there while its health is probed, and
\* what a rollback would restore is the model that was served.
SwapStands(r) ==
  /\ active = r
  /\ swaps[r].state \in Swap!States \ (Swap!Ended \cup {Swap!None})
  /\ swaps[r].target \in Models /\ swaps[r].previous = current
  /\ swaps[r].state \in {"precheck", "loading"} /\ ~astray => runtime = current
  /\ swaps[r].state = "health_check" => runtime = swaps[r].target

SwapInv ==
  /\ swaps \in [SwapIds -> SwapRecords]
  /\ active \in SwapIds \cup {Swap!None}
  /\ current \in Models /\ runtime \in Models \cup {Swap!Nothing}
  /\ astray \in BOOLEAN
  /\ loaded = current
  /\ active = Swap!None /\ ~astray => runtime = current
  /\ \A r \in SwapIds : swaps[r].probes <= swaps[r].retries
  /\ \A r \in SwapIds : swaps[r].running => SwapStands(r)

\* No swap is known at the start.
LEMMA SwapInit == Swap!Init => SwapInv
  <1> SUFFICES ASSUME Swap!Init PROVE SwapInv
    OBVIOUS
  <1>1. Swap!Unknown \in SwapRecords /\ ~Swap!Unknown.running
        /\ Swap!Unknown.probes <= Swap!Unknown.retries
    BY DEF SwapRecords, Swap!Unknown, Swap!States, Swap!None
  <1>2. \A r \in SwapIds : swaps[r] = Swap!Unknown
    BY DEF Swap!Init
  <1>3. swaps \in [SwapIds -> SwapRecords]
    BY <1>1 DEF Swap!Init
  <1> QED
    BY <1>1, <1>2, <1>3, SwapConstants DEF Swap!Init, SwapInv

\* One record changes and the others stay, which are not running.
LEMMA SwapMoves ==
    ASSUME NEW r \in SwapIds, NEW n \in SwapRecords,
           swaps \in [SwapIds -> SwapRecords], swaps' = [swaps EXCEPT ![r] = n],
           \A k \in SwapIds : swaps[k].running => active = k,
           \A k \in SwapIds : swaps[k].probes <= swaps[k].retries,
           active \in {r, Swap!None}, n.probes <= n.retries,
           active' \in {r, Swap!None}, current' \in Models,
           runtime' \in Models \cup {Swap!Nothing}, astray' \in BOOLEAN,
           loaded' = current',
           active' = Swap!None /\ ~astray' => runtime' = current',
           n.running =>
             /\ active' = r
             /\ n.state \in Swap!States \ (Swap!Ended \cup {Swap!None})
             /\ n.target \in Models /\ n.previous = current'
             /\ n.state \in {"precheck", "loading"} /\ ~astray' => runtime' = current'
             /\ n.state = "health_check" => runtime' = n.target
    PROVE  SwapInv'
  <1>1. swaps' \in [SwapIds -> SwapRecords] /\ swaps'[r] = n
    OBVIOUS
  <1>2. \A k \in SwapIds \ {r} : swaps'[k] = swaps[k] /\ ~swaps[k].running
    BY SwapConstants
  <1>3. \A k \in SwapIds : swaps'[k].probes <= swaps'[k].retries
    BY <1>1, <1>2
  <1>4. \A k \in SwapIds : swaps'[k].running => k = r
    BY <1>2
  <1>5. swaps'[r].running => SwapStands(r)'
    BY <1>1 DEF SwapStands
  <1> QED
    BY <1>1, <1>3, <1>4, <1>5 DEF SwapInv

\* y is x with another state, count and running mark.
Like(y, x, state, p, b) ==
  /\ y \in SwapRecords
  /\ y.state = state /\ y.probes = p /\ y.running = b
  /\ y.target = x.target /\ y.previous = x.previous /\ y.retries = x.retries

\* The step makes that of the record of r and of no other.
Alters(r, state, p, b) ==
  /\ swaps' = [swaps EXCEPT ![r] = swaps'[r]]
  /\ Like(swaps'[r], swaps[r], state, p, b)

\* Each of the assignments to fields of a record that HotSwap makes.
LEMMA LikeState ==
    ASSUME NEW x \in SwapRecords, NEW s \in Swap!States, NEW y, y = [x EXCEPT !.state = s]
    PROVE  Like(y, x, s, x.probes, x.running)
  BY DEF Like, SwapRecords

LEMMA LikeEnd ==
    ASSUME NEW x \in SwapRecords, NEW s \in Swap!States,
           NEW y, y = [x EXCEPT !.state = s, !.running = FALSE]
    PROVE  Like(y, x, s, x.probes, FALSE)
  BY DEF Like, SwapRecords

LEMMA LikeStop ==
    ASSUME NEW x \in SwapRecords, NEW s \in Swap!States, NEW y, y = [x EXCEPT !.running = FALSE]
    PROVE  Like(y, x, x.state, x.probes, FALSE)
  BY DEF Like, SwapRecords

LEMMA LikeProbe ==
    ASSUME NEW x \in SwapRecords, NEW s \in Swap!States, NEW y, y = [x EXCEPT !.probes = @ + 1]
    PROVE  Like(y, x, x.state, x.probes + 1, x.running)
  BY DEF Like, SwapRecords

\* The same of the function of all the records.
LEMMA SwapForms ==
    ASSUME swaps \in [SwapIds -> SwapRecords], NEW r \in SwapIds, NEW s \in Swap!States
    PROVE  /\ swaps' = [swaps EXCEPT ![r].state = s] =>
                Alters(r, s, swaps[r].probes, swaps[r].running)
           /\ swaps' = [swaps EXCEPT ![r].state = s, ![r].running = FALSE] =>
                Alters(r, s, swaps[r].probes, FALSE)
           /\ swaps' = [swaps EXCEPT ![r].running = FALSE] =>
                Alters(r, swaps[r].state, swaps[r].probes, FALSE)
           /\ swaps' = [swaps EXCEPT ![r].probes = @ + 1] =>
                Alters(r, swaps[r].state, swaps[r].probes + 1, swaps[r].running)
  <1>1. swaps[r] \in SwapRecords
    OBVIOUS
  <1>2. ASSUME swaps' = [swaps EXCEPT ![r].state = s]
        PROVE  Alters(r, s, swaps[r].probes, swaps[r].running)
    <2>1. /\ swaps'[r] = [swaps[r] EXCEPT !.state = s]
          /\ swaps' = [swaps EXCEPT ![r] = swaps'[r]]
      BY <1>2
    <2> QED
      BY <1>1, <2>1, LikeState DEF Alters
  <1>3. ASSUME swaps' = [swaps EXCEPT ![r].state = s, ![r].running = FALSE]
        PROVE  Alters(r, s, swaps[r].probes, FALSE)
    <2>1. /\ swaps'[r] = [swaps[r] EXCEPT !.state = s, !.running = FALSE]
          /\ swaps' = [swaps EXCEPT ![r] = swaps'[r]]
      BY <1>3
    <2> QED
      BY <1>1, <2>1, LikeEnd DEF Alters
  <1>4. ASSUME swaps' = [swaps EXCEPT ![r].running = FALSE]
        PROVE  Alters(r, swaps[r].state, swaps[r].probes, FALSE)
    <2>1. /\ swaps'[r] = [swaps[r] EXCEPT !.running = FALSE]
          /\ swaps' = [swaps EXCEPT ![r] = swaps'[r]]
      BY <1>4
    <2> QED
      BY <1>1, <2>1, LikeStop DEF Alters
  <1>5. ASSUME swaps' = [swaps EXCEPT ![r].probes = @ + 1]
        PROVE  Alters(r, swaps[r].state, swaps[r].probes + 1,
                    swaps[r].running)
    <2>1. /\ swaps'[r] = [swaps[r] EXCEPT !.probes = @ + 1]
          /\ swaps' = [swaps EXCEPT ![r] = swaps'[r]]
      BY <1>5
    <2> QED
      BY <1>1, <2>1, LikeProbe DEF Alters
  <1> QED
    BY <1>2, <1>3, <1>4, <1>5

\* SwapMoves, for a step that alters the record of the swap in progress.
LEMMA SwapAltered ==
    ASSUME SwapInv, NEW r \in SwapIds, swaps[r].running,
           NEW s \in Swap!States, NEW p \in Nat, NEW b \in BOOLEAN, Alters(r, s, p, b),
           p <= swaps[r].retries,
           active' \in {r, Swap!None}, current' \in Models,
           runtime' \in Models \cup {Swap!Nothing}, astray' \in BOOLEAN,
           loaded' = current',
           active' = Swap!None /\ ~astray' => runtime' = current',
           b => /\ active' = r /\ current' = current
                /\ s \in {"precheck", "loading", "health_check", "rolling_back"}
                /\ s \in {"precheck", "loading"} /\ ~astray' => runtime' = current'
                /\ s = "health_check" => runtime' = swaps[r].target
    PROVE  SwapInv'
  <1> DEFINE n == swaps'[r]
  <1>1. /\ SwapStands(r) /\ swaps \in [SwapIds -> SwapRecords]
        /\ \A k \in SwapIds : swaps[k].running => active = k
        /\ \A k \in SwapIds : swaps[k].probes <= swaps[k].retries
    BY DEF SwapInv, SwapStands
  <1>2. /\ swaps' = [swaps EXCEPT ![r] = n] /\ n \in SwapRecords
        /\ n.state = s /\ n.probes = p /\ n.running = b
        /\ n.target = swaps[r].target /\ n.previous = swaps[r].previous
        /\ n.retries = swaps[r].retries
    BY DEF Alters, Like
  <1>3. n.probes <= n.retries
    BY <1>2
  <1>4. active \in {r, Swap!None}
    BY <1>1 DEF SwapStands
  <1>5. ASSUME n.running
        PROVE  /\ active' = r
               /\ n.state \in Swap!States \ (Swap!Ended \cup {Swap!None})
               /\ n.target \in Models /\ n.previous = current'
               /\ n.state \in {"precheck", "loading"} /\ ~astray' => runtime' = current'
               /\ n.state = "health_check" => runtime' = n.target
    BY <1>1, <1>2, <1>5 DEF SwapStands, Swap!States, Swap!Ended, Swap!None
  <1> HIDE DEF n
  <1> QED
    BY <1>1, <1>2, <1>3, <1>4, <1>5, SwapMoves

\* Finish: nothing is in progress any more.
LEMMA SwapFinish ==
    ASSUME SwapInv, NEW r \in SwapIds, swaps[r].running,
           NEW s \in Swap!Ended, Swap!Finish(r, s),
           current' \in Models, runtime' \in Models \cup {Swap!Nothing},
           astray' \in BOOLEAN, loaded' = current', ~astray' => runtime' = current'
    PROVE  SwapInv'
  <1>1. s \in Swap!States /\ FALSE \in BOOLEAN
    BY DEF Swap!States
  <1>2. /\ swaps \in [SwapIds -> SwapRecords]
        /\ swaps[r].probes \in Nat /\ swaps[r].probes <= swaps[r].retries
    BY DEF SwapInv, SwapRecords
  <1>3. Alters(r, s, swaps[r].probes, FALSE) /\ active' = Swap!None
    BY <1>1, <1>2, SwapForms DEF Swap!Finish
  <1> QED
    BY <1>1, <1>2, <1>3, SwapAltered

\* Escape: the swap stays in progress, and nothing runs.
LEMMA SwapEscape ==
    ASSUME SwapInv, NEW r \in SwapIds, swaps[r].running, Swap!Escape(r),
           runtime' \in Models \cup {Swap!Nothing}, UNCHANGED <<current, loaded>>
    PROVE  SwapInv'
  <1>1. /\ swaps \in [SwapIds -> SwapRecords] /\ SwapStands(r)
        /\ swaps[r].probes \in Nat /\ swaps[r].probes <= swaps[r].retries
        /\ swaps[r].state \in Swap!States
        /\ current \in Models /\ loaded = current
    BY DEF SwapInv, SwapRecords
  <1>2. Alters(r, swaps[r].state, swaps[r].probes, FALSE) /\ active' = active /\ astray' = TRUE
    BY <1>1, SwapForms DEF Swap!Escape
  <1>3. active' = r
    BY <1>1, <1>2 DEF SwapStands
  <1> QED
    BY <1>1, <1>2, <1>3, SwapAltered

\* Fail: a rollback begins, or the swap has failed.
LEMMA SwapFail ==
    ASSUME SwapInv, NEW r \in SwapIds, swaps[r].running, Swap!Fail(r),
           runtime' \in Models \cup {Swap!Nothing}, UNCHANGED <<current, loaded>>
    PROVE  SwapInv'
  <1>1. /\ swaps \in [SwapIds -> SwapRecords] /\ SwapStands(r)
        /\ swaps[r].probes \in Nat /\ swaps[r].probes <= swaps[r].retries
        /\ swaps[r].running \in BOOLEAN /\ astray \in BOOLEAN
        /\ current \in Models /\ loaded = current
    BY DEF SwapInv, SwapRecords
  <1>2. CASE swaps[r].rollback
    <2>1. "rolling_back" \in Swap!States
      BY DEF Swap!States
    <2>2. /\ Alters(r, "rolling_back", swaps[r].probes, swaps[r].running)
          /\ active' = r /\ astray' = astray
      BY <1>1, <1>2, <2>1, SwapForms DEF Swap!Fail, Swap!Moved, SwapStands
    <2>3. ~(active' = Swap!None)
      BY <2>2, SwapConstants
    <2> QED
      BY <1>1, <2>1, <2>2, <2>3, SwapAltered
  <1>3. CASE ~swaps[r].rollback
    <2>1. Swap!Finish(r, "failed") /\ astray' = TRUE /\ "failed" \in Swap!Ended
      BY <1>3 DEF Swap!Fail, Swap!Ended
    <2> QED
      BY <1>1, <2>1, SwapFinish
  <1> QED
    BY <1>2, <1>3

\* What SwapInv says of a running swap.
LEMMA SwapRuns ==
    ASSUME SwapInv, NEW r \in SwapIds, swaps[r].running
    PROVE  /\ swaps \in [SwapIds -> SwapRecords] /\ active = r /\ active # Swap!None
           /\ swaps[r].probes \in Nat /\ swaps[r].retries \in Nat
           /\ swaps[r].probes <= swaps[r].retries
           /\ swaps[r].state \in Swap!States /\ swaps[r].running \in BOOLEAN
           /\ swaps[r].target \in Models /\ swaps[r].previous = current
           /\ current \in Models /\ loaded = current /\ astray \in BOOLEAN
           /\ runtime \in Models \cup {Swap!Nothing}
           /\ SwapStands(r)
  BY SwapConstants DEF SwapInv, SwapRecords, SwapStands

\* A new swap finds none in progress.
LEMMA SwapSubmitKeeps ==
    ASSUME SwapInv, NEW r \in SwapIds, NEW target \in Models,
           NEW retries \in Retries, NEW rollback \in BOOLEAN,
           Swap!Submit(r, target, retries, rollback)
    PROVE  SwapInv'
  <1> DEFINE n == [state |-> "precheck", target |-> target, previous |-> current,
                   retries |-> retries, probes |-> 0, rollback |-> rollback,
                   running |-> TRUE]
  <1>1. n \in SwapRecords /\ retries \in Nat
    BY SwapConstants DEF SwapRecords, SwapInv, Swap!States
  <1>2. /\ swaps \in [SwapIds -> SwapRecords] /\ active = Swap!None
        /\ current \in Models /\ loaded = current /\ astray \in BOOLEAN
        /\ runtime \in Models \cup {Swap!Nothing}
        /\ ~astray => runtime = current
        /\ \A k \in SwapIds : swaps[k].running => active = k
        /\ \A k \in SwapIds : swaps[k].probes <= swaps[k].retries
    BY DEF SwapInv, SwapStands, Swap!Submit
  <1>3. /\ swaps' = [swaps EXCEPT ![r] = n] /\ active' = r
        /\ UNCHANGED <<current, loaded, runtime, astray>>
    BY DEF Swap!Submit
  <1>4. /\ n.probes <= n.retries /\ n.previous = current /\ n.target \in Models
        /\ n.state = "precheck"
    BY <1>1
  <1>5. n.state \in Swap!States \ (Swap!Ended \cup {Swap!None})
    BY <1>4 DEF Swap!States, Swap!Ended, Swap!None
  <1>6. r # Swap!None
    BY SwapConstants
  <1> HIDE DEF n
  <1> QED
    BY <1>1, <1>2, <1>3, <1>4, <1>5, <1>6, SwapMoves

\* The prechecks, which touch nothing.
LEMMA SwapPrecheckKeeps ==
    ASSUME SwapInv, NEW r \in SwapIds,
           Swap!Reject(r) \/ Swap!Admit(r) \/ Swap!CheckRaises(r)
    PROVE  SwapInv'
  <1>1. swaps[r].running /\ swaps[r].state = "precheck"
        /\ UNCHANGED <<current, loaded, runtime>>
    BY DEF Swap!Reject, Swap!Admit, Swap!CheckRaises
  <1>2. ~astray => runtime = current
    BY <1>1, SwapRuns DEF SwapStands
  <1>3. CASE Swap!Reject(r)
    <2>1. Swap!Finish(r, "rejected") /\ astray' = astray /\ "rejected" \in Swap!Ended
      BY <1>3 DEF Swap!Reject, Swap!Ended
    <2> QED
      BY <1>1, <1>2, <2>1, SwapRuns, SwapFinish
  <1>4. CASE Swap!Admit(r)
    <2>1. "loading" \in Swap!States
      BY DEF Swap!States
    <2>2. /\ Alters(r, "loading", swaps[r].probes, swaps[r].running)
          /\ active' = r /\ astray' = astray /\ ~(active' = Swap!None)
      BY <1>1, <1>4, <2>1, SwapRuns, SwapForms DEF Swap!Admit, Swap!Moved
    <2> QED
      BY <1>1, <1>2, <2>1, <2>2, SwapRuns, SwapAltered
  <1>5. CASE Swap!CheckRaises(r)
    BY <1>1, <1>5, SwapRuns, SwapEscape DEF Swap!CheckRaises
  <1> QED
    BY <1>3, <1>4, <1>5

\* The load.
LEMMA SwapLoadKeeps ==
    ASSUME SwapInv, NEW r \in SwapIds, Swap!Load(r) PROVE SwapInv'
  <1>1. swaps[r].running /\ UNCHANGED <<current, loaded>>
    BY DEF Swap!Load
  <1>2. CASE runtime' = swaps[r].target /\ Swap!Moved(r, "health_check")
             /\ UNCHANGED <<active, astray>>
    <2>1. "health_check" \in Swap!States
      BY DEF Swap!States
    <2>2. /\ Alters(r, "health_check", swaps[r].probes, swaps[r].running)
          /\ active' = r /\ ~(active' = Swap!None)
      BY <1>1, <1>2, <2>1, SwapRuns, SwapForms DEF Swap!Moved
    <2> QED
      BY <1>1, <1>2, <2>1, <2>2, SwapRuns, SwapAltered
  <1>3. CASE runtime' \in {runtime, Swap!Nothing} /\ (Swap!Fail(r) \/ Swap!Escape(r))
    BY <1>1, <1>3, SwapRuns, SwapFail, SwapEscape
  <1> QED
    BY <1>2, <1>3 DEF Swap!Load

\* The probes of the target's health.
LEMMA SwapProbeKeeps ==
    ASSUME SwapInv, NEW r \in SwapIds, Swap!Healthy(r) \/ Swap!Unwell(r)
    PROVE  SwapInv'
  <1>1. swaps[r].running /\ swaps[r].state = "health_check" /\ runtime' = runtime
    BY DEF Swap!Healthy, Swap!Unwell, Swap!Replaced
  <1>2. runtime = swaps[r].target
    BY <1>1, SwapRuns DEF SwapStands
  <1>3. CASE Swap!Healthy(r)
    <2>1. /\ Swap!Finish(r, "done") /\ "done" \in Swap!Ended
          /\ loaded' = swaps[r].target /\ current' = swaps[r].target /\ astray' = FALSE
      BY <1>3 DEF Swap!Healthy, Swap!Replaced, Swap!Ended
    <2> QED
      BY <1>1, <1>2, <2>1, SwapRuns, SwapFinish
  <1>4. CASE Swap!Unwell(r)
    <2>1. UNCHANGED <<current, loaded>>
      BY <1>4 DEF Swap!Unwell
    <2>2. CASE swaps[r].probes + 1 < swaps[r].retries
               /\ swaps' = [swaps EXCEPT ![r].probes = @ + 1] /\ UNCHANGED <<active, astray>>
      <3>1. Alters(r, swaps[r].state, swaps[r].probes + 1, swaps[r].running)
        BY <1>1, <2>2, SwapRuns, SwapForms
      <3>2. /\ swaps[r].probes + 1 \in Nat /\ swaps[r].probes + 1 <= swaps[r].retries
            /\ active' = r /\ ~(active' = Swap!None) /\ astray' = astray
        BY <1>1, <2>2, SwapRuns
      <3> QED
        BY <1>1, <1>2, <2>1, <3>1, <3>2, SwapRuns, SwapAltered
    <2>3. CASE Swap!Fail(r)
      BY <1>1, <2>1, <2>3, SwapRuns, SwapFail
    <2>4. CASE Swap!Escape(r)
      BY <1>1, <2>1, <2>4, SwapRuns, SwapEscape
    <2> QED
      BY <1>4, <2>2, <2>3, <2>4 DEF Swap!Unwell
  <1> QED
    BY <1>3, <1>4

\* The rollback.
LEMMA SwapRollBackKeeps ==
    ASSUME SwapInv, NEW r \in SwapIds, Swap!RollBack(r) PROVE SwapInv'
  <1>1. swaps[r].running
    BY DEF Swap!RollBack
  <1>2. CASE Swap!Restored(r)
    <2>1. /\ Swap!Finish(r, "rolled_back") /\ "rolled_back" \in Swap!Ended
          /\ runtime' = swaps[r].previous /\ loaded' = swaps[r].previous
          /\ current' = swaps[r].previous /\ astray' = FALSE
      BY <1>2 DEF Swap!Restored, Swap!Ended
    <2> QED
      BY <1>1, <2>1, SwapRuns, SwapFinish
  <1>3. CASE Swap!Lost(r)
    <2>1. /\ Swap!Finish(r, "failed") /\ "failed" \in Swap!Ended /\ astray' = TRUE
          /\ runtime' \in {runtime, Swap!Nothing} /\ UNCHANGED <<current, loaded>>
      BY <1>3 DEF Swap!Lost, Swap!Ended
    <2> QED
      BY <1>1, <2>1, SwapRuns, SwapFinish
  <1> QED
    BY <1>2, <1>3 DEF Swap!RollBack

LEMMA SwapNextKeeps == SwapInv /\ [Swap!Next]_(Swap!vars) => SwapInv'
  <1> SUFFICES ASSUME SwapInv, [Swap!Next]_(Swap!vars) PROVE SwapInv'
    OBVIOUS
  <1>1. ASSUME NEW r \in SwapIds, NEW target \in Models, NEW retries \in Retries,
               NEW rollback \in BOOLEAN, Swap!Submit(r, target, retries, rollback)
        PROVE  SwapInv'
    BY <1>1, SwapSubmitKeeps
  <1>2. ASSUME NEW r \in SwapIds, Swap!Step(r) PROVE SwapInv'
    BY <1>2, SwapPrecheckKeeps, SwapLoadKeeps, SwapProbeKeeps, SwapRollBackKeeps DEF Swap!Step
  <1>3. CASE UNCHANGED Swap!vars
    BY <1>3 DEF Swap!vars, SwapInv, SwapStands
  <1> QED
    BY <1>1, <1>2, <1>3 DEF Swap!Next

\* Between swaps the model the controller names, the one it takes for loaded and
\* the one the runtime holds are the same, unless a swap has gone astray since the
\* last good one, and one swap runs at a time: hot_swap.
THEOREM SwapServesWhatIsLoaded == Spec => []ServedModelIsLoaded
  <1>1. SwapInv => ServedModelIsLoaded
    BY DEF SwapInv, SwapStands, Swap!ServedModelIsLoaded, ServedModelIsLoaded
  <1>2. Init => SwapInv
    BY SwapInit DEF Init
  <1>3. SwapInv /\ [Next]_vars => SwapInv'
    BY SwapNextKeeps, SwapSteps
  <1> QED
    BY <1>1, <1>2, <1>3, PTL DEF Spec

-----------------------------------------------------------------------------
(* Learning: what is applied                                               *)

Moves == {"confirmed", "applied", "rejected", "expired", "stale", "rolled_back", "closed"}
Entries == [type : Moves \cup {"generated"}, rec : Recs, evidence : Nat, at : Nat]

\* No entry says that r was applied; an entry says that r was confirmed on the
\* evidence the confirmation remembers.
NotApplied(r) == \A i \in DOMAIN journal : journal[i].rec = r => journal[i].type # "applied"
ConfirmedOn(r, version) ==
  \E j \in DOMAIN journal :
    journal[j].type = "confirmed" /\ journal[j].rec = r /\ journal[j].evidence = version

\* What the status says of the journal.
LearnInv ==
  /\ status \in [Recs -> DOMAIN Learn!Transitions]
  /\ generated \in [Recs -> Nat] /\ evidence \in [Recs -> Nat] /\ ticks \in Nat
  /\ confirmHash \in [Recs -> Nat]
  /\ journal \in Seq(Entries)
  /\ \A r \in Recs : status[r] \in {"new", "pending", "confirmed"} => NotApplied(r)
  /\ \A r \in Recs : status[r] = "confirmed" => ConfirmedOn(r, confirmHash[r])
  /\ Learn!AppliedAsConfirmed

LEMMA LearnInit == Learn!Init => LearnInv
  <1> SUFFICES ASSUME Learn!Init PROVE LearnInv
    OBVIOUS
  <1>1. journal = <<>> /\ DOMAIN journal = {} /\ journal \in Seq(Entries)
    BY DEF Learn!Init
  <1>2. /\ status \in [Recs -> DOMAIN Learn!Transitions]
        /\ generated \in [Recs -> Nat] /\ evidence \in [Recs -> Nat] /\ ticks \in Nat
        /\ confirmHash \in [Recs -> Nat]
        /\ \A r \in Recs : status[r] = "new"
    BY DEF Learn!Init, Learn!Transitions, Learn!None
  <1> QED
    BY <1>1, <1>2 DEF LearnInv, NotApplied, Learn!AppliedAsConfirmed, Learn!Entries

\* A step that leaves the journal and the statuses alone, and no generation time
\* of a registered recommendation.
LEMMA LearnQuiet ==
    ASSUME LearnInv, UNCHANGED <<status, confirmHash, journal, generated>>,
           evidence' \in [Recs -> Nat], ticks' \in Nat
    PROVE  LearnInv'
  <1>1. \A r \in Recs : /\ NotApplied(r)' = NotApplied(r)
                        /\ ConfirmedOn(r, confirmHash[r])' = ConfirmedOn(r, confirmHash[r])
    BY DEF NotApplied, ConfirmedOn
  <1>2. Learn!AppliedAsConfirmed' = Learn!AppliedAsConfirmed
    BY DEF Learn!AppliedAsConfirmed, Learn!Entries
  <1> QED
    BY <1>1, <1>2 DEF LearnInv

\* A transition of one recommendation with its entry: what holds of the others
\* stays, and what holds of this one depends on where it went.
LEMMA LearnMoves ==
    ASSUME LearnInv, NEW r \in Recs, NEW to \in DOMAIN Learn!Transitions,
           NEW type \in Moves \cup {"generated"},
           Learn!Event(type, r),
           status' = [status EXCEPT ![r] = to],
           evidence' = evidence, ticks' = ticks, generated' \in [Recs -> Nat],
           confirmHash' \in [Recs -> Nat],
           \A q \in Recs \ {r} : generated'[q] = generated[q] /\ confirmHash'[q] = confirmHash[q],
           generated'[r] # generated[r] => NotApplied(r),
           to \in {"new", "pending", "confirmed"} => NotApplied(r) /\ type # "applied",
           to = "confirmed" => type = "confirmed" /\ confirmHash'[r] = evidence[r],
           type = "applied" =>
             NotApplied(r) /\ ConfirmedOn(r, evidence[r]) /\ ticks <= generated'[r] + TTL
    PROVE  LearnInv'
  <1> DEFINE n == Len(journal) + 1
             e == [type |-> type, rec |-> r, evidence |-> evidence[r], at |-> ticks]
  <1>1. e \in Entries /\ e.type = type /\ e.rec = r /\ e.evidence = evidence[r] /\ e.at = ticks
    BY DEF LearnInv, Entries
  <1>2. journal' = Append(journal, e)
    BY DEF Learn!Event
  <1>3. n \in Nat /\ n >= 1 /\ journal \in Seq(Entries)
    BY LenProperties DEF LearnInv
  <1> HIDE DEF e
  <1>4. /\ journal' \in Seq(Entries) /\ Len(journal') = n /\ journal'[n] = e
        /\ \A i \in DOMAIN journal : journal'[i] = journal[i]
        /\ DOMAIN journal' = DOMAIN journal \cup {n}
        /\ \A i \in DOMAIN journal : i < n
    BY <1>1, <1>2, <1>3, AppendProperties, LenProperties
  <1> HIDE DEF n
  <1>5. ASSUME NEW q \in Recs \ {r}
        PROVE  /\ NotApplied(q) => NotApplied(q)'
               /\ ConfirmedOn(q, confirmHash[q]) => ConfirmedOn(q, confirmHash[q])'
    <2>1. NotApplied(q) => NotApplied(q)'
      BY <1>1, <1>4 DEF NotApplied
    <2>2. \A v : ConfirmedOn(q, v) => ConfirmedOn(q, v)'
      BY <1>4 DEF ConfirmedOn
    <2>3. confirmHash'[q] = confirmHash[q]
      OBVIOUS
    <2> QED
      BY <2>1, <2>2, <2>3 DEF ConfirmedOn
  <1>6. to \in {"new", "pending", "confirmed"} => NotApplied(r)'
    BY <1>1, <1>4 DEF NotApplied
  <1>7. to = "confirmed" => ConfirmedOn(r, confirmHash[r])'
    BY <1>1, <1>4 DEF ConfirmedOn
  <1>8. Learn!AppliedAsConfirmed'
    <2> SUFFICES ASSUME NEW q \in Recs, NEW i \in Learn!Entries("applied", q)'
                 PROVE  /\ Learn!Entries("applied", q)' = {i}
                        /\ journal'[i].at <= generated'[q] + TTL
                        /\ \E j \in Learn!Entries("confirmed", q)' :
                              j < i /\ journal'[j].evidence = journal'[i].evidence
      BY DEF Learn!AppliedAsConfirmed
    <2>1. i \in DOMAIN journal' /\ journal'[i].type = "applied" /\ journal'[i].rec = q
      BY DEF Learn!Entries
    <2>2. CASE i = n
      <3>1. type = "applied" /\ q = r
        BY <1>1, <1>4, <2>1, <2>2
      <3>2. PICK j \in DOMAIN journal : /\ journal[j].type = "confirmed" /\ journal[j].rec = r
                                        /\ journal[j].evidence = evidence[r]
        BY <3>1 DEF ConfirmedOn
      <3> QED
        BY <1>1, <1>4, <2>1, <2>2, <3>1, <3>2 DEF NotApplied, Learn!Entries
    <2>3. CASE i # n
      <3>1. i \in DOMAIN journal /\ i \in Learn!Entries("applied", q)
        BY <1>4, <2>1, <2>3 DEF Learn!Entries
      <3>2. /\ Learn!Entries("applied", q) = {i}
            /\ journal[i].at <= generated[q] + TTL
            /\ \E j \in Learn!Entries("confirmed", q) :
                  j < i /\ journal[j].evidence = journal[i].evidence
        BY <3>1 DEF LearnInv, Learn!AppliedAsConfirmed
      <3>3. ~(type = "applied" /\ q = r) /\ generated'[q] = generated[q]
        BY <3>1 DEF NotApplied, Learn!Entries
      <3> QED
        BY <1>1, <1>4, <3>1, <3>2, <3>3 DEF Learn!Entries
    <2> QED
      BY <2>2, <2>3
  <1>9. status' \in [Recs -> DOMAIN Learn!Transitions]
    BY DEF LearnInv
  <1> QED
    BY <1>4, <1>5, <1>6, <1>7, <1>8, <1>9 DEF LearnInv

LEMMA LearnStates ==
    DOMAIN Learn!Transitions =
      {"new", "pending", "confirmed", "applied", "rolled_back", "rejected", "stale",
       "expired", "closed"}
  BY DEF Learn!Transitions

\* Where a transition may lead from.
LEMMA LearnTransitions ==
    /\ \A s \in DOMAIN Learn!Transitions : Learn!Transitions[s] \subseteq DOMAIN Learn!Transitions
    /\ \A s \in DOMAIN Learn!Transitions :
         /\ "confirmed" \in Learn!Transitions[s] => s = "pending"
         /\ "applied" \in Learn!Transitions[s] => s = "confirmed"
         /\ "pending" \notin Learn!Transitions[s] /\ "new" \notin Learn!Transitions[s]
  BY DEF Learn!Transitions

\* A transition that is neither a confirmation nor an application.
LEMMA LearnDecides ==
    ASSUME LearnInv, NEW r \in Recs,
           NEW to \in {"rejected", "expired", "stale", "rolled_back", "closed"},
           Learn!Decide(r, to)
    PROVE  LearnInv'
  <1>1. to \in DOMAIN Learn!Transitions /\ to \in Moves
    BY LearnStates DEF Moves
  <1>2. /\ Learn!Event(to, r) /\ status' = [status EXCEPT ![r] = to]
        /\ UNCHANGED <<generated, evidence, confirmHash, ticks>>
    BY DEF Learn!Decide, Learn!Move, Learn!world
  <1>3. generated \in [Recs -> Nat] /\ confirmHash \in [Recs -> Nat]
    BY DEF LearnInv
  <1>4. to \notin {"new", "pending", "confirmed", "applied"}
    OBVIOUS
  <1> QED
    BY <1>1, <1>2, <1>3, <1>4, LearnMoves

LEMMA LearnNextKeeps == LearnInv /\ [Learn!Next]_(Learn!vars) => LearnInv'
  <1> SUFFICES ASSUME LearnInv, [Learn!Next]_(Learn!vars) PROVE LearnInv'
    OBVIOUS
  <1>t. /\ status \in [Recs -> DOMAIN Learn!Transitions]
        /\ generated \in [Recs -> Nat] /\ confirmHash \in [Recs -> Nat]
        /\ evidence \in [Recs -> Nat] /\ ticks \in Nat
    BY DEF LearnInv
  <1>1. ASSUME NEW r \in Recs, Learn!Register(r) PROVE LearnInv'
    <2>1. "pending" \in DOMAIN Learn!Transitions /\ "generated" \in Moves \cup {"generated"}
      BY LearnStates DEF Moves
    <2>2. /\ Learn!Event("generated", r) /\ status' = [status EXCEPT ![r] = "pending"]
          /\ generated' = [generated EXCEPT ![r] = ticks]
          /\ UNCHANGED <<evidence, confirmHash, ticks>> /\ status[r] = "new"
      BY <1>1 DEF Learn!Register
    <2>3. NotApplied(r)
      BY <2>2 DEF LearnInv
    <2>4. generated' \in [Recs -> Nat] /\ \A q \in Recs \ {r} : generated'[q] = generated[q]
      BY <1>t, <2>2
    <2> QED
      BY <1>t, <2>1, <2>2, <2>3, <2>4, LearnMoves
  <1>2. ASSUME NEW r \in Recs, Learn!Confirm(r) PROVE LearnInv'
    <2>1. /\ Learn!Event("confirmed", r) /\ status' = [status EXCEPT ![r] = "confirmed"]
          /\ confirmHash' = [confirmHash EXCEPT ![r] = evidence[r]]
          /\ UNCHANGED <<generated, evidence, ticks>>
          /\ "confirmed" \in Learn!Transitions[status[r]]
      BY <1>2 DEF Learn!Confirm, Learn!Move, Learn!world
    <2>2. /\ status[r] = "pending" /\ "confirmed" \in DOMAIN Learn!Transitions
          /\ "confirmed" \in Moves
      BY <1>t, <2>1, LearnTransitions, LearnStates DEF Moves
    <2>3. NotApplied(r)
      BY <2>2 DEF LearnInv
    <2>4. /\ confirmHash' \in [Recs -> Nat] /\ confirmHash'[r] = evidence[r]
          /\ \A q \in Recs \ {r} : confirmHash'[q] = confirmHash[q]
      BY <1>t, <2>1
    <2> QED
      BY <1>t, <2>1, <2>2, <2>3, <2>4, LearnMoves
  <1>3. ASSUME NEW r \in Recs,
               NEW to \in {"rejected", "expired", "stale", "rolled_back", "closed"},
               Learn!Decide(r, to)
        PROVE  LearnInv'
    BY <1>3, LearnDecides
  <1>4. ASSUME NEW r \in Recs, Learn!ApplyRefused(r) PROVE LearnInv'
    <2>1. Learn!Decide(r, "stale")
      BY <1>4 DEF Learn!ApplyRefused
    <2> QED
      BY <2>1, LearnDecides
  <1>5. ASSUME NEW r \in Recs, Learn!Apply(r) PROVE LearnInv'
    <2>1. /\ Learn!Event("applied", r) /\ status' = [status EXCEPT ![r] = "applied"]
          /\ UNCHANGED <<generated, evidence, confirmHash, ticks>>
          /\ status[r] = "confirmed" /\ confirmHash[r] = evidence[r]
          /\ ~(generated[r] + TTL < ticks)
      BY <1>5 DEF Learn!Apply, Learn!Decide, Learn!Move, Learn!world, Learn!Confirmed,
                  Learn!Expired
    <2>2. NotApplied(r) /\ ConfirmedOn(r, evidence[r])
      BY <2>1 DEF LearnInv
    <2>3. "applied" \in DOMAIN Learn!Transitions /\ "applied" \in Moves
      BY LearnStates DEF Moves
    <2>4. ticks <= generated'[r] + TTL
      BY <1>t, <2>1, LearningAssumption
    <2> QED
      BY <1>t, <2>1, <2>2, <2>3, <2>4, LearnMoves
  <1>6. ASSUME NEW r \in Recs, Learn!Regenerate(r) PROVE LearnInv'
    <2>1. UNCHANGED <<status, confirmHash, journal, generated, ticks>>
          /\ evidence' = [evidence EXCEPT ![r] = @ + 1]
      BY <1>6 DEF Learn!Regenerate, Learn!board
    <2>2. evidence' \in [Recs -> Nat]
      BY <1>t, <2>1
    <2> QED
      BY <1>t, <2>1, <2>2, LearnQuiet
  <1>7. CASE Learn!Tick
    BY <1>t, <1>7, LearnQuiet DEF Learn!Tick, Learn!board
  <1>8. CASE UNCHANGED Learn!vars
    BY <1>t, <1>8, LearnQuiet DEF Learn!vars
  <1> QED
    BY <1>1, <1>2, <1>3, <1>4, <1>5, <1>6, <1>7, <1>8 DEF Learn!Next

\* What the journal says was applied was confirmed before, on the evidence it was
\* applied with, within its time, and once: the gate of apply_recommendation.
THEOREM LearnAppliesWhatWasConfirmed == Spec => []AppliedAsConfirmed
  <1>1. LearnInv => AppliedAsConfirmed
    BY DEF LearnInv, AppliedAsConfirmed
  <1>2. Init => LearnInv
    BY LearnInit DEF Init
  <1>3. LearnInv /\ [Next]_vars => LearnInv'
    BY LearnNextKeeps, LearnSteps
  <1> QED
    BY <1>1, <1>2, <1>3, PTL DEF Spec

-----------------------------------------------------------------------------
(* PluginGate: what the gate opens for                                     *)

\* A hash on file tells what was scanned, and the rules are those that fire on it.
GateInv ==
  /\ package \in [Plugins -> Packages]
  /\ report \in [Plugins -> [hash : Packages \cup {"none"}, version : {"none", "older", "current"},
                             rules : SUBSET UNION {Findings[k] : k \in Packages}]]
  /\ \A p \in Plugins : report[p].version # "none" =>
       report[p].hash \in Packages /\ report[p].rules = Findings[report[p].hash]
  /\ gate \in [Plugins -> {"open", "blocked", "unregistered"}]

LEMMA GateInit == Gate!Init => GateInv
  BY DEF Gate!Init, GateInv, Gate!NoReport

LEMMA GateNextKeeps == GateInv /\ [Gate!Next]_(Gate!vars) => GateInv'
  <1> SUFFICES ASSUME GateInv, [Gate!Next]_(Gate!vars) PROVE GateInv'
    OBVIOUS
  <1>1. ASSUME NEW p \in Plugins, NEW version \in {"older", "current"}, Gate!Scan(p, version)
        PROVE  GateInv'
    <2> DEFINE n == [hash |-> package[p], version |-> version, rules |-> Findings[package[p]]]
    <2>1. /\ package[p] \in Packages /\ n.hash = package[p] /\ n.rules = Findings[package[p]]
          /\ n \in [hash : Packages \cup {"none"}, version : {"none", "older", "current"},
                    rules : SUBSET UNION {Findings[k] : k \in Packages}]
      BY DEF GateInv
    <2>2. report' = [report EXCEPT ![p] = n] /\ UNCHANGED <<package, reviews, gate, now>>
      BY <1>1 DEF Gate!Scan
    <2> HIDE DEF n
    <2> QED
      BY <2>1, <2>2 DEF GateInv
  <1>2. ASSUME NEW p \in Plugins, NEW to \in Packages, Gate!Repackage(p, to)
        PROVE  GateInv'
    BY <1>2 DEF GateInv, Gate!Repackage
  <1>3. ASSUME NEW p \in Plugins, NEW rule, Gate!Review(rule, p) PROVE GateInv'
    BY <1>3 DEF GateInv, Gate!Review
  <1>4. ASSUME NEW p \in Plugins, Gate!Admit(p) PROVE GateInv'
    BY <1>4 DEF GateInv, Gate!Admit
  <1>5. CASE Gate!Tick
    BY <1>5 DEF GateInv, Gate!Tick
  <1>6. CASE UNCHANGED Gate!vars
    BY <1>6 DEF GateInv, Gate!vars
  <1> QED
    BY <1>1, <1>2, <1>3, <1>4, <1>5, <1>6 DEF Gate!Next

\* Admit is the only step that opens a gate, and it looks at the package.
LEMMA GateOpens ==
    ASSUME GateInv, Gate!Next, NEW p \in Plugins, gate'[p] = "open", gate[p] # "open",
           NEW rule \in Findings[package[p]] \cap Gate!Floors
    PROVE  \E e \in reviews : e.rule = rule /\ e.scope = p /\ e.until > now
  <1>1. gate' # gate
    OBVIOUS
  <1>2. PICK q \in Plugins : Gate!Admit(q)
    BY <1>1 DEF Gate!Next, Gate!Scan, Gate!Repackage, Gate!Review, Gate!Tick
  <1>3. p = q
    BY <1>2 DEF Gate!Admit, GateInv
  <1>4. Gate!Valid(p) /\ ~Gate!Blocked(Gate!Kept(p))
    BY <1>2, <1>3 DEF Gate!Admit, GateInv
  <1>5. report[p].rules = Findings[package[p]]
    BY <1>4 DEF Gate!Valid, GateInv
  <1>6. rule \notin Gate!Kept(p)
    BY <1>4 DEF Gate!Blocked
  <1> QED
    BY <1>5, <1>6 DEF Gate!Kept, Gate!Hit

\* A gate opens for what the plugin holds at that moment: each finding of its
\* present package that blocks is waived for it by a review in force.
THEOREM GateOpensForThePresent == Spec => OpensForThePresentPackage
  <1>1. GateInv /\ [Gate!Next]_(Gate!vars) =>
          [\A p \in Plugins : gate'[p] = "open" /\ gate[p] # "open" =>
             \A rule \in Findings[package[p]] \cap Gate!Floors :
               \E e \in reviews : e.rule = rule /\ e.scope = p /\ e.until > now]_(Gate!vars)
    BY GateOpens
  <1>2. Init => GateInv
    BY GateInit DEF Init
  <1>3. GateInv /\ [Next]_vars => GateInv'
    BY GateNextKeeps, GateSteps
  <1> QED
    BY <1>1, <1>2, <1>3, GateSteps, PTL
       DEF Spec, OpensForThePresentPackage, Gate!OpensForThePresentPackage

-----------------------------------------------------------------------------
(* SandboxRun: what a run leaves                                           *)

\* Where the run stands, and what it has left by then.
RunInv ==
  /\ phase \in {"gates", "prepared", "running", "killed", "returned", "rejected", "raised"}
  /\ alive \subseteq started /\ grouped \subseteq started /\ piped \subseteq alive
  /\ phase \in {"gates", "prepared"} => started = {}
  /\ phase \notin {"gates", "prepared"} /\ started # {} => Run!Leader \in started
  /\ auditRows = IF phase \in {"returned", "rejected"} THEN 1 ELSE 0
  /\ phase # "returned" => result = Run!NoResult
  /\ phase = "killed" \/ result.timedOut => alive \cap grouped = {}
  /\ phase = "returned" =>
       /\ result.timedOut \in BOOLEAN
       /\ result.timedOut => result.code = Run!None
       /\ LET failed == result.timedOut \/ result.code # "ok"
          IN  IF failed /\ Retain THEN workdir ELSE started = {Run!Leader} => ~workdir

LEMMA RunInit == Run!Init => RunInv
  BY DEF Run!Init, RunInv, Run!NoResult

\* What the code under test does.
LEMMA RunCodeKeeps ==
    ASSUME RunInv,
           \/ \E parent \in alive, child \in Children, inherits \in BOOLEAN :
                Run!Spawn(parent, child, inherits)
           \/ \E child \in Children : Run!LeaveGroup(child) \/ Run!Exit(child)
           \/ \E how \in Run!Exits : Run!LeaderExit(how)
    PROVE  RunInv'
  <1>1. UNCHANGED <<phase, workdir, result, auditRows>>
    BY DEF Run!Spawn, Run!LeaveGroup, Run!Exit, Run!LeaderExit, Run!OutOfSight
  <1>2. /\ alive' \subseteq started' /\ grouped' \subseteq started' /\ piped' \subseteq alive'
        /\ started \subseteq started'
        /\ started' # started => started # {}
        /\ started' # {} => started # {}
    BY DEF RunInv, Run!Spawn, Run!LeaveGroup, Run!Exit, Run!LeaderExit, Run!OutOfSight
  <1>3. alive \cap grouped = {} => alive' \cap grouped' = {}
    BY DEF RunInv, Run!Spawn, Run!LeaveGroup, Run!Exit, Run!LeaderExit, Run!OutOfSight
  <1>4. phase \notin {"gates", "prepared"} /\ started' # {} => Run!Leader \in started'
    BY <1>2 DEF RunInv
  <1>5. started' = {Run!Leader} /\ phase = "returned" => started = {Run!Leader}
    BY <1>2 DEF RunInv
  <1>6. phase \in {"gates", "prepared"} => started' = {}
    BY <1>2 DEF RunInv
  <1> QED
    BY <1>1, <1>2, <1>3, <1>4, <1>5, <1>6 DEF RunInv

\* communicate returns.
LEMMA RunCollectKeeps ==
    ASSUME RunInv, NEW removed \in BOOLEAN, Run!Collect(removed) PROVE RunInv'
  <1> DEFINE timedOut == phase = "killed"
  <1>1. /\ phase \in {"running", "killed"} /\ Run!Leader \notin alive /\ phase' = "returned"
        /\ auditRows' = auditRows + 1 /\ UNCHANGED <<started, alive, grouped, piped, exit>>
        /\ workdir' = (Run!Stays(timedOut) \/ ~removed)
        /\ removed \/ (alive # {} /\ ~Run!Stays(timedOut))
        /\ result' = [timedOut |-> timedOut, code |-> IF timedOut THEN Run!None ELSE exit,
                      exhausted |-> IF ~timedOut /\ exit \in {"cpu", "memory"}
                                    THEN exit ELSE Run!None]
    BY DEF Run!Collect, Run!tree
  <1>2. timedOut \in BOOLEAN
    OBVIOUS
  <1> HIDE DEF timedOut
  <1>3. /\ result'.timedOut = timedOut
        /\ result'.code = IF timedOut THEN Run!None ELSE exit
    BY <1>1
  <1>4. auditRows' = 1
    BY <1>1 DEF RunInv
  <1>5. timedOut => alive \cap grouped = {}
    BY <1>1 DEF RunInv, timedOut
  <1>6. started = {Run!Leader} => alive = {}
    BY <1>1 DEF RunInv
  <1>7. Run!None # "ok"
    BY DEF Run!None
  <1>8. LET failed == result'.timedOut \/ result'.code # "ok"
        IN  IF failed /\ Retain THEN workdir' ELSE started = {Run!Leader} => ~workdir'
    BY <1>1, <1>2, <1>3, <1>6, <1>7 DEF Run!Stays
  <1> QED
    BY <1>1, <1>2, <1>3, <1>4, <1>5, <1>8 DEF RunInv

LEMMA RunNextKeeps == RunInv /\ [Run!Next]_(Run!vars) => RunInv'
  <1> SUFFICES ASSUME RunInv, [Run!Next]_(Run!vars) PROVE RunInv'
    OBVIOUS
  <1>1. CASE Run!RejectCode \/ Run!RejectInWorkdir
    BY <1>1 DEF RunInv, Run!RejectCode, Run!RejectInWorkdir, Run!Reject, Run!tree, Run!NoResult
  <1>2. CASE Run!MakeWorkdir \/ Run!Break
    BY <1>2 DEF RunInv, Run!MakeWorkdir, Run!Break, Run!tree, Run!NoResult
  <1>3. CASE Run!Start
    BY <1>3 DEF RunInv, Run!Start, Run!NoResult
  <1>4. CASE Run!Timeout
    BY <1>4 DEF RunInv, Run!Timeout, Run!Killed, Run!NoResult
  <1>5. ASSUME NEW removed \in BOOLEAN, Run!Collect(removed) PROVE RunInv'
    BY <1>5, RunCollectKeeps
  <1>6. CASE UNCHANGED Run!vars
    BY <1>6 DEF RunInv, Run!vars
  <1> QED
    BY <1>1, <1>2, <1>3, <1>4, <1>5, <1>6, RunCodeKeeps DEF Run!Next

\* Whatever the code starts, a run that timed out leaves no process of its group
\* and is no success, the directory is there or gone as it should be, and a run
\* that came back or was refused has its one row: execute_local.
THEOREM RunLeavesNoTrace == Spec => []RunLeavesNothing
  <1>1. RunInv => RunLeavesNothing
    <2> SUFFICES ASSUME RunInv PROVE Run!RunLeavesNothing
      BY DEF RunLeavesNothing
    <2>1. phase # "returned" => ~result.timedOut
      BY DEF RunInv, Run!NoResult
    <2>2. Run!Ended => auditRows = IF phase = "raised" THEN 0 ELSE 1
      BY DEF RunInv, Run!Ended
    <2> QED
      BY <2>1, <2>2 DEF RunInv, Run!RunLeavesNothing, RunLeavesNothing
  <1>2. Init => RunInv
    BY RunInit DEF Init
  <1>3. RunInv /\ [Next]_vars => RunInv'
    BY RunNextKeeps, RunSteps
  <1> QED
    BY <1>1, <1>2, <1>3, PTL DEF Spec

-----------------------------------------------------------------------------
(* McpSession: the protocol's stream                                       *)

McpCalls ==
  [kind : Mcp!Kinds \cup {"none"},
   at : {"unsent", "done", "lost", "working", "quiet", "told", "left"}]

\* No two of the calls redirect the output, while they work or later.
OneWriter == \A i, j \in McpIds : Mcp!Redirects(i) /\ Mcp!Redirects(j) => i = j

Redirecting(i) == call[i].at \in {"quiet", "told"}

\* While the one writer redirects, the stream points away and what the writer
\* will put back is the protocol's; at any other time it is the protocol's.
StreamHeld ==
  /\ ~chatter
  /\ \A i \in McpIds : Redirecting(i) => stdout = "stderr" /\ saved[i] = "pipe"
  /\ (\A i \in McpIds : ~Redirecting(i)) => stdout = "pipe"

McpInv ==
  /\ call \in [McpIds -> McpCalls]
  /\ saved \in [McpIds -> {"pipe", "stderr"}] /\ stdout \in {"pipe", "stderr"}
  /\ \A i \in McpIds : Redirecting(i) => Mcp!Redirects(i)
  /\ OneWriter => StreamHeld

LEMMA McpInit == Mcp!Init => McpInv
  BY DEF Mcp!Init, McpInv, McpCalls, Mcp!NotYet, Redirecting, StreamHeld

\* One call moves on: no call becomes another's writer, so if there is one now
\* there was none before or the same.
LEMMA McpMoves ==
    ASSUME McpInv, NEW i \in McpIds, NEW n \in McpCalls, call' = [call EXCEPT ![i] = n],
           saved' \in [McpIds -> {"pipe", "stderr"}], stdout' \in {"pipe", "stderr"},
           \A j \in McpIds \ {i} : saved'[j] = saved[j],
           n.kind = call[i].kind \/ call[i].kind = "none",
           n.at \in {"quiet", "told"} => n.kind = "writer" /\ MayWrite,
           OneWriter /\ StreamHeld /\ (\A j \in McpIds \ {i} : Mcp!Redirects(i) => ~Redirecting(j)) =>
             /\ ~chatter'
             /\ n.at \in {"quiet", "told"} => stdout' = "stderr" /\ saved'[i] = "pipe"
             /\ n.at \notin {"quiet", "told"} =>
                  IF Redirecting(i) THEN stdout' = "pipe" ELSE stdout' = stdout
             /\ ~(n.kind = "writer" /\ MayWrite) => stdout' = stdout
    PROVE  McpInv'
  <1>1. /\ call' \in [McpIds -> McpCalls] /\ call'[i] = n
        /\ \A j \in McpIds \ {i} : call'[j] = call[j]
    BY DEF McpInv
  <1>2. /\ Mcp!Redirects(i) => Mcp!Redirects(i)'
        /\ \A j \in McpIds \ {i} : Mcp!Redirects(j)' = Mcp!Redirects(j)
        /\ \A j \in McpIds \ {i} : Redirecting(j)' = Redirecting(j)
        /\ Redirecting(i)' = (n.at \in {"quiet", "told"})
        /\ Mcp!Redirects(i)' = (n.kind = "writer" /\ MayWrite)
    BY <1>1 DEF Mcp!Redirects, Redirecting
  <1>3. \A j \in McpIds : Redirecting(j)' => Mcp!Redirects(j)'
    BY <1>1, <1>2 DEF McpInv
  <1>4. ASSUME OneWriter' PROVE StreamHeld'
    <2>1. OneWriter
      BY <1>2, <1>4 DEF OneWriter
    <2>2. StreamHeld
      BY <2>1 DEF McpInv
    <2>3. \A j \in McpIds \ {i} : Mcp!Redirects(i) => ~Redirecting(j)
      BY <2>1 DEF OneWriter, McpInv
    <2>4. Mcp!Redirects(i)' => \A j \in McpIds \ {i} : ~Redirecting(j)
      BY <1>2, <1>4 DEF OneWriter, McpInv
    <2>5. ~chatter'
      BY <2>1, <2>2, <2>3
    <2>6. CASE n.kind = "writer" /\ MayWrite
      BY <1>2, <2>1, <2>2, <2>3, <2>4, <2>5, <2>6 DEF StreamHeld
    <2>7. CASE ~(n.kind = "writer" /\ MayWrite)
      <3>1. ~Redirecting(i) /\ ~Redirecting(i)' /\ stdout' = stdout
        BY <1>2, <2>1, <2>2, <2>3, <2>7 DEF McpInv
      <3> QED
        BY <1>2, <2>2, <2>5, <3>1 DEF StreamHeld
    <2> QED
      BY <2>6, <2>7
  <1> QED
    BY <1>1, <1>3, <1>4 DEF McpInv

\* A step that moves no call and leaves the stream alone.
LEMMA McpQuiet ==
    ASSUME McpInv, UNCHANGED <<call, saved, stdout, chatter>> PROVE McpInv'
  <1>1. \A i \in McpIds : Redirecting(i)' = Redirecting(i) /\ Mcp!Redirects(i)' = Mcp!Redirects(i)
    BY DEF Redirecting, Mcp!Redirects
  <1>2. OneWriter' = OneWriter
    BY <1>1 DEF OneWriter
  <1>3. StreamHeld' = StreamHeld
    BY <1>1 DEF StreamHeld
  <1> QED
    BY <1>1, <1>2, <1>3 DEF McpInv

\* A call that nobody has sent before is sent.
LEMMA McpSent ==
    ASSUME McpInv, NEW i \in McpIds, NEW kind \in Mcp!Kinds,
           NEW at \in {"done", "lost", "working"}, call[i] = Mcp!NotYet,
           call' = [call EXCEPT ![i] = [kind |-> kind, at |-> at]],
           UNCHANGED <<stdout, saved, chatter>>
    PROVE  McpInv'
  <1> DEFINE n == [kind |-> kind, at |-> at]
  <1>1. n \in McpCalls /\ n.kind = kind /\ n.at \notin {"quiet", "told"}
    BY DEF McpCalls
  <1>2. call[i].kind = "none" /\ ~Redirecting(i)
    BY DEF Mcp!NotYet, Redirecting
  <1>3. saved' \in [McpIds -> {"pipe", "stderr"}] /\ stdout' \in {"pipe", "stderr"}
    BY DEF McpInv
  <1>4. call' = [call EXCEPT ![i] = n]
    OBVIOUS
  <1> HIDE DEF n
  <1> QED
    BY <1>1, <1>2, <1>3, <1>4, McpMoves DEF StreamHeld

\* A call that was sent gets further.
LEMMA McpFurther ==
    ASSUME McpInv, NEW i \in McpIds, NEW at \in {"done", "quiet", "told", "left"},
           call' = [call EXCEPT ![i].at = at],
           saved' \in [McpIds -> {"pipe", "stderr"}], stdout' \in {"pipe", "stderr"},
           \A j \in McpIds \ {i} : saved'[j] = saved[j],
           at \in {"quiet", "told"} => Mcp!Redirects(i),
           OneWriter /\ StreamHeld /\ (\A j \in McpIds \ {i} : Mcp!Redirects(i) => ~Redirecting(j)) =>
             /\ ~chatter'
             /\ at \in {"quiet", "told"} => stdout' = "stderr" /\ saved'[i] = "pipe"
             /\ at \notin {"quiet", "told"} =>
                  IF Redirecting(i) THEN stdout' = "pipe" ELSE stdout' = stdout
             /\ ~Mcp!Redirects(i) => stdout' = stdout
    PROVE  McpInv'
  <1> DEFINE n == [call[i] EXCEPT !.at = at]
  <1>1. call[i] \in McpCalls
    BY DEF McpInv
  <1>2. n \in McpCalls /\ n.kind = call[i].kind /\ n.at = at
    BY <1>1 DEF McpCalls
  <1>3. call' = [call EXCEPT ![i] = n]
    BY DEF McpInv
  <1>4. Mcp!Redirects(i) = (n.kind = "writer" /\ MayWrite)
    BY <1>2 DEF Mcp!Redirects
  <1> HIDE DEF n
  <1> QED
    BY <1>2, <1>3, <1>4, McpMoves

LEMMA McpNextKeeps == McpInv /\ [Mcp!Next]_(Mcp!vars) => McpInv'
  <1> SUFFICES ASSUME McpInv, [Mcp!Next]_(Mcp!vars) PROVE McpInv'
    OBVIOUS
  <1>t. saved \in [McpIds -> {"pipe", "stderr"}] /\ stdout \in {"pipe", "stderr"}
    BY DEF McpInv
  <1>1. CASE Mcp!Garbage \/ Mcp!Close \/ Mcp!End
    BY <1>1, McpQuiet DEF Mcp!Garbage, Mcp!Close, Mcp!End
  <1>2. ASSUME NEW i \in McpIds, Mcp!Direct(i) PROVE McpInv'
    BY <1>2, McpSent DEF Mcp!Direct, Mcp!Kinds
  <1>3. ASSUME NEW i \in McpIds, NEW tool \in BOOLEAN, Mcp!ParamsOfNoObject(i, tool) PROVE McpInv'
    <2>1. (IF tool THEN "tool" ELSE "direct") \in Mcp!Kinds
      BY DEF Mcp!Kinds
    <2> QED
      BY <1>3, <2>1, McpSent DEF Mcp!ParamsOfNoObject
  <1>4. ASSUME NEW i \in McpIds, NEW kind \in {"tool", "writer", "unknown"}, Mcp!ToolCall(i, kind)
        PROVE  McpInv'
    BY <1>4, McpSent DEF Mcp!ToolCall, Mcp!Kinds
  <1>5. ASSUME NEW i \in McpIds, Mcp!Redirect(i) PROVE McpInv'
    <2>1. /\ call[i].at = "working" /\ Mcp!Redirects(i) /\ saved' = [saved EXCEPT ![i] = stdout]
          /\ stdout' = "stderr" /\ call' = [call EXCEPT ![i].at = "quiet"] /\ chatter' = chatter
      BY <1>5 DEF Mcp!Redirect
    <2>2. ~Redirecting(i)
      BY <2>1 DEF Redirecting
    <2>3. StreamHeld /\ (\A j \in McpIds \ {i} : Mcp!Redirects(i) => ~Redirecting(j)) =>
            stdout = "pipe"
      BY <2>1, <2>2 DEF StreamHeld
    <2>4. /\ saved' \in [McpIds -> {"pipe", "stderr"}]
          /\ saved'[i] = stdout /\ \A j \in McpIds \ {i} : saved'[j] = saved[j]
      BY <1>t, <2>1
    <2> QED
      BY <2>1, <2>2, <2>3, <2>4, McpFurther DEF StreamHeld
  <1>6. ASSUME NEW i \in McpIds, Mcp!Progress(i) PROVE McpInv'
    <2>1. /\ Redirecting(i) /\ chatter' = (chatter \/ stdout = "pipe")
          /\ call' = [call EXCEPT ![i].at = "told"] /\ UNCHANGED <<stdout, saved>>
      BY <1>6 DEF Mcp!Progress, Redirecting
    <2>2. Mcp!Redirects(i)
      BY <2>1 DEF McpInv
    <2> QED
      BY <1>t, <2>1, <2>2, McpFurther DEF StreamHeld
  <1>7. ASSUME NEW i \in McpIds, Mcp!PutBack(i) PROVE McpInv'
    <2>1. /\ Redirecting(i) /\ stdout' = saved[i] /\ UNCHANGED <<saved, chatter>>
          /\ call' = [call EXCEPT ![i].at = "left"]
      BY <1>7 DEF Mcp!PutBack, Redirecting
    <2>2. Mcp!Redirects(i)
      BY <2>1 DEF McpInv
    <2> QED
      BY <1>t, <2>1, <2>2, McpFurther DEF StreamHeld
  <1>8. ASSUME NEW i \in McpIds, Mcp!Answer(i) PROVE McpInv'
    <2>1. /\ ~Redirecting(i) /\ UNCHANGED <<stdout, saved, chatter>>
          /\ call' = [call EXCEPT ![i].at = "done"]
      BY <1>8 DEF Mcp!Answer, Redirecting
    <2> QED
      BY <1>t, <2>1, McpFurther DEF StreamHeld
  <1>9. CASE UNCHANGED Mcp!vars
    BY <1>9, McpQuiet DEF Mcp!vars
  <1> QED
    BY <1>1, <1>2, <1>3, <1>4, <1>5, <1>6, <1>7, <1>8, <1>9 DEF Mcp!Next

\* Fewer than two calls are no two calls.
LEMMA McpCount ==
    ASSUME Cardinality({i \in McpIds : Mcp!Redirects(i)}) < 2 PROVE OneWriter
  <1> DEFINE S == {i \in McpIds : Mcp!Redirects(i)}
  <1>1. IsFiniteSet(S)
    BY FS_Subset, McpAssumption
  <1> SUFFICES ASSUME NEW i \in S, NEW j \in S, i # j PROVE FALSE
    BY DEF OneWriter
  <1>2. {i, j} \subseteq S /\ Cardinality({i, j}) = 2
    <2>1. IsFiniteSet({i}) /\ Cardinality({i}) = 1
      BY FS_Singleton
    <2>2. Cardinality({i} \cup {j}) = 2
      BY <2>1, FS_AddElement
    <2>3. {i, j} = {i} \cup {j}
      OBVIOUS
    <2> QED
      BY <2>2, <2>3
  <1>3. Cardinality({i, j}) <= Cardinality(S) /\ Cardinality(S) \in Nat
    BY <1>1, <1>2, FS_Subset, FS_CardinalityType
  <1> QED
    BY <1>2, <1>3

\* While at most one writing tool was called, none of its progress reaches the
\* protocol, and the stream is back in its place when it is over: the redirection
\* of mcp_server.py.
THEOREM McpOneWriterIsQuiet == Spec => []OneWriterStaysQuiet
  <1>1. McpInv => OneWriterStaysQuiet
    <2> SUFFICES ASSUME McpInv, Cardinality({i \in McpIds : Mcp!Redirects(i)}) < 2
                 PROVE  /\ ~chatter
                        /\ (\A i \in McpIds : call[i].at \notin {"quiet", "told"}) =>
                             stdout = "pipe"
      BY DEF OneWriterStaysQuiet, Mcp!OneWriterStaysQuiet, Mcp!Cardinality, Cardinality
    <2>1. StreamHeld
      BY McpCount DEF McpInv
    <2> QED
      BY <2>1 DEF StreamHeld, Redirecting
  <1>2. Init => McpInv
    BY McpInit DEF Init
  <1>3. McpInv /\ [Next]_vars => McpInv'
    BY McpNextKeeps, McpSteps
  <1> QED
    BY <1>1, <1>2, <1>3, PTL DEF Spec

-----------------------------------------------------------------------------
(* Proxy: the answers on a kept connection                                 *)

Doings ==
  [what : {"answers", "routes", "blocks", "crashes"}, status : Nat, left : Nat,
   closes : BOOLEAN]
Heads == [to : Nat, status : Nat, whole : BOOLEAN]

\* What answers, refuses and fails has the form it has.
LEMMA DoingsType ==
    /\ Proxy!Route \in Doings /\ Proxy!Block \in Doings /\ Proxy!Crash \in Doings
    /\ \A code, over \in Nat : Proxy!Answer(code, over) \in Doings
                                 /\ Proxy!LastAnswer(code, over) \in Doings
  BY DEF Doings, Proxy!Does, Proxy!Answer, Proxy!LastAnswer, Proxy!Route, Proxy!Block,
         Proxy!Crash

\* Whatever do_GET and do_POST do with a request has the form of a doing.
LEMMA HandlingType ==
    ASSUME NEW r \in Proxy!Requests, NEW does \in Proxy!Handling(r)
    PROVE  does \in Doings
  <1>1. r.body \in Nat /\ (r.body > 2 => r.body - 2 \in Nat)
    BY DEF Proxy!Requests, Proxy!Big, Proxy!BodyCap
  <1>2. \A over \in Nat :
          /\ Proxy!LastAnswer(401, over) \in Doings /\ Proxy!LastAnswer(413, over) \in Doings
          /\ \A code \in {200, 400, 401, 404, 411, 413} : Proxy!Answer(code, over) \in Doings
    BY DoingsType
  <1>4. Proxy!Unknown(r) \in Doings
    BY <1>1, <1>2, DoingsType DEF Proxy!Unknown, Proxy!BodyCap, Proxy!Requests
  <1>5. Proxy!Reset(r) \in Doings
    BY <1>1, <1>2 DEF Proxy!Reset, Proxy!Refused
  <1>6. Proxy!Forward(r) \in Doings
    BY <1>2, DoingsType DEF Proxy!Forward
  <1>7. Proxy!ForwardConverted(r) \in Doings /\ Proxy!CountTokens(r) \in Doings
    BY <1>2, <1>6 DEF Proxy!ForwardConverted, Proxy!CountTokens
  <1>8. Proxy!Infer(r) \in Doings
    BY <1>1, <1>2, <1>6, <1>7, DoingsType DEF Proxy!Infer, Proxy!Refused
  <1>9. \A d \in Proxy!Get(r) : d \in Doings
    BY <1>1, <1>2 DEF Proxy!Get
  <1> QED
    BY <1>4, <1>5, <1>8, <1>9 DEF Proxy!Handling

\* A doing that leaves part of a body on a kept connection does so to a
\* request that Leaves one, with an answer, and a crash ends the connection.
Owned(r, does) ==
  /\ does \in Doings
  /\ does.what \in {"routes", "blocks"} => does.left = 0
  /\ does.what = "crashes" => does.closes
  /\ does.left > 0 => does.closes \/ Proxy!Leaves(r)

LEMMA OwnedDoings ==
    ASSUME NEW r
    PROVE  /\ Owned(r, Proxy!Route) /\ Owned(r, Proxy!Block) /\ Owned(r, Proxy!Crash)
           /\ \A code \in Nat : Owned(r, Proxy!Answer(code, 0))
           /\ \A code, over \in Nat : Owned(r, Proxy!LastAnswer(code, over))
           /\ Proxy!Leaves(r) => \A code, over \in Nat : Owned(r, Proxy!Answer(code, over))
  <1>1. Owned(r, Proxy!Route) /\ Owned(r, Proxy!Block) /\ Owned(r, Proxy!Crash)
    BY DoingsType DEF Owned, Proxy!Does, Proxy!Route, Proxy!Block, Proxy!Crash
  <1>2. ASSUME NEW code \in Nat, NEW over \in Nat
        PROVE  /\ Owned(r, Proxy!Answer(code, 0)) /\ Owned(r, Proxy!LastAnswer(code, over))
               /\ Proxy!Leaves(r) => Owned(r, Proxy!Answer(code, over))
    <2>1. /\ Proxy!Answer(code, over) \in Doings /\ Proxy!LastAnswer(code, over) \in Doings
          /\ Proxy!Answer(code, 0) \in Doings
      BY DoingsType
    <2> QED
      BY <2>1 DEF Owned, Proxy!Does, Proxy!Answer, Proxy!LastAnswer
  <1> QED
    BY <1>1, <1>2

\* Whatever do_GET and do_POST do with a request, they leave nothing of a body
\* on a kept connection but where Leaves says so.
LEMMA HandlingOwns ==
    ASSUME NEW r \in Proxy!Requests, NEW does \in Proxy!Handling(r)
    PROVE  Owned(r, does)
  <1>1. /\ r.body \in Nat /\ (r.body > Proxy!BodyCap => r.body - Proxy!BodyCap \in Nat)
        /\ r.path \in Proxy!Inference \cup Proxy!Gets \cup {"reset", "unknown"}
        /\ r.length \in {"given", "missing", "garbled", "negative"}
    BY DEF Proxy!Requests, Proxy!Big, Proxy!BodyCap
  <1>2. \A code \in {200, 400, 401, 404, 411, 413} :
          /\ Owned(r, Proxy!Answer(code, 0))
          /\ \A over \in Nat : Owned(r, Proxy!LastAnswer(code, over))
    BY OwnedDoings
  <1>3. Owned(r, Proxy!Route) /\ Owned(r, Proxy!Block) /\ Owned(r, Proxy!Crash)
    BY OwnedDoings
  <1>4. ASSUME NEW over \in Nat, over > 0 => Proxy!Leaves(r)
        PROVE  \A code \in {200, 400, 401, 404, 411, 413} : Owned(r, Proxy!Answer(code, over))
    BY <1>2, <1>4, OwnedDoings
  <1>5. ASSUME r.path = "unknown" PROVE Owned(r, Proxy!Unknown(r))
    <2>1. r.length = "missing" /\ r.body > 0 => Proxy!Leaves(r)
      BY DEF Proxy!Leaves
    <2>2. r.body > Proxy!BodyCap => Proxy!Leaves(r)
      BY <1>1, <1>5 DEF Proxy!Leaves, Proxy!BodyCap
    <2>3. r.length = "missing" => Owned(r, Proxy!Answer(404, r.body))
      BY <1>1, <1>4, <2>1
    <2>4. r.body > Proxy!BodyCap => Owned(r, Proxy!Answer(404, r.body - Proxy!BodyCap))
      BY <1>1, <1>4, <2>2
    <2>5. Owned(r, Proxy!Answer(404, 0))
      BY <1>2
    <2> QED
      BY <1>1, <1>3, <2>3, <2>4, <2>5 DEF Proxy!Unknown
  <1>6. r.path # "unknown" /\ r.length \in {"missing", "garbled"} => Owned(r, Proxy!Answer(411, r.body))
    <2>1. r.path # "unknown" /\ r.length \in {"missing", "garbled"} /\ r.body > 0 => Proxy!Leaves(r)
      BY DEF Proxy!Leaves
    <2> QED
      BY <1>1, <1>4, <2>1
  <1>7. ASSUME r.path = "reset" PROVE Owned(r, Proxy!Reset(r))
    <2>1. (r.length = "negative" \/ r.body > Proxy!ResetCap) /\ r.body > 0 => Proxy!Leaves(r)
      BY <1>7 DEF Proxy!Leaves
    <2>2. r.length = "negative" \/ r.body > Proxy!ResetCap => Owned(r, Proxy!Answer(413, r.body))
      BY <1>1, <1>4, <2>1
    <2> QED
      BY <1>1, <1>2, <1>6, <1>7, <2>2 DEF Proxy!Reset, Proxy!Refused
  <1>8. Owned(r, Proxy!Forward(r))
    BY <1>2, <1>3 DEF Proxy!Forward
  <1>9. Owned(r, Proxy!ForwardConverted(r)) /\ Owned(r, Proxy!CountTokens(r))
    BY <1>2, <1>8 DEF Proxy!ForwardConverted, Proxy!CountTokens
  <1>10. ASSUME r.path \in Proxy!Inference PROVE Owned(r, Proxy!Infer(r))
    <2>1. r.path # "unknown"
      BY <1>10 DEF Proxy!Inference, Proxy!Anthropic
    <2> QED
      BY <1>1, <1>2, <1>3, <1>6, <1>8, <1>9, <2>1 DEF Proxy!Infer, Proxy!Refused
  <1>11. ASSUME r.path \in Proxy!Gets PROVE \A d \in Proxy!Get(r) : Owned(r, d)
    <2>1. r.body > 0 => Proxy!Leaves(r)
      BY <1>11 DEF Proxy!Leaves
    <2>2. \A code \in {200, 400, 401, 404, 411, 413} : Owned(r, Proxy!Answer(code, r.body))
      BY <1>1, <1>4, <2>1
    <2> QED
      BY <2>2 DEF Proxy!Get
  <1> QED
    BY <1>1, <1>5, <1>7, <1>10, <1>11 DEF Proxy!Handling

\* How far the answers are behind the requests, as long as none went to
\* leftovers ...
InTurn ==
  /\ \A k \in 1..Len(heads) : heads[k].to = k
  /\ Len(heads) \in {Len(asked) - 1, Len(asked)}
  /\ kept /\ unread > 0 => stage = "waiting" /\ Proxy!Leaves(asked[Len(asked)])
  /\ stage = "waiting" /\ kept => Len(heads) = Len(asked)
  /\ stage \in {"routing", "buffered", "headers"} => Len(heads) = Len(asked) - 1
  /\ stage = "relaying" => Len(heads) = Len(asked)

\* ... and once one did, which ended the connection.
Strayed ==
  /\ stage = "waiting" /\ ~kept
  /\ Len(heads) = Len(asked) + 1
  /\ \A k \in 1..Len(asked) : heads[k].to = k
  /\ heads[Len(asked) + 1].to = 0
  /\ Proxy!Leaves(asked[Len(asked)])

ProxyInv ==
  /\ asked \in Seq(Proxy!Requests) /\ heads \in Seq(Heads)
  /\ unread \in Nat /\ kept \in BOOLEAN
  /\ stage \in {"waiting", "routing", "buffered", "headers", "relaying", "blocked"}
  /\ stage = "relaying" => heads # <<>>
  /\ opened \subseteq {Len(asked)}
  /\ stage \in {"waiting", "routing", "blocked"} => opened = {}
  /\ InTurn \/ Strayed

LEMMA ProxyInit == Proxy!Init => ProxyInv
  <1> SUFFICES ASSUME Proxy!Init PROVE ProxyInv
    OBVIOUS
  <1>1. /\ asked \in Seq(Proxy!Requests) /\ heads \in Seq(Heads)
        /\ Len(asked) = 0 /\ Len(heads) = 0
    BY EmptySeq DEF Proxy!Init
  <1>2. InTurn
    BY <1>1 DEF Proxy!Init, InTurn
  <1> QED
    BY <1>1, <1>2 DEF Proxy!Init, ProxyInv

\* A request is read from a kept connection that waits without leftovers.
LEMMA ProxyAskKeeps ==
    ASSUME ProxyInv, Proxy!Ask PROVE ProxyInv'
  <1>1. PICK r \in Proxy!Requests : \E does \in Proxy!Handling(r) :
          /\ asked' = Append(asked, r)
          /\ unread' = does.left /\ kept' = ~does.closes
          /\ heads' = IF does.what = "answers"
                      THEN Append(heads, Proxy!Told(Len(asked) + 1, does.status, TRUE)) ELSE heads
          /\ stage' = CASE does.what = "routes" -> "routing"
                        [] does.what = "blocks" -> "blocked"
                        [] OTHER -> "waiting"
    BY ProxyAssumption DEF Proxy!Ask, Proxy!This
  <1>2. PICK does \in Proxy!Handling(r) :
          /\ asked' = Append(asked, r)
          /\ unread' = does.left /\ kept' = ~does.closes
          /\ heads' = IF does.what = "answers"
                      THEN Append(heads, Proxy!Told(Len(asked) + 1, does.status, TRUE)) ELSE heads
          /\ stage' = CASE does.what = "routes" -> "routing"
                        [] does.what = "blocks" -> "blocked"
                        [] OTHER -> "waiting"
    BY <1>1
  <1>3. does \in Doings
    BY HandlingType
  <1>4. /\ does.what \in {"answers", "routes", "blocks", "crashes"} /\ does.status \in Nat
        /\ does.left \in Nat /\ does.closes \in BOOLEAN
    BY <1>3 DEF Doings
  <1>5. /\ stage = "waiting" /\ kept /\ unread = 0 /\ opened' = opened /\ opened = {}
        /\ asked \in Seq(Proxy!Requests) /\ heads \in Seq(Heads)
    BY DEF Proxy!Ask, ProxyInv
  <1> DEFINE n == Len(asked) + 1
             e == Proxy!Told(n, does.status, TRUE)
  <1>6. Len(asked) \in Nat /\ Len(heads) \in Nat /\ n \in Nat
    BY <1>5, LenProperties
  <1>7. e \in Heads /\ e.to = n
    BY <1>4, <1>6 DEF Heads, Proxy!Told
  <1>8. /\ asked' \in Seq(Proxy!Requests) /\ Len(asked') = n /\ asked'[n] = r
        /\ \A k \in 1..Len(asked) : asked'[k] = asked[k]
    BY <1>2, <1>5, AppendProperties
  <1>9. heads' = IF does.what = "answers" THEN Append(heads, e) ELSE heads
    BY <1>2
  <1> HIDE DEF e
  <1>10. heads' \in Seq(Heads)
    BY <1>5, <1>7, <1>9, AppendProperties
  <1>11. InTurn'
    <2>1. InTurn /\ Len(heads) = Len(asked)
      BY <1>5 DEF ProxyInv, InTurn, Strayed
    <2>2. Owned(r, does)
      BY HandlingOwns
    <2>3. kept' /\ unread' > 0 => stage' = "waiting" /\ Proxy!Leaves(asked'[Len(asked')])
      <3>1. kept' /\ unread' > 0 => ~does.closes /\ does.left > 0
        BY <1>2, <1>4
      <3>2. kept' /\ unread' > 0 => does.what = "answers" /\ Proxy!Leaves(r)
        BY <1>4, <2>2, <3>1 DEF Owned
      <3> QED
        BY <1>2, <1>8, <3>2
    <2>4. CASE does.what = "answers"
      <3>1. /\ Len(heads') = n /\ heads'[n] = e
            /\ \A k \in 1..Len(heads) : heads'[k] = heads[k]
        BY <1>5, <1>7, <1>9, <2>1, <2>4, AppendProperties
      <3>2. \A k \in 1..Len(heads') : heads'[k].to = k
        BY <1>6, <1>7, <2>1, <3>1 DEF InTurn
      <3>3. stage' = "waiting"
        BY <1>2, <2>4
      <3> QED
        BY <1>6, <1>8, <2>3, <3>1, <3>2, <3>3 DEF InTurn
    <2>5. CASE does.what \in {"routes", "blocks", "crashes"}
      <3>1. heads' = heads /\ stage' \in {"waiting", "routing", "blocked"}
            /\ (stage' = "waiting" => does.what = "crashes")
        BY <1>2, <2>5
      <3>2. /\ \A k \in 1..Len(heads') : heads'[k].to = k
            /\ Len(heads') = Len(asked') - 1
        BY <1>6, <1>8, <2>1, <3>1 DEF InTurn
      <3>3. stage' = "waiting" => ~kept'
        BY <1>2, <1>4, <2>2, <3>1 DEF Owned
      <3>4. Len(heads') \in {Len(asked') - 1, Len(asked')} /\ stage' # "relaying"
        BY <3>1, <3>2
      <3> QED
        BY ONLY <2>3, <3>2, <3>3, <3>4 DEF InTurn
    <2> QED
      BY <1>4, <2>4, <2>5
  <1>12. stage' \in {"waiting", "routing", "blocked"}
    BY <1>2, <1>4
  <1> QED
    BY <1>2, <1>4, <1>5, <1>8, <1>10, <1>11, <1>12 DEF ProxyInv

\* The answer to the last request begins.
LEMMA ProxyAnswers ==
    ASSUME ProxyInv, stage \in {"routing", "buffered", "headers"},
           NEW code \in Nat, NEW whole \in BOOLEAN,
           heads' = Append(heads, Proxy!Told(Len(asked), code, whole)),
           stage' \in {"waiting", "relaying"},
           UNCHANGED <<asked, unread, kept>>,
           opened' \subseteq {Len(asked)}, stage' = "waiting" => opened' = {}
    PROVE  ProxyInv'
  <1> DEFINE e == Proxy!Told(Len(asked), code, whole)
             n == Len(heads) + 1
  <1>1. /\ asked \in Seq(Proxy!Requests) /\ heads \in Seq(Heads)
        /\ Len(asked) \in Nat /\ Len(heads) \in Nat
    BY LenProperties DEF ProxyInv
  <1>2. e \in Heads /\ e.to = Len(asked)
    BY <1>1 DEF Heads, Proxy!Told
  <1>3. heads' = Append(heads, e)
    OBVIOUS
  <1> HIDE DEF e
  <1>4. /\ heads' \in Seq(Heads) /\ Len(heads') = n /\ heads'[n] = e /\ heads' # <<>>
        /\ \A k \in 1..Len(heads) : heads'[k] = heads[k]
    BY <1>1, <1>2, <1>3, AppendProperties
  <1>5. InTurn'
    <2>1. InTurn /\ n = Len(asked)
      BY <1>1 DEF ProxyInv, InTurn, Strayed
    <2>2. \A k \in 1..Len(heads') : heads'[k].to = k
      BY <1>1, <1>2, <1>4, <2>1 DEF InTurn
    <2>3. Len(heads') = Len(asked')
      BY <1>4, <2>1
    <2>4. /\ ~(kept' /\ unread' > 0)
          /\ stage' \notin {"routing", "buffered", "headers"}
      BY <2>1 DEF InTurn
    <2> QED
      BY ONLY <2>2, <2>3, <2>4 DEF InTurn
  <1> QED
    BY <1>1, <1>4, <1>5 DEF ProxyInv

\* Leftovers are answered, or not, and the connection ends.
LEMMA ProxyStrayKeeps == ASSUME ProxyInv, Proxy!Stray PROVE ProxyInv'
  <1>1. /\ stage = "waiting" /\ kept /\ unread > 0 /\ unread' = 0 /\ kept' = FALSE
        /\ UNCHANGED <<asked, stage, opened>>
    BY DEF Proxy!Stray
  <1>2. /\ InTurn /\ Len(heads) = Len(asked) /\ Proxy!Leaves(asked[Len(asked)])
        /\ asked \in Seq(Proxy!Requests) /\ heads \in Seq(Heads)
    BY <1>1 DEF ProxyInv, InTurn, Strayed
  <1>3. CASE heads' = heads
    <2>1. InTurn'
      BY <1>1, <1>2, <1>3 DEF InTurn
    <2> QED
      BY <1>1, <1>2, <1>3, <2>1 DEF ProxyInv
  <1>4. CASE \E c \in {400, 414, 501} : heads' = Append(heads, Proxy!Told(0, c, TRUE))
    <2>1. PICK code \in {400, 414, 501} : heads' = Append(heads, Proxy!Told(0, code, TRUE))
      BY <1>4
    <2> DEFINE e == Proxy!Told(0, code, TRUE)
    <2>2. e \in Heads /\ e.to = 0 /\ heads' = Append(heads, e)
      BY <2>1 DEF Heads, Proxy!Told
    <2> HIDE DEF e
    <2>3. Len(asked) \in Nat /\ Len(heads) \in Nat
      BY <1>2, LenProperties
    <2>4. /\ heads' \in Seq(Heads) /\ Len(heads') = Len(heads) + 1 /\ heads'[Len(heads) + 1] = e
          /\ \A k \in 1..Len(heads) : heads'[k] = heads[k]
      BY <1>2, <2>2, AppendProperties
    <2>5. Strayed'
      BY <1>1, <1>2, <2>2, <2>3, <2>4 DEF Strayed, InTurn
    <2> QED
      BY <1>1, <1>2, <2>4, <2>5 DEF ProxyInv
  <1> QED
    BY <1>3, <1>4 DEF Proxy!Stray

\* The stream's last line: the answer is whole now.
LEMMA ProxyEndKeeps == ASSUME ProxyInv, Proxy!StreamEnds \/ Proxy!StreamBreaks PROVE ProxyInv'
  <1>1. /\ stage = "relaying" /\ stage' = "waiting" /\ opened' = opened \ {Len(asked)}
        /\ UNCHANGED <<asked, unread, kept>>
    BY DEF Proxy!StreamEnds, Proxy!StreamBreaks, Proxy!This
  <1>2. heads \in Seq(Heads) /\ Len(heads) \in Nat /\ Len(heads) \in 1..Len(heads)
    BY <1>1, LenProperties, EmptySeq DEF ProxyInv
  <1>3. /\ heads' \in Seq(Heads) /\ Len(heads') = Len(heads)
        /\ \A k \in 1..Len(heads) : heads'[k].to = heads[k].to
    <2>1. CASE heads' = [heads EXCEPT ![Len(heads)].whole = TRUE]
      <3> DEFINE m == Len(heads)
                 e == [heads[m] EXCEPT !.whole = TRUE]
      <3>1. heads[m] \in Heads
        BY <1>2, ElementOfSeq
      <3>2. e \in Heads /\ e.to = heads[m].to
        BY <3>1 DEF Heads
      <3>3. heads' = [heads EXCEPT ![m] = e]
        BY <2>1
      <3> HIDE DEF e
      <3>4. /\ heads' \in Seq(Heads) /\ Len(heads') = m
            /\ \A k \in 1..m : heads'[k] = IF k = m THEN e ELSE heads[k]
        BY <1>2, <3>2, <3>3, ExceptSeq
      <3> QED
        BY <3>2, <3>4
    <2>2. CASE heads' = heads
      BY <1>2, <2>2
    <2> QED
      BY <2>1, <2>2 DEF Proxy!StreamEnds, Proxy!StreamBreaks
  <1>4. InTurn'
    BY <1>1, <1>3 DEF ProxyInv, InTurn, Strayed
  <1>5. opened' = {}
    BY <1>1 DEF ProxyInv
  <1> QED
    BY <1>1, <1>3, <1>4, <1>5 DEF ProxyInv

LEMMA ProxyNextKeeps ==
    ProxyInv /\ [Proxy!Next]_(Proxy!vars) => ProxyInv'
  <1> SUFFICES ASSUME ProxyInv, [Proxy!Next]_(Proxy!vars) PROVE ProxyInv'
    OBVIOUS
  <1>1. CASE Proxy!Ask
    BY <1>1, ProxyAskKeeps
  <1>2. CASE Proxy!Stray
    BY <1>2, ProxyStrayKeeps
  <1>3. CASE Proxy!RouteFails
    <2>1. PICK code \in Nat : heads' = Append(heads, Proxy!Told(Len(asked), code, TRUE))
      <3>1. PICK says \in {403, 429, 503}, reached \in BOOLEAN :
              LET code == IF /\ says = 403 /\ ~reached
                             /\ asked[Proxy!This].path \in Proxy!Anthropic THEN 404 ELSE says
              IN  heads' = Append(heads, Proxy!Told(Proxy!This, code, TRUE))
        BY <1>3 DEF Proxy!RouteFails
      <3> DEFINE code == IF /\ says = 403 /\ ~reached
                            /\ asked[Len(asked)].path \in Proxy!Anthropic THEN 404 ELSE says
      <3>2. code \in Nat
        OBVIOUS
      <3>3. heads' = Append(heads, Proxy!Told(Len(asked), code, TRUE))
        BY <3>1 DEF Proxy!This
      <3> HIDE DEF code
      <3> QED
        BY ZenonT(60), <3>2, <3>3
    <2>2. /\ stage = "routing" /\ stage' = "waiting" /\ opened' = {}
          /\ UNCHANGED <<asked, unread, kept>>
      BY <1>3 DEF Proxy!RouteFails, ProxyInv
    <2> QED
      BY <2>1, <2>2, ProxyAnswers
  <1>4. CASE Proxy!RouteOpens
    BY <1>4 DEF Proxy!RouteOpens, Proxy!This, ProxyInv, InTurn, Strayed
  <1>5. CASE Proxy!Buffered
    <2>1. PICK code \in {200, 502} : heads' = Append(heads, Proxy!Told(Len(asked), code, TRUE))
      BY <1>5 DEF Proxy!Buffered, Proxy!This
    <2>2. /\ stage = "buffered" /\ stage' = "waiting" /\ opened' = {}
          /\ UNCHANGED <<asked, unread, kept>>
      BY <1>5 DEF Proxy!Buffered, Proxy!This, ProxyInv
    <2>3. code \in Nat
      OBVIOUS
    <2> QED
      BY <2>1, <2>2, <2>3, ProxyAnswers
  <1>6. CASE Proxy!Headers
    BY ZenonT(60), <1>6, ProxyAnswers DEF Proxy!Headers, Proxy!This, ProxyInv
  <1>7. CASE Proxy!StreamEnds \/ Proxy!StreamBreaks
    BY <1>7, ProxyEndKeeps
  <1>8. CASE Proxy!Leave
    BY <1>8 DEF Proxy!Leave, ProxyInv, InTurn, Strayed
  <1>9. CASE UNCHANGED Proxy!vars
    BY <1>9 DEF Proxy!vars, ProxyInv, InTurn, Strayed
  <1> QED
    BY <1>1, <1>2, <1>3, <1>4, <1>5, <1>6, <1>7, <1>8, <1>9 DEF Proxy!Next

\* Each request of a kept connection is answered at most once and in its turn; an
\* answer to leftovers follows only a request that Leaves a body and ends the
\* connection; none waits for the next over an open upstream response: do_GET,
\* do_POST and what they leave unread.
THEOREM ProxyAnswersInTurn == Spec => []AnswersInTurn
  <1>1. ProxyInv => AnswersInTurn
    <2> SUFFICES ASSUME ProxyInv PROVE Proxy!AnswersInTurn
      BY DEF AnswersInTurn
    <2>1. Len(asked) \in Nat /\ Len(heads) \in Nat /\ (heads = <<>> <=> Len(heads) = 0)
      BY LenProperties, EmptySeq DEF ProxyInv
    <2>2. CASE InTurn
      <3>1. Proxy!Answered = Len(heads)
        BY <2>1, <2>2 DEF InTurn, Proxy!Answered
      <3> QED
        BY <2>1, <2>2, <3>1 DEF InTurn, ProxyInv, Proxy!AnswersInTurn
    <2>3. CASE Strayed
      <3>1. Proxy!Answered = Len(asked)
        BY <2>1, <2>3 DEF Strayed, Proxy!Answered
      <3> QED
        BY <2>1, <2>3, <3>1 DEF Strayed, ProxyInv, Proxy!AnswersInTurn
    <2> QED
      BY <2>2, <2>3 DEF ProxyInv
  <1>2. Init => ProxyInv
    BY ProxyInit DEF Init
  <1>3. ProxyInv /\ [Next]_vars => ProxyInv'
    BY ProxyNextKeeps, ProxySteps
  <1> QED
    BY <1>1, <1>2, <1>3, PTL DEF Spec

-----------------------------------------------------------------------------
(* SandboxCaller: the sandbox's calls keep the contract of the gateway     *)

\* A call that has come back: what it was, and what may follow it.
Outcomes == CallFailures \cup {"success", "pending"}
Calls == [at : Nat, slot : {0}, kind : Outcomes]
Verdicts == {Caller!None, "answer", "auth", "bad_request", "list_exhausted", "budget_exhausted"}

\* The models are called in their order, none twice and none beyond the cap, each
\* but the last with a failure that another model may cure; the verdict tells how
\* the last one ended, and no pause was begun that reaches the deadline.
CallerInv ==
  /\ models \in 1..Length /\ left \in Nat /\ verdict \in Verdicts /\ ~late
  /\ trail \in Seq(Calls)
  /\ Len(trail) <= models /\ Len(trail) <= MaxRetries
  /\ trail = <<>> => left = Budget /\ verdict = Caller!None
  /\ \A i \in 1..Len(trail) : trail[i].at = i
  /\ \A i \in 1..Len(trail) : i < Len(trail) =>
       trail[i].kind \notin {"pending", "success", "credential_invalid", "invalid_request"}
  /\ verdict # Caller!None => ~Caller!Calling
  /\ verdict = "answer" <=> trail # <<>> /\ Caller!Newest.kind = "success"
  /\ verdict = "list_exhausted" => Len(trail) \in {models, MaxRetries}
  /\ verdict = "auth" => Caller!Newest.kind = "credential_invalid"
  /\ verdict = "bad_request" => Caller!Newest.kind = "invalid_request"
  /\ verdict = "budget_exhausted" => Len(trail) < models /\ Len(trail) < MaxRetries

LEMMA CallerInit == Caller!Init => CallerInv
  BY CallerAssumption DEF Caller!Init, CallerInv, Verdicts, Caller!None

LEMMA CallerTells == CallerInv => Caller!VerdictTellsTheTrail
  <1>1. Caller!Final["credential_invalid"] = "auth" /\ Caller!Final["invalid_request"] = "bad_request"
    BY DEF Caller!Final
  <1> QED
    BY <1>1 DEF CallerInv, Caller!VerdictTellsTheTrail, Caller!Tried

\* One more call is made, in the order of the list.
LEMMA CallKeeps ==
    ASSUME CallerInv, verdict = Caller!None, ~Caller!Calling, left' \in Nat \ {0},
           Len(trail) < models, Len(trail) < MaxRetries, Caller!Call,
           trail # <<>> => Caller!Newest.kind \notin {"credential_invalid", "invalid_request"}
    PROVE  CallerInv'
  <1> DEFINE n == [at |-> Len(trail) + 1, slot |-> 0, kind |-> "pending"]
  <1>1. trail' = Append(trail, n) /\ late' = FALSE /\ UNCHANGED <<models, verdict>>
    BY DEF Caller!Call, Caller!Tried, CallerInv
  <1>2. n \in Calls /\ n.at = Len(trail) + 1 /\ n.kind = "pending"
    BY DEF Calls, Outcomes, CallerInv
  <1> HIDE DEF n
  <1>3. /\ trail' \in Seq(Calls) /\ Len(trail') = Len(trail) + 1 /\ trail' # <<>>
        /\ trail'[Len(trail) + 1] = n
        /\ \A i \in 1..Len(trail) : trail'[i] = trail[i]
    BY <1>1, <1>2, AppendProperties DEF CallerInv
  <1>4. \A i \in 1..Len(trail') : trail'[i].at = i
    BY <1>2, <1>3 DEF CallerInv
  <1>5. trail # <<>> => trail[Len(trail)].kind \notin
                          {"pending", "success", "credential_invalid", "invalid_request"}
    BY DEF CallerInv, Caller!Calling, Caller!Newest, Caller!Tried, Caller!None
  <1>6. \A i \in 1..Len(trail') : i < Len(trail') =>
          trail'[i].kind \notin {"pending", "success", "credential_invalid", "invalid_request"}
    <2> SUFFICES ASSUME NEW i \in 1..Len(trail'), i < Len(trail')
                 PROVE trail'[i].kind \notin {"pending", "success", "credential_invalid", "invalid_request"}
      OBVIOUS
    <2>1. i \in 1..Len(trail) /\ trail'[i] = trail[i] /\ trail # <<>>
      BY <1>3 DEF CallerInv
    <2> QED
      BY <1>5, <2>1 DEF CallerInv
  <1>7. Caller!Newest' = n
    BY <1>3 DEF Caller!Newest, Caller!Tried
  <1>8. /\ models' \in 1..Length /\ left' \in Nat /\ verdict' \in Verdicts /\ ~late'
        /\ Len(trail') <= models' /\ Len(trail') <= MaxRetries
        /\ verdict' = Caller!None
    BY <1>1, <1>3, CallerAssumption DEF CallerInv
  <1>9. Caller!Newest'.kind = "pending"
    BY <1>2, <1>7
  <1>10. Caller!None \notin {"answer", "auth", "bad_request", "list_exhausted", "budget_exhausted"}
    BY DEF Caller!None
  <1> QED
    BY <1>3, <1>4, <1>6, <1>8, <1>9, <1>10 DEF CallerInv

\* A verdict is passed when no call is out.
LEMMA EndKeeps ==
    ASSUME CallerInv, NEW how \in Verdicts \ {Caller!None, "answer"}, verdict = Caller!None,
           trail # <<>>, ~Caller!Calling, Caller!End(how),
           how = "list_exhausted" => Len(trail) \in {models, MaxRetries},
           how = "auth" => Caller!Newest.kind = "credential_invalid",
           how = "bad_request" => Caller!Newest.kind = "invalid_request",
           how = "budget_exhausted" => Len(trail) < models /\ Len(trail) < MaxRetries
    PROVE  CallerInv'
  <1>1. verdict' = how /\ UNCHANGED <<models, trail, left, late>>
    BY DEF Caller!End
  <1>2. Caller!Newest.kind # "success"
    BY SMTT(30) DEF CallerInv, Caller!None
  <1> QED
    BY <1>1, <1>2 DEF CallerInv, Caller!Newest, Caller!Tried, Caller!Calling

LEMMA AnswerKeeps ==
    ASSUME CallerInv, NEW kind \in CallFailures \cup {"success"}, NEW took \in 0..CallTimeout,
           Caller!Answer(kind, took)
    PROVE  CallerInv'
  <1> DEFINE n == [trail[Len(trail)] EXCEPT !.kind = kind]
  <1>1. /\ trail # <<>> /\ verdict = Caller!None
        /\ trail' = [trail EXCEPT ![Len(trail)] = n]
        /\ verdict' = IF kind = "success" THEN "answer" ELSE Caller!None
        /\ UNCHANGED <<models, late>>
    BY DEF Caller!Answer, Caller!Calling, Caller!Tried
  <1>2. /\ Len(trail) \in 1..Len(trail) /\ trail[Len(trail)] \in Calls
        /\ trail[Len(trail)].at = Len(trail)
    BY <1>1, EmptySeq DEF CallerInv
  <1>3. n \in Calls /\ n.at = Len(trail) /\ n.kind = kind
    BY <1>2 DEF Calls, Outcomes
  <1> HIDE DEF n
  <1>4. /\ trail' \in Seq(Calls) /\ Len(trail') = Len(trail)
        /\ trail'[Len(trail)] = n
        /\ \A i \in 1..Len(trail) : i # Len(trail) => trail'[i] = trail[i]
    BY <1>1, <1>2, <1>3, ExceptSeq DEF CallerInv
  <1>5. left' \in Nat
    BY SMTT(30), CallerAssumption DEF Caller!Answer, CallerInv
  <1>6. Caller!Newest' = n /\ trail' # <<>>
    BY ZenonT(60), <1>1, <1>4, EmptySeq DEF Caller!Newest, Caller!Tried, CallerInv
  <1>7. \A i \in 1..Len(trail') : trail'[i].at = i
    BY <1>3, <1>4 DEF CallerInv
  <1>8. \A i \in 1..Len(trail') : i < Len(trail') =>
          trail'[i].kind \notin {"pending", "success", "credential_invalid", "invalid_request"}
    BY <1>4 DEF CallerInv
  <1>9. verdict' \in Verdicts /\ (verdict' # Caller!None => kind = "success")
    BY <1>1 DEF Verdicts
  <1> QED
    BY ZenonT(60), <1>1, <1>3, <1>4, <1>5, <1>6, <1>7, <1>8, <1>9
       DEF CallerInv, Caller!None, Caller!Calling, Verdicts

LEMMA CallerNextKeeps == CallerInv /\ [Caller!Next]_(Caller!vars) => CallerInv'
  <1> SUFFICES ASSUME CallerInv, [Caller!Next]_(Caller!vars) PROVE CallerInv'
    OBVIOUS
  <1>1. CASE Caller!Begin
    <2>1. ~Caller!Calling /\ Len(trail) = 0 /\ left' = Budget /\ verdict = Caller!None /\ trail = <<>>
      BY <1>1, EmptySeq DEF Caller!Begin, Caller!Calling, CallerInv
    <2> QED
      BY <1>1, <2>1, CallKeeps, CallerAssumption DEF Caller!Begin, CallerInv
  <1>2. CASE \E kind \in CallFailures \cup {"success"}, took \in 0..CallTimeout : Caller!Answer(kind, took)
    BY <1>2, AnswerKeeps
  <1>3. CASE Caller!Abort
    <2>1. \/ Caller!Newest.kind = "credential_invalid" /\ Caller!Final[Caller!Newest.kind] = "auth"
          \/ Caller!Newest.kind = "invalid_request" /\ Caller!Final[Caller!Newest.kind] = "bad_request"
      BY <1>3 DEF Caller!Abort, Caller!Final
    <2> DEFINE how == Caller!Final[Caller!Newest.kind]
    <2>2. how \in Verdicts \ {Caller!None, "answer"}
      BY <2>1 DEF Verdicts, Caller!None
    <2>3. Caller!End(how) /\ verdict = Caller!None /\ trail # <<>> /\ ~Caller!Calling
      BY <1>3 DEF Caller!Abort
    <2>4. /\ how = "auth" => Caller!Newest.kind = "credential_invalid"
          /\ how = "bad_request" => Caller!Newest.kind = "invalid_request"
          /\ how \in {"auth", "bad_request"}
      BY <2>1
    <2> HIDE DEF how
    <2> QED
      BY <2>2, <2>3, <2>4, EndKeeps
  <1>4. CASE Caller!ListExhausted
    <2>1. Len(trail) \in {models, MaxRetries}
      BY <1>4, CallerAssumption DEF Caller!ListExhausted, Caller!Exhausted, Caller!Tried, CallerInv
    <2> QED
      BY <1>4, <2>1, EndKeeps DEF Caller!ListExhausted, Caller!MayGoOn, Verdicts, Caller!None
  <1>5. ASSUME NEW delay \in Delays, Caller!GoOn(delay) PROVE CallerInv'
    <2>1. /\ verdict = Caller!None /\ ~Caller!Calling /\ trail # <<>>
          /\ Caller!Newest.kind \notin {"credential_invalid", "invalid_request"}
          /\ Len(trail) < models /\ Len(trail) < MaxRetries
      BY <1>5, CallerAssumption
      DEF Caller!GoOn, Caller!MayGoOn, Caller!Exhausted, Caller!Tried, Caller!Final, CallerInv
    <2>2. CASE Caller!End("budget_exhausted")
      BY <2>1, <2>2, EndKeeps DEF Verdicts, Caller!None
    <2>3. CASE ~Caller!End("budget_exhausted")
      <3>1. Caller!Call /\ left' \in Nat \ {0}
        BY <1>5, <2>3, CallerAssumption DEF Caller!GoOn, Caller!PauseTooLong, CallerInv
      <3> QED
        BY <2>1, <3>1, CallKeeps
    <2> QED
      BY <2>2, <2>3
  <1>6. CASE UNCHANGED Caller!vars
    BY <1>6 DEF Caller!vars, CallerInv, Caller!Newest, Caller!Tried, Caller!Calling
  <1> QED
    BY <1>1, <1>2, <1>3, <1>4, <1>5, <1>6 DEF Caller!Next

-----------------------------------------------------------------------------
\* The contract's only request waits while a call is out.
LEMMA CallerWaits ==
    ASSUME CallerInv
    PROVE  /\ Caller!Contract!Waiting(0) <=> Caller!Calling
           /\ Caller!Contract!Newest(0) = Caller!Newest
  BY DEF Caller!Contract!Waiting, Caller!Contract!Newest, Caller!Calling, Caller!Newest, Caller!Tried

\* A step of the sandbox's caller is a step of the contract or none: the next model is
\* a Try, an answer is a Fail or a Deliver, and every other verdict is a GiveUp.
LEMMA CallImplements ==
    ASSUME CallerInv, verdict = Caller!None, ~Caller!Calling,
           Len(trail) < models, Len(trail) < MaxRetries, Caller!Call,
           trail # <<>> => Caller!Newest.kind \notin {"credential_invalid", "invalid_request"}
    PROVE  Caller!Contract!Next
  <1>1. trail' = Append(trail, [at |-> Len(trail) + 1, slot |-> 0, kind |-> "pending"])
        /\ UNCHANGED verdict
    BY DEF Caller!Call, Caller!Tried
  <1>2. Len(trail) + 1 \in 1..Length
    BY CallerAssumption DEF CallerInv
  <1>3. Caller!Contract!MayFollow(0, Len(trail) + 1, 0)
    <2>1. CASE trail = <<>>
      BY <2>1 DEF Caller!Contract!MayFollow
    <2>2. CASE trail # <<>>
      <3>0. Len(trail) \in 1..Len(trail)
        BY <2>2, EmptySeq DEF CallerInv
      <3>1. /\ trail[Len(trail)].at = Len(trail) /\ trail[Len(trail)].kind \in Outcomes
            /\ Len(trail) \in Nat
        <4>1. trail[Len(trail)] \in Calls /\ trail[Len(trail)].at = Len(trail)
          BY <3>0 DEF CallerInv
        <4> QED
          BY <3>0, <4>1 DEF Calls
      <3>2. trail[Len(trail)].kind \notin {"stalled", "credential_invalid", "invalid_request"}
        BY <2>2, <3>1, CallerAssumption DEF Outcomes, Caller!Newest, Caller!Tried
      <3>3. Len(trail) + 1 > trail[Len(trail)].at
        BY <3>1
      <3> QED
        BY <3>2, <3>3 DEF Caller!Contract!MayFollow, Caller!Contract!Newest, Caller!Contract!Final
    <2> QED
      BY <2>1, <2>2
  <1>4. Caller!Contract!Try(0, Len(trail) + 1, 0)
    BY <1>1, <1>3, CallerWaits DEF Caller!Contract!Try
  <1> QED
    BY <1>2, <1>4 DEF Caller!Contract!Next

LEMMA EndImplements ==
    ASSUME CallerInv, NEW how \in Verdicts \ {Caller!None, "answer"}, verdict = Caller!None,
           trail # <<>>, ~Caller!Calling, Caller!End(how)
    PROVE  Caller!Contract!Next
  <1>1. verdict' = how /\ UNCHANGED trail
    BY DEF Caller!End
  <1>2. Caller!Contract!GiveUp(0)
    BY <1>1, CallerWaits DEF Caller!Contract!GiveUp
  <1> QED
    BY <1>2 DEF Caller!Contract!Next

LEMMA AnswerImplements ==
    ASSUME CallerInv, NEW kind \in CallFailures \cup {"success"}, NEW took \in 0..CallTimeout,
           Caller!Answer(kind, took)
    PROVE  Caller!Contract!Next
  <1>1. /\ Caller!Calling /\ verdict = Caller!None
        /\ trail' = [trail EXCEPT ![Len(trail)].kind = kind]
        /\ verdict' = IF kind = "success" THEN "answer" ELSE Caller!None
    BY DEF Caller!Answer, Caller!Tried
  <1>2. Caller!None # "answer"
    BY DEF Caller!None
  <1>3. CASE kind = "success"
    <2>1. Caller!Contract!Deliver(0)
      BY <1>1, <1>2, <1>3, CallerWaits DEF Caller!Contract!Deliver, Caller!Contract!Settled
    <2> QED
      BY <2>1 DEF Caller!Contract!Next
  <1>4. CASE kind # "success"
    <2>1. Caller!Contract!Fail(0, kind)
      BY <1>1, <1>2, <1>4, CallerWaits DEF Caller!Contract!Fail, Caller!Contract!Settled
    <2> QED
      BY <1>4, <2>1 DEF Caller!Contract!Next
  <1> QED
    BY <1>3, <1>4

LEMMA CallerImplements ==
    CallerInv /\ [Caller!Next]_(Caller!vars) => [Caller!Contract!Next]_(Caller!Contract!vars)
  <1> SUFFICES ASSUME CallerInv, [Caller!Next]_(Caller!vars)
               PROVE  [Caller!Contract!Next]_(Caller!Contract!vars)
    OBVIOUS
  <1>1. CASE Caller!Begin
    <2>1. ~Caller!Calling /\ Len(trail) = 0 /\ verdict = Caller!None /\ trail = <<>>
      BY <1>1, EmptySeq DEF Caller!Begin, Caller!Calling, CallerInv
    <2> QED
      BY <1>1, <2>1, CallImplements, CallerAssumption DEF Caller!Begin, CallerInv
  <1>2. CASE \E kind \in CallFailures \cup {"success"}, took \in 0..CallTimeout : Caller!Answer(kind, took)
    BY <1>2, AnswerImplements
  <1>3. CASE Caller!Abort
    <2>1. Caller!Final[Caller!Newest.kind] \in {"auth", "bad_request"}
      BY <1>3 DEF Caller!Abort, Caller!Final
    <2> DEFINE how == Caller!Final[Caller!Newest.kind]
    <2>2. how \in Verdicts \ {Caller!None, "answer"}
      BY <2>1 DEF Verdicts, Caller!None
    <2>3. Caller!End(how) /\ verdict = Caller!None /\ trail # <<>> /\ ~Caller!Calling
      BY <1>3 DEF Caller!Abort
    <2> HIDE DEF how
    <2> QED
      BY <2>2, <2>3, EndImplements
  <1>4. CASE Caller!ListExhausted
    BY <1>4, EndImplements DEF Caller!ListExhausted, Caller!MayGoOn, Verdicts, Caller!None
  <1>5. ASSUME NEW delay \in Delays, Caller!GoOn(delay) PROVE Caller!Contract!Next
    <2>1. /\ verdict = Caller!None /\ ~Caller!Calling /\ trail # <<>>
          /\ Caller!Newest.kind \notin {"credential_invalid", "invalid_request"}
          /\ Len(trail) < models /\ Len(trail) < MaxRetries
      BY <1>5, CallerAssumption
      DEF Caller!GoOn, Caller!MayGoOn, Caller!Exhausted, Caller!Tried, Caller!Final, CallerInv
    <2>2. CASE Caller!End("budget_exhausted")
      BY <2>1, <2>2, EndImplements DEF Verdicts, Caller!None
    <2>3. CASE ~Caller!End("budget_exhausted")
      <3>1. Caller!Call
        BY <1>5, <2>3 DEF Caller!GoOn
      <3> QED
        BY <2>1, <3>1, CallImplements
    <2> QED
      BY <2>2, <2>3
  <1>6. CASE UNCHANGED Caller!vars
    BY <1>6 DEF Caller!vars, Caller!Contract!vars
  <1> QED
    BY <1>1, <1>2, <1>3, <1>4, <1>5, <1>6 DEF Caller!Next

\* The sandbox may not import the gateway's failover and repeats it in call_with_retry:
\* whatever the models answer, however long they take and whatever pause follows, it
\* makes only the calls that FailoverContract allows, and its error says truly why it
\* made no more.
THEOREM CallerKeepsTheContract == Spec => CallerKeepsContract
  <1>1. Init => CallerInv
    BY CallerInit DEF Init
  <1>2. CallerInv /\ [Next]_vars => CallerInv'
    BY CallerSteps, CallerNextKeeps
  <1>3. Init => Caller!Contract!Init
    <2> SUFFICES ASSUME Caller!Init PROVE Caller!Contract!Init
      BY DEF Init
    <2>1. trail = <<>> /\ verdict = Caller!None
      BY DEF Caller!Init
    <2>2. (CASE verdict = Caller!None -> "none" [] verdict = "answer" -> "opened"
             [] OTHER -> "failure") = "none"
      BY <2>1 DEF Caller!None
    <2>3. [r \in {0} |-> CASE verdict = Caller!None -> "none" [] verdict = "answer" -> "opened"
                            [] OTHER -> "failure"] = [r \in {0} |-> "none"]
      BY <2>2
    <2>4. [r \in {0} |-> trail] = [r \in {0} |-> <<>>]
      BY <2>1
    <2> QED
      BY <2>3, <2>4 DEF Caller!Contract!Init
  <1>4. CallerInv /\ [Next]_vars => [Caller!Contract!Next]_(Caller!Contract!vars)
    BY CallerSteps, CallerImplements
  <1> QED
    BY <1>1, <1>2, <1>3, <1>4, CallerTells, PTL
    DEF Spec, CallerKeepsContract, Caller!CallerKeepsContract, Caller!Contract!Spec

-----------------------------------------------------------------------------
(* AuditLog: one process writes the log of the sandbox                     *)

\* A log is a list of records; records count from 1, so none is the mark of a file
\* that is not there.
LogFiles == Seq(Nat \ {0}) \cup {Log!Missing}
LogPlaces == [at : {"idle", "oldest", "move", "append"}, file : Nat, record : Nat]

\* The records of the file at k.
In(k, n) == files[k] # Log!Missing /\ \E i \in 1..Len(files[k]) : files[k][i] = n

\* An older file holds older records, and the record that is being written is younger
\* than all of them.  While files move, there is room above the next one.
LogInv ==
  /\ files \in [0..Keep -> LogFiles]
  /\ pc \in [Writers -> LogPlaces] /\ written \in Nat
  /\ \A k \in 0..Keep, n \in Nat : In(k, n) => n <= written
  /\ \A j, k \in 0..Keep, m, n \in Nat : j < k /\ In(j, m) /\ In(k, n) => n < m
  /\ \A w \in Writers :
       /\ pc[w].at # "idle" => pc[w].record \in Nat \ {0} /\ pc[w].record = written
       /\ pc[w].at # "idle" => \A k \in 0..Keep, n \in Nat : In(k, n) => n < pc[w].record
       /\ pc[w].at = "oldest" => Keep > 0
       /\ pc[w].at = "move" => pc[w].file \in 0..(Keep - 1) /\ files[pc[w].file + 1] = Log!Missing
       /\ pc[w].at = "idle" <=> pc[w] = Log!Idle

\* No process but the one that moves the files writes.
WritesAlone == \A v, w \in Writers : v = w

LEMMA MissingIsNoLog == Log!Missing \notin Seq(Nat \ {0})
  <1> SUFFICES ASSUME Log!Missing \in Seq(Nat \ {0}) PROVE FALSE
    OBVIOUS
  <1>1. Len(Log!Missing) = 1 /\ Log!Missing[1] = 0
    BY DEF Log!Missing
  <1>2. Log!Missing[1] \in Nat \ {0}
    BY <1>1, ElementOfSeq
  <1> QED
    BY <1>1, <1>2

LEMMA RecordsAre ==
    ASSUME LogInv, NEW k \in 0..Keep
    PROVE  Log!Records(k) = {n \in Nat : In(k, n)}
  <1>1. CASE Log!Exists(k)
    <2>1. files[k] \in Seq(Nat \ {0}) /\ files[k] # Log!Missing
      BY <1>1 DEF LogInv, LogFiles, Log!Exists
    <2>2. DOMAIN files[k] = 1..Len(files[k]) /\ \A i \in 1..Len(files[k]) : files[k][i] \in Nat
      BY <2>1, ElementOfSeq
    <2>3. Log!Records(k) = {files[k][i] : i \in DOMAIN files[k]}
      BY <1>1 DEF Log!Records, Log!ToSet
    <2> QED
      BY <2>1, <2>2, <2>3 DEF In
  <1>2. CASE ~Log!Exists(k)
    BY <1>2 DEF Log!Exists, Log!Records, In
  <1> QED
    BY <1>1, <1>2

LEMMA LogInit == Log!Init => LogInv
  BY LogAssumption DEF Log!Init, LogInv, LogFiles, LogPlaces, Log!Idle, In

\* While its writer is at work the places stay in order, whatever moves.
LEMMA LogGoesOn ==
    ASSUME LogInv, WritesAlone, NEW w \in Writers, NEW p \in LogPlaces, pc[w].at # "idle",
           pc' = [pc EXCEPT ![w] = p], written' = written,
           p = Log!Idle \/ (p.at \in {"move", "append"} /\ p.record = pc[w].record),
           p.at = "move" => p.file \in 0..(Keep - 1) /\ files'[p.file + 1] = Log!Missing,
           files' \in [0..Keep -> LogFiles],
           \A k \in 0..Keep, n \in Nat : In(k, n)' =>
             n <= written /\ (p # Log!Idle => n < pc[w].record),
           \A j, k \in 0..Keep, m, n \in Nat : j < k /\ In(j, m)' /\ In(k, n)' => n < m
    PROVE  LogInv'
  <1>1. pc' \in [Writers -> LogPlaces] /\ \A v \in Writers : pc'[v] = p
    BY DEF LogInv, WritesAlone
  <1>2. Log!Idle.at = "idle" /\ (p.at = "idle" <=> p = Log!Idle) /\ p.at # "oldest"
    BY DEF Log!Idle
  <1>3. pc[w].record \in Nat \ {0} /\ pc[w].record = written /\ written \in Nat
    BY DEF LogInv
  <1>4. p.at # "idle" => p.record \in Nat \ {0} /\ p.record = written
                        /\ \A k \in 0..Keep, n \in Nat : In(k, n)' => n < p.record
    BY <1>2, <1>3
  <1> QED
    BY <1>1, <1>2, <1>3, <1>4 DEF LogInv

\* The records that are kept, now and after a step.
InFiles == {n \in Nat : \E k \in 0..Keep : In(k, n)}

LEMMA LogKept == LogInv => Log!Kept = InFiles
  BY RecordsAre DEF Log!Kept, InFiles

LEMMA LogKeptNext == (LogInv => Log!Kept = InFiles)'
  BY LogKept, PTL

\* A writer moves on in _write.
LEMMA LogGoto ==
    ASSUME pc \in [Writers -> LogPlaces], NEW w \in Writers,
           NEW at \in {"move", "append"}, NEW f \in Nat, Log!Goto(w, at, f)
    PROVE  /\ pc' = [pc EXCEPT ![w] = pc'[w]] /\ pc'[w] \in LogPlaces
           /\ pc'[w].at = at /\ pc'[w].file = f /\ pc'[w].record = pc[w].record
  <1> DEFINE x == pc[w]
             p == [x EXCEPT !.at = at, !.file = f]
  <1>1. x \in LogPlaces
    OBVIOUS
  <1>2. pc' = [pc EXCEPT ![w].at = at, ![w].file = f]
    BY DEF Log!Goto
  <1>3. pc' = [pc EXCEPT ![w] = pc'[w]] /\ pc'[w] = p
    BY <1>2
  <1> HIDE DEF x
  <1>4. p \in LogPlaces /\ p.at = at /\ p.file = f /\ p.record = x.record
    BY <1>1 DEF LogPlaces
  <1> HIDE DEF p
  <1> QED
    BY <1>3, <1>4 DEF x

LEMMA LogUnlinkKeeps ==
    ASSUME WritesAlone, LogInv, NEW w \in Writers, Log!Unlink(w)
    PROVE  LogInv' /\ Log!OldestGoes
  <1> DEFINE p == pc'[w]
  <1>1. /\ pc[w].at = "oldest" /\ files' = [files EXCEPT ![Keep] = Log!Missing]
        /\ Log!Goto(w, "move", Keep - 1) /\ written' = written
    BY DEF Log!Unlink, Log!NextToMove
  <1>2. Keep > 0 /\ Keep \in 0..Keep /\ Keep - 1 \in 0..(Keep - 1) /\ Keep - 1 \in Nat
    BY <1>1, LogAssumption DEF LogInv
  <1>3. /\ p \in LogPlaces /\ p.at = "move" /\ p.file = Keep - 1 /\ p.record = pc[w].record
        /\ pc' = [pc EXCEPT ![w] = p]
    BY <1>1, <1>2, LogGoto DEF LogInv
  <1> HIDE DEF p
  <1>5. files' \in [0..Keep -> LogFiles] /\ files'[Keep] = Log!Missing
    BY <1>1, <1>2 DEF LogInv, LogFiles
  <1>6. \A k \in 0..Keep, n \in Nat : In(k, n)' <=> k # Keep /\ In(k, n)
    BY <1>1, <1>5 DEF In, LogInv
  <1>7. files'[p.file + 1] = Log!Missing
    BY <1>3, <1>5, LogAssumption
  <1>8. \A k \in 0..Keep, n \in Nat : In(k, n)' => n <= written /\ n < pc[w].record
    BY <1>1, <1>6 DEF LogInv
  <1>9. \A j, k \in 0..Keep, m, n \in Nat : j < k /\ In(j, m)' /\ In(k, n)' => n < m
    BY <1>6 DEF LogInv
  <1>10. LogInv'
    BY <1>1, <1>2, <1>3, <1>5, <1>7, <1>8, <1>9, LogGoesOn
  <1>11. Log!Kept = InFiles /\ Log!Kept' = InFiles'
    BY <1>10, LogKept, LogKeptNext
  <1>12. Log!Records(Keep) = {n \in Nat : In(Keep, n)}
    BY <1>2, RecordsAre
  <1>13. Log!Kept \ Log!Kept' \subseteq Log!Records(Keep)
    BY <1>6, <1>11, <1>12 DEF InFiles
  <1>14. ASSUME NEW g \in Log!Kept \ Log!Kept', NEW stays \in Log!Kept' PROVE g < stays
    <2>1. g \in Nat /\ In(Keep, g) /\ stays \in Nat
      BY <1>11, <1>12, <1>13 DEF InFiles
    <2>2. PICK k \in 0..Keep : k # Keep /\ In(k, stays)
      BY <1>6, <1>11 DEF InFiles
    <2>3. k < Keep
      BY <2>2, LogAssumption
    <2> QED
      BY <1>2, <2>1, <2>2, <2>3 DEF LogInv
  <1> QED
    BY <1>10, <1>13, <1>14 DEF Log!OldestGoes

\* Nothing is lost: what was kept is kept.
LEMMA NothingGoes == Log!Kept \subseteq Log!Kept' => Log!OldestGoes
  BY DEF Log!OldestGoes

LEMMA LogMoveKeeps ==
    ASSUME WritesAlone, LogInv, NEW w \in Writers, Log!Move(w)
    PROVE  LogInv' /\ Log!OldestGoes
  <1> DEFINE k == pc[w].file
  <1>1. /\ pc[w].at = "move" /\ pc[w] \in LogPlaces /\ k \in 0..(Keep - 1)
        /\ k \in 0..Keep /\ k + 1 \in 0..Keep
        /\ files[k + 1] = Log!Missing /\ written' = written
        /\ files \in [0..Keep -> LogFiles]
    BY LogAssumption DEF Log!Move, LogInv
  <1>2. Log!Idle \in LogPlaces
    BY DEF Log!Idle, LogPlaces
  <1>3. CASE UNCHANGED files
    <2>1. \A j \in 0..Keep, n \in Nat : In(j, n)' <=> In(j, n)
      BY <1>3 DEF In
    <2>2. Log!Kept' = Log!Kept
      BY <1>3 DEF Log!Kept, Log!Records, Log!Exists
    <2>3. PICK p \in LogPlaces :
            /\ pc' = [pc EXCEPT ![w] = p]
            /\ p = Log!Idle \/ (p.at \in {"move", "append"} /\ p.record = pc[w].record)
            /\ p.at = "move" => p.file \in 0..(Keep - 1) /\ files'[p.file + 1] = Log!Missing
      <3>1. CASE Log!Moves(k) /\ ~Log!Exists(k)
        <4>1. pc' = [pc EXCEPT ![w] = Log!Idle] /\ Log!Idle.at # "move"
          BY <3>1 DEF Log!Move, Log!Leave, Log!Idle
        <4> QED
          BY <1>2, <4>1
      <3>2. CASE ~Log!Moves(k)
        <4> DEFINE p == pc'[w]
        <4>1. k # 0 /\ files[k] = Log!Missing
          BY <3>2 DEF Log!Moves, Log!Exists
        <4>2. Log!Goto(w, "move", k - 1) /\ k - 1 \in Nat
          BY <1>1, <3>2, <4>1, LogAssumption DEF Log!Move, Log!NextToMove
        <4>3. /\ p \in LogPlaces /\ p.at = "move" /\ p.file = k - 1
              /\ p.record = pc[w].record /\ pc' = [pc EXCEPT ![w] = p]
          BY <4>2, LogGoto DEF LogInv
        <4> HIDE DEF p
        <4>5. files'[p.file + 1] = Log!Missing /\ p.file \in 0..(Keep - 1)
          BY <1>1, <1>3, <4>1, <4>3, LogAssumption
        <4> QED
          BY <4>3, <4>5
      <3>3. CASE Log!Exists(k)
        <4>1. files'[k] = Log!Missing
          BY <1>1, <3>3, LogAssumption DEF Log!Move, Log!Moves
        <4> QED
          BY <1>3, <3>3, <4>1 DEF Log!Exists
      <3> QED
        BY <3>1, <3>2, <3>3
    <2>4. \A j \in 0..Keep, n \in Nat : In(j, n)' => n <= written /\ n < pc[w].record
      BY <1>1, <2>1 DEF LogInv
    <2>5. \A i, j \in 0..Keep, m, n \in Nat : i < j /\ In(i, m)' /\ In(j, n)' => n < m
      BY <2>1 DEF LogInv
    <2>6. files' \in [0..Keep -> LogFiles]
      BY <1>1, <1>3
    <2>7. LogInv'
      BY <1>1, <2>3, <2>4, <2>5, <2>6, LogGoesOn
    <2> QED
      BY <2>2, <2>7, NothingGoes
  <1>4. CASE Log!Exists(k)
    <2>1. /\ files' = [files EXCEPT ![k] = Log!Missing, ![k + 1] = files[k]]
          /\ IF k = 0 THEN Log!Goto(w, "append", 0) ELSE Log!Goto(w, "move", k - 1)
      BY <1>4 DEF Log!Move, Log!Moves, Log!NextToMove
    <2>2. /\ files' \in [0..Keep -> LogFiles] /\ files'[k] = Log!Missing
          /\ files'[k + 1] = files[k]
          /\ \A j \in 0..Keep : j # k /\ j # k + 1 => files'[j] = files[j]
      BY <1>1, <2>1 DEF LogFiles
    <2>3. \A j \in 0..Keep, n \in Nat :
            In(j, n)' <=> (j = k + 1 /\ In(k, n)) \/ (j # k /\ j # k + 1 /\ In(j, n))
      BY <1>1, <2>2 DEF In
    <2>4. PICK at \in {"append", "move"}, to \in 0..(Keep - 1) :
            /\ Log!Goto(w, at, to)
            /\ at = "move" => to = k - 1 /\ k # 0
      <3>1. CASE k = 0
        BY <1>1, <2>1, <3>1, LogAssumption
      <3>2. CASE k # 0
        <4>1. k - 1 \in 0..(Keep - 1)
          BY <1>1, <3>2, LogAssumption
        <4> QED
          BY <2>1, <3>2, <4>1
      <3> QED
        BY <3>1, <3>2
    <2> DEFINE p == pc'[w]
    <2>5. to \in Nat
      BY LogAssumption
    <2>6. /\ p \in LogPlaces /\ p.at = at /\ p.file = to /\ p.record = pc[w].record
          /\ pc' = [pc EXCEPT ![w] = p]
      BY <2>4, <2>5, LogGoto DEF LogInv
    <2> HIDE DEF p
    <2>7. p.at = "move" => p.file \in 0..(Keep - 1) /\ files'[p.file + 1] = Log!Missing
      BY <1>1, <2>2, <2>4, <2>6, LogAssumption
    <2>8. \A j \in 0..Keep, n \in Nat : In(j, n)' => n <= written /\ n < pc[w].record
      BY <1>1, <2>3 DEF LogInv
    <2>9. ASSUME NEW i \in 0..Keep, NEW j \in 0..Keep, NEW m \in Nat, NEW n \in Nat,
                 i < j, In(i, m)', In(j, n)'
          PROVE  n < m
      <3>1. PICK a \in 0..Keep : In(a, m) /\ ((i = k + 1 /\ a = k) \/ (i # k /\ i # k + 1 /\ a = i))
        BY <1>1, <2>3, <2>9
      <3>2. PICK b \in 0..Keep : In(b, n) /\ ((j = k + 1 /\ b = k) \/ (j # k /\ j # k + 1 /\ b = j))
        BY <1>1, <2>3, <2>9
      <3>3. a < b
        BY <1>1, <2>9, <3>1, <3>2, LogAssumption
      <3> QED
        BY <3>1, <3>2, <3>3 DEF LogInv
    <2>10. LogInv'
      BY <1>1, <2>2, <2>4, <2>6, <2>7, <2>8, <2>9, LogGoesOn
    <2>11. Log!Kept = InFiles /\ Log!Kept' = InFiles'
      BY <2>10, LogKept, LogKeptNext
    <2>12. ASSUME NEW n \in Nat, NEW j \in 0..Keep, In(j, n) PROVE \E i \in 0..Keep : In(i, n)'
      <3>1. j # k + 1
        BY <1>1, <2>12 DEF In
      <3> QED
        BY <1>1, <2>3, <2>12, <3>1
    <2>13. Log!Kept \subseteq Log!Kept'
      BY <2>11, <2>12 DEF InFiles
    <2> QED
      BY <2>10, <2>13, NothingGoes
  <1>5. CASE ~Log!Exists(k)
    <2>1. UNCHANGED files
      BY <1>5 DEF Log!Move
    <2> QED
      BY <1>3, <2>1
  <1> QED
    BY <1>4, <1>5

LEMMA LogAppendKeeps ==
    ASSUME WritesAlone, LogInv, NEW w \in Writers, Log!AppendRecord(w)
    PROVE  LogInv' /\ Log!OldestGoes
  <1> DEFINE before == IF files[0] = Log!Missing THEN <<>> ELSE files[0]
             r == pc[w].record
  <1>1. /\ pc[w].at = "append" /\ pc' = [pc EXCEPT ![w] = Log!Idle] /\ written' = written
        /\ files' = [files EXCEPT ![0] = Append(before, r)]
        /\ 0 \in 0..Keep /\ r \in Nat \ {0} /\ r = written
    BY LogAssumption DEF Log!AppendRecord, Log!Leave, LogInv
  <1>2. before \in Seq(Nat \ {0})
    BY <1>1, EmptySeq DEF LogInv, LogFiles
  <1>3. /\ Append(before, r) \in Seq(Nat \ {0}) /\ Len(Append(before, r)) = Len(before) + 1
        /\ Append(before, r)[Len(before) + 1] = r
        /\ \A i \in 1..Len(before) : Append(before, r)[i] = before[i]
        /\ Len(before) \in Nat
    BY <1>1, <1>2, AppendProperties
  <1>4. Append(before, r) # Log!Missing
    BY <1>3, MissingIsNoLog
  <1>5. \A n \in Nat : In(0, n) <=> \E i \in 1..Len(before) : before[i] = n
    BY EmptySeq DEF In
  <1> HIDE DEF before
  <1>6. /\ files' \in [0..Keep -> LogFiles] /\ files'[0] = Append(before, r)
        /\ \A j \in 0..Keep : j # 0 => files'[j] = files[j]
    BY <1>1, <1>3 DEF LogInv, LogFiles
  <1>7. \A n \in Nat : In(0, n)' <=> In(0, n) \/ n = r
    <2> SUFFICES ASSUME NEW n \in Nat PROVE In(0, n)' <=> In(0, n) \/ n = r
      OBVIOUS
    <2>1. In(0, n)' <=> \E i \in 1..(Len(before) + 1) : Append(before, r)[i] = n
      BY <1>3, <1>4, <1>6 DEF In
    <2>2. \A i : i \in 1..(Len(before) + 1) <=> i \in 1..Len(before) \/ i = Len(before) + 1
      BY <1>3
    <2> QED
      BY <1>3, <1>5, <2>1, <2>2
  <1>8. \A j \in 0..Keep, n \in Nat : j # 0 => (In(j, n)' <=> In(j, n))
    BY <1>6 DEF In
  <1>9. \A j \in 0..Keep, n \in Nat : In(j, n) => n <= written /\ n < r
    BY <1>1 DEF LogInv
  <1>10. \A j \in 0..Keep, n \in Nat : In(j, n)' => n <= written
    BY <1>1, <1>7, <1>8, <1>9
  <1>11. ASSUME NEW i \in 0..Keep, NEW j \in 0..Keep, NEW m \in Nat, NEW n \in Nat,
                i < j, In(i, m)', In(j, n)'
         PROVE  n < m
    <2>1. j # 0 /\ In(j, n)
      BY <1>8, <1>11
    <2>2. CASE In(i, m)
      BY <1>11, <2>1, <2>2 DEF LogInv
    <2>3. CASE ~In(i, m)
      BY <1>7, <1>8, <1>9, <1>11, <2>1, <2>3
    <2> QED
      BY <2>2, <2>3
  <1>12. Log!Idle \in LogPlaces /\ Log!Idle.at # "move"
    BY DEF Log!Idle, LogPlaces
  <1>13. LogInv'
    BY <1>1, <1>6, <1>10, <1>11, <1>12, LogGoesOn
  <1>14. Log!Kept = InFiles /\ Log!Kept' = InFiles'
    BY <1>13, LogKept, LogKeptNext
  <1>15. Log!Kept \subseteq Log!Kept'
    BY <1>7, <1>8, <1>14 DEF InFiles
  <1> QED
    BY <1>13, <1>15, NothingGoes

LEMMA LogNextKeeps ==
    ASSUME WritesAlone, LogInv, [Log!Next]_(Log!vars) PROVE LogInv' /\ [Log!OldestGoes]_(Log!vars)
  <1>1. CASE UNCHANGED Log!vars
    BY <1>1 DEF Log!vars, LogInv, In
  <1>2. ASSUME NEW w \in Writers, Log!Begin(w) PROVE LogInv' /\ Log!Kept' = Log!Kept
    <2> DEFINE at == IF Keep > 0 /\ Log!Exists(0) /\ Len(files[0]) >= Full THEN "oldest" ELSE "append"
               n == [at |-> at, file |-> 0, record |-> written + 1]
    <2>1. /\ pc' = [pc EXCEPT ![w] = n] /\ written' = written + 1 /\ UNCHANGED files
          /\ written \in Nat
      BY <1>2 DEF Log!Begin, LogInv
    <2>2. n \in LogPlaces /\ n.at \in {"oldest", "append"} /\ n.record = written + 1
          /\ (n.at = "oldest" => Keep > 0)
      BY <2>1 DEF LogPlaces
    <2> HIDE DEF n
    <2>3. pc' \in [Writers -> LogPlaces] /\ \A v \in Writers : pc'[v] = n
      BY <2>1, <2>2 DEF LogInv, WritesAlone
    <2>4. \A k \in 0..Keep, m \in Nat : In(k, m)' <=> In(k, m)
      BY <2>1 DEF In
    <2>5. n # Log!Idle
      BY <2>2 DEF Log!Idle
    <2>6. Log!Kept' = Log!Kept
      BY <2>1 DEF Log!Kept, Log!Records, Log!Exists
    <2> QED
      BY <2>1, <2>2, <2>3, <2>4, <2>5, <2>6 DEF LogInv
  <1>3. ASSUME NEW w \in Writers, Log!Fail(w) PROVE LogInv' /\ Log!Kept' = Log!Kept
    <2>1. /\ pc' = [pc EXCEPT ![w] = Log!Idle] /\ UNCHANGED <<files, written>>
      BY <1>3 DEF Log!Fail, Log!Leave
    <2>2. Log!Idle \in LogPlaces /\ Log!Idle.at = "idle"
      BY DEF LogPlaces, Log!Idle
    <2>3. pc' \in [Writers -> LogPlaces] /\ \A v \in Writers : pc'[v] = Log!Idle
      BY <2>1, <2>2 DEF LogInv, WritesAlone
    <2>4. \A k \in 0..Keep, m \in Nat : In(k, m)' <=> In(k, m)
      BY <2>1 DEF In
    <2>5. Log!Kept' = Log!Kept
      BY <2>1 DEF Log!Kept, Log!Records, Log!Exists
    <2> QED
      BY <2>1, <2>2, <2>3, <2>4, <2>5 DEF LogInv
  <1>4. ASSUME NEW w \in Writers, Log!Unlink(w) \/ Log!Move(w) \/ Log!AppendRecord(w)
        PROVE  LogInv' /\ Log!OldestGoes
    BY <1>4, LogUnlinkKeeps, LogMoveKeeps, LogAppendKeeps
  <1>5. Log!Kept' = Log!Kept => Log!OldestGoes
    BY NothingGoes
  <1> QED
    BY <1>1, <1>2, <1>3, <1>4, <1>5 DEF Log!Next

\* Of one process's log the rotations drop the oldest file and no other record, wherever
\* one of them breaks, and what goes was written before all that stays: AuditLog._rotate.
\* The process writes alone.
THEOREM LogDropsTheOldest ==
    ASSUME WritesAlone PROVE Spec => OnlyTheOldestGoes
  <1>1. Init => LogInv
    BY LogInit DEF Init
  <1>2. LogInv /\ [Next]_vars => LogInv' /\ [Log!OldestGoes]_(Log!vars)
    BY LogSteps, LogNextKeeps
  <1> QED
    BY <1>1, <1>2, PTL DEF Spec, OnlyTheOldestGoes, Log!OnlyTheOldestGoes

-----------------------------------------------------------------------------
(* Harness: the rows of the audit and what the callers were told           *)

\* An adapter that says "cancelled" in its chunks, and no failure, says so in its class:
\* the router looks at the other direction only.
CancelsAreClassed ==
  \A e \in Envelopes :
    "cancelled" \in Harness!Types(e) /\ "failed" \notin Harness!Types(e) => e.class = "cancelled"

Answerable ==
  Envelopes \cup {Harness!Acked, Harness!StubAnswer, Harness!EchoAnswer, Harness!Failed("protocol")}
NamedIds == Ids \cup {""}
HarnessRows ==
  [route : Harness!Asked, id : NamedIds,
   status : {e.status : e \in Answerable} \cup {"failed", "cancelled", "ok"},
   class : {e.class : e \in Answerable} \cup {"cancelled", "none"}]
HarnessTold == [face : Harness!Faces, route : Harness!Asked, id : NamedIds, envelope : Answerable]

\* A row and what its caller was told.
SameStory(row, t) ==
  /\ row.route = t.route
  /\ row.class = "cancelled" <=> t.envelope.class = "cancelled"
  /\ row.class = "cancelled" => "cancelled" \in Harness!Types(t.envelope)

\* The routes that the switches lead over.
Visited(r) ==
  IF switches = <<>> THEN r = last
  ELSE r = switches[1][1] \/ \E i \in 1..Len(switches) : switches[i][2] = r

AnsweredFor(t) ==
  t.route \in Harness!Routes /\ Harness!Reaches(t.route) /\ t.envelope # Harness!Failed("protocol")

HarnessInv ==
  /\ rows \in Seq(HarnessRows) /\ told \in Seq(HarnessTold) /\ Len(rows) = Len(told)
  /\ \A i \in 1..Len(told) : SameStory(rows[i], told[i])
  /\ last \in Harness!Routes \cup {"none"}
  /\ switches \in Seq(Harness!Routes \X Harness!Routes)
  /\ last = "none" => switches = <<>>
  /\ switches # <<>> => switches[Len(switches)][2] = last
  /\ \A i \in 1..Len(switches) : switches[i][1] # switches[i][2]
  /\ \A i \in 1..Len(switches) : i < Len(switches) => switches[i][2] = switches[i + 1][1]
  /\ \A i \in 1..Len(told) : AnsweredFor(told[i]) => Visited(told[i].route)

LEMMA HarnessInit == Harness!Init => HarnessInv
  BY DEF Harness!Init, HarnessInv, Harness!None

LEMMA ChainIsVisited ==
    ASSUME HarnessInv, switches # <<>>, NEW r, Visited(r) PROVE r \in Harness!ToSet(Harness!Chain)
  <1> DEFINE R == Harness!Routes
             a == <<switches[1][1]>>
             b == [i \in DOMAIN switches |-> switches[i][2]]
  <1>1. /\ Len(switches) \in Nat /\ Len(switches) >= 1 /\ DOMAIN switches = 1..Len(switches)
        /\ \A i \in 1..Len(switches) : switches[i] \in R \X R
    BY EmptySeq, ElementOfSeq DEF HarnessInv
  <1>2. a \in Seq(R) /\ Len(a) = 1 /\ a[1] = switches[1][1]
    BY <1>1
  <1>3. b \in Seq(R) /\ Len(b) = Len(switches) /\ \A i \in 1..Len(switches) : b[i] = switches[i][2]
    BY <1>1
  <1>4. Harness!Chain = a \o b
    BY DEF Harness!Chain
  <1> HIDE DEF a, b
  <1>5. /\ (a \o b) \in Seq(R) /\ Len(a \o b) = 1 + Len(switches)
        /\ \A i \in 1..(1 + Len(switches)) : (a \o b)[i] = IF i <= 1 THEN a[i] ELSE b[i - 1]
    BY ONLY <1>1, <1>2, <1>3, ConcatProperties
  <1>6. DOMAIN (a \o b) = 1..(1 + Len(switches))
    BY <1>1, <1>5
  <1>7. Harness!ToSet(a \o b) = {(a \o b)[i] : i \in DOMAIN (a \o b)}
    BY DEF Harness!ToSet
  <1>8. CASE r = switches[1][1]
    <2>1. 1 \in 1..(1 + Len(switches)) /\ (a \o b)[1] = r
      BY <1>1, <1>2, <1>5, <1>8
    <2> QED
      BY <2>1, <1>4, <1>6, <1>7
  <1>9. ASSUME NEW i \in 1..Len(switches), switches[i][2] = r PROVE r \in Harness!ToSet(Harness!Chain)
    <2>1. i + 1 \in 1..(1 + Len(switches)) /\ (a \o b)[i + 1] = r
      BY <1>1, <1>3, <1>5, <1>9
    <2> QED
      BY <2>1, <1>4, <1>6, <1>7
  <1> QED
    BY <1>8, <1>9 DEF Visited

LEMMA HarnessTells == HarnessInv => Harness!AuditTellsTheCalls
  <1> SUFFICES ASSUME HarnessInv PROVE Harness!AuditTellsTheCalls
    OBVIOUS
  <1>1. DOMAIN told = 1..Len(told) /\ DOMAIN switches = 1..Len(switches) /\ Len(rows) = Len(told)
    BY DEF HarnessInv
  <1>2. \A i \in DOMAIN told :
          /\ rows[i].route = told[i].route
          /\ rows[i].class = "cancelled" <=> told[i].envelope.class = "cancelled"
          /\ rows[i].class = "cancelled" => "cancelled" \in Harness!Types(told[i].envelope)
    BY <1>1 DEF HarnessInv, SameStory
  <1>3. \A i \in DOMAIN switches :
          /\ switches[i][1] # switches[i][2]
          /\ i < Len(switches) => switches[i][2] = switches[i + 1][1]
    BY <1>1 DEF HarnessInv
  <1>4. switches # <<>> => Harness!Last(switches)[2] = last
    BY DEF HarnessInv, Harness!Last
  <1>5. ASSUME NEW i \in Harness!Answered, NEW j \in Harness!Answered, told[i].route # told[j].route
        PROVE  {told[i].route, told[j].route} \subseteq Harness!ToSet(Harness!Chain)
    <2>1. Visited(told[i].route) /\ Visited(told[j].route)
      BY <1>1 DEF HarnessInv, Harness!Answered, AnsweredFor
    <2>2. switches # <<>>
      BY <1>5, <2>1 DEF Visited
    <2> QED
      BY <2>1, <2>2, ChainIsVisited
  <1> QED
    BY <1>1, <1>2, <1>3, <1>4, <1>5 DEF Harness!AuditTellsTheCalls

\* One more call is told, and its row added.
LEMMA TellKeeps ==
    ASSUME HarnessInv, NEW face \in Harness!Faces, NEW r \in Harness!Asked, NEW id \in NamedIds,
           NEW e \in Answerable, Harness!Tell(face, r, id, e),
           Harness!KeepsContracts(e),
           "cancelled" \in Harness!Types(e) /\ "failed" \notin Harness!Types(e) => e.class = "cancelled"
    PROVE  /\ rows' \in Seq(HarnessRows) /\ told' \in Seq(HarnessTold) /\ Len(rows') = Len(told')
           /\ \A i \in 1..Len(told') : SameStory(rows'[i], told'[i])
           /\ Len(told') = Len(told) + 1 /\ Len(told) \in Nat
           /\ \A i \in 1..Len(told) : told'[i] = told[i]
           /\ told'[Len(told) + 1].route = r /\ told'[Len(told) + 1].envelope = e
  <1> DEFINE y == IF face = "send" THEN [status |-> e.status, class |-> e.class]
                  ELSE Harness!FromChunks(e)
             row == [route |-> r, id |-> id, status |-> y.status, class |-> y.class]
             t == [face |-> face, route |-> r, id |-> id, envelope |-> e]
  <1>1. rows' = Append(rows, row) /\ told' = Append(told, t)
    BY DEF Harness!Tell
  <1>2. /\ y.status \in {x.status : x \in Answerable} \cup {"failed", "cancelled", "ok"}
        /\ y.class \in {x.class : x \in Answerable} \cup {"cancelled", "none"}
        /\ y.class = "cancelled" <=> e.class = "cancelled"
        /\ y.class = "cancelled" => "cancelled" \in Harness!Types(e)
    <2>1. CASE face = "send"
      BY <2>1 DEF Harness!KeepsContracts
    <2>2. CASE face # "send"
      BY <2>2 DEF Harness!KeepsContracts, Harness!FromChunks, Harness!None
    <2> QED
      BY <2>1, <2>2
  <1> HIDE DEF y
  <1>3. row \in HarnessRows /\ t \in HarnessTold
    BY <1>2 DEF HarnessRows, HarnessTold
  <1>4. SameStory(row, t) /\ t.route = r /\ t.envelope = e
    BY <1>2 DEF SameStory
  <1> HIDE DEF row, t
  <1>5. /\ rows' \in Seq(HarnessRows) /\ told' \in Seq(HarnessTold)
        /\ Len(rows') = Len(rows) + 1 /\ Len(told') = Len(told) + 1
        /\ Len(told) \in Nat /\ Len(rows) = Len(told)
        /\ \A i \in 1..Len(told) : rows'[i] = rows[i] /\ told'[i] = told[i]
        /\ rows'[Len(told) + 1] = row /\ told'[Len(told) + 1] = t
    BY <1>1, <1>3 DEF HarnessInv
  <1>6. ASSUME NEW i \in 1..Len(told') PROVE SameStory(rows'[i], told'[i])
    <2>1. CASE i = Len(told) + 1
      BY <1>4, <1>5, <2>1
    <2>2. CASE i # Len(told) + 1
      <3>1. i \in 1..Len(told)
        BY <1>5, <2>2
      <3> QED
        BY <3>1, <1>5 DEF HarnessInv
    <2> QED
      BY <2>1, <2>2
  <1> QED
    BY <1>4, <1>5, <1>6

\* A call that ended without an answer of an adapter.
LEMMA HarnessRefuses ==
    ASSUME HarnessInv, NEW face \in Harness!Faces, NEW r \in Harness!Asked, NEW id \in NamedIds,
           Harness!Tell(face, r, id, Harness!Failed("protocol")), UNCHANGED <<last, switches>>
    PROVE  HarnessInv'
  <1> DEFINE e == Harness!Failed("protocol")
  <1>1. e \in Answerable /\ e.chunks = <<[seq |-> 1, type |-> "failed"]>> /\ e.class = "protocol"
    BY DEF Answerable, Harness!Failed, Harness!Envelope, Harness!Chunk
  <1>2. "failed" \in Harness!Types(e) /\ Harness!KeepsContracts(e)
    BY <1>1 DEF Harness!Types, Harness!KeepsContracts, Harness!Monotonic, Harness!Classes
  <1>3. /\ rows' \in Seq(HarnessRows) /\ told' \in Seq(HarnessTold) /\ Len(rows') = Len(told')
        /\ \A i \in 1..Len(told') : SameStory(rows'[i], told'[i])
        /\ Len(told') = Len(told) + 1 /\ Len(told) \in Nat
        /\ \A i \in 1..Len(told) : told'[i] = told[i]
        /\ told'[Len(told) + 1].envelope = e
    BY <1>1, <1>2, TellKeeps
  <1> HIDE DEF e
  <1>4. ASSUME NEW i \in 1..Len(told'), AnsweredFor(told[i])' PROVE Visited(told[i].route)'
    <2>1. i # Len(told) + 1
      BY <1>3, <1>4 DEF AnsweredFor, e
    <2>2. i \in 1..Len(told) /\ told'[i] = told[i]
      BY <1>3, <2>1
    <2>3. AnsweredFor(told[i])
      BY <1>4, <2>2 DEF AnsweredFor, Harness!Reaches
    <2>4. Visited(told[i].route)
      BY <2>2, <2>3 DEF HarnessInv
    <2> QED
      BY <2>2, <2>4 DEF Visited
  <1> QED
    BY <1>3, <1>4 DEF HarnessInv

\* A route is used, and the switch to it noted.
LEMMA NotedKeeps ==
    ASSUME HarnessInv, NEW r \in Harness!Routes, switches' = Harness!Noted(r), last' = r
    PROVE  /\ switches' \in Seq(Harness!Routes \X Harness!Routes)
           /\ switches' # <<>> => switches'[Len(switches')][2] = r
           /\ \A i \in 1..Len(switches') : switches'[i][1] # switches'[i][2]
           /\ \A i \in 1..Len(switches') : i < Len(switches') =>
                switches'[i][2] = switches'[i + 1][1]
           /\ \A s \in Harness!Routes : Visited(s) \/ s = r => Visited(s)'
  <1> DEFINE n == Len(switches)
             p == <<last, r>>
  <1>1. CASE last \in {"none", r}
    <2>1. switches' = switches
      BY <1>1 DEF Harness!Noted, Harness!None
    <2>2. Visited(r)'
      <3>1. CASE switches = <<>>
        BY <2>1, <3>1 DEF Visited
      <3>2. CASE switches # <<>>
        <4>1. n \in 1..n /\ switches[n][2] = last /\ last # "none"
          BY <3>2, EmptySeq DEF HarnessInv
        <4> QED
          BY <1>1, <2>1, <3>2, <4>1 DEF Visited
      <3> QED
        BY <3>1, <3>2
    <2>3. ASSUME NEW s \in Harness!Routes, Visited(s) PROVE Visited(s)'
      <3>1. CASE switches = <<>>
        BY <1>1, <2>1, <2>2, <2>3, <3>1, HarnessAssumption DEF Visited, Harness!Routes
      <3>2. CASE switches # <<>>
        BY <2>1, <2>3, <3>2 DEF Visited
      <3> QED
        BY <3>1, <3>2
    <2>4. switches # <<>> => switches[n][2] = r
      BY <1>1 DEF HarnessInv
    <2> QED
      BY <2>1, <2>2, <2>3, <2>4 DEF HarnessInv
  <1>2. CASE last \notin {"none", r}
    <2>1. last \in Harness!Routes /\ p \in Harness!Routes \X Harness!Routes
      BY <1>2 DEF HarnessInv
    <2>2. switches' = Append(switches, p)
      BY <1>2 DEF Harness!Noted, Harness!None
    <2>3. p[1] = last /\ p[2] = r /\ p[1] # p[2]
      BY <1>2
    <2> HIDE DEF p
    <2>4. /\ switches' \in Seq(Harness!Routes \X Harness!Routes) /\ n \in Nat
          /\ Len(switches') = n + 1 /\ switches'[n + 1] = p /\ switches' # <<>>
          /\ \A i \in 1..n : switches'[i] = switches[i]
      BY <2>1, <2>2, EmptySeq DEF HarnessInv
    <2>5. ASSUME NEW i \in 1..(n + 1) PROVE switches'[i][1] # switches'[i][2]
      <3>1. CASE i = n + 1
        BY <2>3, <2>4, <3>1
      <3>2. CASE i # n + 1
        BY <2>4, <3>2 DEF HarnessInv
      <3> QED
        BY <3>1, <3>2
    <2>6. ASSUME NEW i \in 1..(n + 1), i < n + 1 PROVE switches'[i][2] = switches'[i + 1][1]
      <3>1. i \in 1..n /\ switches'[i] = switches[i]
        BY <2>4, <2>6
      <3>2. CASE i = n
        <4>1. switches # <<>>
          BY <2>4, <3>1, <3>2, EmptySeq
        <4> QED
          BY <2>3, <2>4, <3>1, <3>2, <4>1 DEF HarnessInv
      <3>3. CASE i # n
        <4>1. i < n /\ i + 1 \in 1..n
          BY <2>4, <3>1, <3>3
        <4> QED
          BY <2>4, <3>1, <4>1 DEF HarnessInv
      <3> QED
        BY <3>2, <3>3
    <2>7. ASSUME NEW s, Visited(s) \/ s = r PROVE Visited(s)'
      <3>1. n + 1 \in 1..(n + 1) /\ 1 \in 1..(n + 1)
        BY <2>4
      <3>2. CASE s = r
        BY <2>3, <2>4, <3>1, <3>2 DEF Visited
      <3>3. CASE switches = <<>> /\ s = last
        <4>1. switches'[1] = p
          BY <2>4, <3>3, EmptySeq
        <4> QED
          BY <2>3, <2>4, <3>3, <4>1 DEF Visited
      <3>4. CASE switches # <<>> /\ s = switches[1][1]
        <4>1. switches'[1] = switches[1]
          BY <2>4, <3>4, EmptySeq
        <4> QED
          BY <2>4, <3>4, <4>1 DEF Visited
      <3>5. CASE switches # <<>> /\ \E i \in 1..n : switches[i][2] = s
        <4>1. PICK i \in 1..n : switches[i][2] = s
          BY <3>5
        <4>2. i \in 1..(n + 1) /\ switches'[i][2] = s
          BY <2>4, <4>1
        <4> QED
          BY <2>4, <4>2 DEF Visited
      <3> QED
        BY <2>7, <3>2, <3>3, <3>4, <3>5 DEF Visited
    <2> QED
      BY <2>3, <2>4, <2>5, <2>6, <2>7
  <1> QED
    BY <1>1, <1>2

\* The adapters' own envelopes keep the cancel contract.
LEMMA OwnEnvelopes ==
    ASSUME CancelsAreClassed,
           NEW e \in Envelopes \cup {Harness!Acked, Harness!StubAnswer, Harness!EchoAnswer}
    PROVE  /\ e \in Answerable
           /\ "cancelled" \in Harness!Types(e) /\ "failed" \notin Harness!Types(e) =>
                e.class = "cancelled"
  <1>1. e \in Answerable
    BY DEF Answerable
  <1>2. CASE e \in Envelopes
    BY <1>1, <1>2 DEF CancelsAreClassed
  <1>3. CASE e = Harness!Acked
    BY <1>1, <1>3 DEF Harness!Acked, Harness!Envelope
  <1>4. CASE e = Harness!EchoAnswer
    <2>1. e.chunks = <<[seq |-> 1, type |-> "done"]>>
      BY <1>4 DEF Harness!EchoAnswer, Harness!Envelope, Harness!Chunk
    <2>2. "cancelled" \notin Harness!Types(e)
      BY <2>1 DEF Harness!Types
    <2> QED
      BY <1>1, <2>2
  <1>5. CASE e = Harness!StubAnswer
    <2>1. e.chunks = <<[seq |-> 1, type |-> "delta"], [seq |-> 2, type |-> "usage"],
                       [seq |-> 3, type |-> "done"]>>
      BY <1>5 DEF Harness!StubAnswer, Harness!Envelope, Harness!Chunk
    <2>2. "cancelled" \notin Harness!Types(e)
      BY <2>1 DEF Harness!Types
    <2> QED
      BY <1>1, <2>2
  <1> QED
    BY <1>2, <1>3, <1>4, <1>5

LEMMA AskKeeps ==
    ASSUME CancelsAreClassed, HarnessInv, NEW face \in Harness!Faces, NEW r \in Harness!Asked,
           NEW id \in Ids,
           NEW e \in Envelopes \cup {Harness!Acked, Harness!StubAnswer, Harness!EchoAnswer},
           Harness!Ask(face, r, id, e)
    PROVE  HarnessInv'
  <1>1. r \in Harness!Routes /\ switches' = Harness!Noted(r) /\ last' = r
    BY DEF Harness!Ask, Harness!Reaches
  <1>2. /\ switches' \in Seq(Harness!Routes \X Harness!Routes)
        /\ switches' # <<>> => switches'[Len(switches')][2] = r
        /\ \A i \in 1..Len(switches') : switches'[i][1] # switches'[i][2]
        /\ \A i \in 1..Len(switches') : i < Len(switches') =>
             switches'[i][2] = switches'[i + 1][1]
        /\ \A s \in Harness!Routes : Visited(s) \/ s = r => Visited(s)'
    BY <1>1, NotedKeeps
  <1>3. last' \in Harness!Routes \cup {"none"} /\ last' # "none"
    BY <1>1, HarnessAssumption DEF Harness!Routes
  <1>4. CASE UNCHANGED <<rows, told>>
    <2>1. ASSUME NEW i \in 1..Len(told), AnsweredFor(told[i]) PROVE Visited(told[i].route)'
      <3>1. told[i].route \in Harness!Routes /\ Visited(told[i].route)
        BY <2>1 DEF HarnessInv, AnsweredFor
      <3> QED
        BY <1>2, <1>4, <3>1
    <2> QED
      BY <1>1, <1>2, <1>3, <1>4, <2>1 DEF HarnessInv, AnsweredFor, Harness!Reaches
  <1>5. CASE Harness!KeepsContracts(e) /\ Harness!Tell(face, r, id, e)
    <2>1. /\ e \in Answerable /\ id \in NamedIds
          /\ "cancelled" \in Harness!Types(e) /\ "failed" \notin Harness!Types(e) =>
               e.class = "cancelled"
      BY OwnEnvelopes DEF NamedIds
    <2>2. /\ rows' \in Seq(HarnessRows) /\ told' \in Seq(HarnessTold) /\ Len(rows') = Len(told')
          /\ \A i \in 1..Len(told') : SameStory(rows'[i], told'[i])
          /\ Len(told') = Len(told) + 1 /\ Len(told) \in Nat
          /\ \A i \in 1..Len(told) : told'[i] = told[i]
          /\ told'[Len(told) + 1].route = r
      BY <1>5, <2>1, TellKeeps
    <2>3. ASSUME NEW i \in 1..Len(told'), AnsweredFor(told[i])' PROVE Visited(told[i].route)'
      <3>1. CASE i = Len(told) + 1
        BY <1>1, <1>2, <2>2, <3>1
      <3>2. CASE i # Len(told) + 1
        <4>1. i \in 1..Len(told) /\ told'[i] = told[i]
          BY <2>2, <3>2
        <4>2. AnsweredFor(told[i])
          BY <2>3, <4>1 DEF AnsweredFor, Harness!Reaches
        <4>3. told[i].route \in Harness!Routes /\ Visited(told[i].route)
          BY <4>1, <4>2 DEF HarnessInv, AnsweredFor
        <4> QED
          BY <1>2, <4>1, <4>3
      <3> QED
        BY <3>1, <3>2
    <2> QED
      BY <1>1, <1>2, <1>3, <2>2, <2>3 DEF HarnessInv
  <1> QED
    BY <1>4, <1>5 DEF Harness!Ask

LEMMA HarnessNextKeeps ==
    ASSUME CancelsAreClassed, HarnessInv, [Harness!Next]_(Harness!vars) PROVE HarnessInv'
  <1>1. ASSUME NEW face \in Harness!Faces, NEW r \in Harness!Asked, NEW id \in Ids,
               Harness!Call(face, r, id)
        PROVE  HarnessInv'
    <2>1. CASE Harness!Expired(face, r, id)
      <3>1. id \in NamedIds
        BY DEF NamedIds
      <3> QED
        BY <2>1, <3>1, HarnessRefuses DEF Harness!Expired
    <2>2. CASE Harness!NotResolved(face, r, id)
      <3>1. (IF face = "send" THEN "" ELSE id) \in NamedIds
        BY DEF NamedIds
      <3> QED
        BY <2>2, <3>1, HarnessRefuses DEF Harness!NotResolved
    <2>3. ASSUME NEW e \in Envelopes \cup {Harness!Acked, Harness!StubAnswer, Harness!EchoAnswer},
                 Harness!Ask(face, r, id, e)
          PROVE  HarnessInv'
      BY <2>3, AskKeeps
    <2> QED
      BY <1>1, <2>1, <2>2, <2>3 DEF Harness!Call
  <1>2. CASE UNCHANGED <<rows, told, last, switches>>
    BY <1>2 DEF HarnessInv, Visited, AnsweredFor, Harness!Reaches
  <1>3. ASSUME NEW b \in Adapters, NEW id \in Ids, Harness!Cancel(b, id) PROVE HarnessInv'
    BY <1>2, <1>3 DEF Harness!Cancel
  <1>4. CASE Harness!Expire
    BY <1>2, <1>4 DEF Harness!Expire
  <1>5. CASE UNCHANGED Harness!vars
    BY <1>2, <1>5 DEF Harness!vars
  <1> QED
    BY <1>1, <1>3, <1>4, <1>5 DEF Harness!Next

\* The audit and the callers are told one story, whatever the backends answer: every call
\* that was answered has its row, a cancel is a cancel on both faces and was acknowledged,
\* and the switches lead without a gap over every route that answered to the one in use:
\* HarnessRouter's send and stream, over adapters that keep the cancel contract.
THEOREM HarnessAuditTells ==
    ASSUME CancelsAreClassed PROVE Spec => []AuditTellsTheCalls
  <1>1. Init => HarnessInv
    BY HarnessInit DEF Init
  <1>2. HarnessInv /\ [Next]_vars => HarnessInv'
    BY HarnessNextKeeps, HarnessSteps
  <1>3. HarnessInv => AuditTellsTheCalls
    BY HarnessTells DEF AuditTellsTheCalls
  <1> QED
    BY <1>1, <1>2, <1>3, PTL DEF Spec
=============================================================================
