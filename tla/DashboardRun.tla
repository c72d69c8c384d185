------------------------------ MODULE DashboardRun ------------------------------
(***************************************************************************)
(* A POST of the dashboard: the request is checked, the limits are read from *)
(* the status of the API, the scenario is compared through a recording       *)
(* decision provider, every decision is explained from the limits that were  *)
(* read, and the document or a problem is answered.  The controller's answer *)
(* carries no reason: the explanation recomputes the rule, with limits that  *)
(* were read before the first decision and need no longer hold.              *)
(***************************************************************************)
EXTENDS ScenarioComparison

CONSTANTS
    OtherLimits,        \* limits of a backend that was replaced after its status was read
    NotAsked,           \* the status has not been read
    NoLimits,           \* the status was not available or had no limits
    Unusable,           \* the status had something that the conversion raises for
    MatchTolerance      \* by how much a power may miss the candidate it is taken for

ASSUME DashboardAssumption ==
    /\ OtherLimits \subseteq [maxCharge: Nat, maxDischarge: Nat, minSoc: Nat, maxSoc: Nat]
    /\ \A limits \in OtherLimits : LimitsValid(limits)
    /\ {NotAsked, NoLimits, Unusable} \cap ({Limits} \cup OtherLimits) = {}
    /\ Unusable \notin {NotAsked, NoLimits}
    /\ MatchTolerance \in Nat

VARIABLES
    request,        \* what do_POST and _read_scenario_name see of the request
    reported,       \* the limits that were read, once they were
    exchanges,      \* the decisions the recording provider has passed on
    response,       \* "none", the status of the answer, or "Dropped" without one
    document        \* the explanation codes of the answered document

serviceVars == <<request, reported, exchanges, response, document>>
runVars == <<vars, refVars, serviceVars>>

\* The path, whether the declared length is a number the server accepts, whether the
\* type is JSON, and the scenario named: none when the body is malformed.
Request == [path: {"runs", "other"}, sized: BOOLEAN, json: BOOLEAN,
            name: {"known", "unknown", "none"}]

DashboardInit ==
    /\ ComparisonInit
    /\ request \in Request
    /\ reported = NotAsked
    /\ exchanges = <<>>
    /\ response = "none"
    /\ document = <<>>

-----------------------------------------------------------------------------
(* The explanation of a decision.                                            *)

\* The powers the controller takes the minimum of, in the order of the source.
Candidates(limits, m) ==
    IF m.net > 0
    THEN << [code |-> "covers-surplus", power |-> PowerOver(m.net, m.hours)],
            [code |-> "max-charge-power", power |-> limits.maxCharge],
            [code |-> "soc-maximum",
             power |-> PowerOver(Greatest(0, limits.maxSoc - m.soc), m.hours)] >>
    ELSE << [code |-> "covers-deficit", power |-> PowerOver(-m.net, m.hours)],
            [code |-> "max-discharge-power", power |-> limits.maxDischarge],
            [code |-> "soc-minimum",
             power |-> PowerOver(Greatest(0, m.soc - limits.minSoc), m.hours)] >>

\* Mutant: of equal candidates the last one is named.
BindingLast(candidates) ==
    candidates[CHOOSE i \in DOMAIN candidates :
        \A j \in DOMAIN candidates :
            \/ candidates[i].power < candidates[j].power
            \/ candidates[i].power = candidates[j].power /\ i >= j]

\* The smallest candidate, the first one of equals.
Binding(candidates) ==
    candidates[CHOOSE i \in DOMAIN candidates :
        \A j \in DOMAIN candidates :
            \/ candidates[i].power < candidates[j].power
            \/ candidates[i].power = candidates[j].power /\ i <= j]

\* Mutant: any action that moves the right power is taken for the expected one.
ExplainPower(limits, m, d) ==
    IF Magnitude(m.net) <= BalanceTolerance THEN "balanced"
    ELSE IF limits = NoLimits THEN "limits-unknown"
    ELSE LET binding == Binding(Candidates(limits, m))
         IN  IF d.action = "Idle" /\ binding.power <= MatchTolerance
             THEN IF m.net > 0 THEN "battery-full" ELSE "battery-at-minimum"
             ELSE IF d.power # NaN /\ Magnitude(d.power - binding.power) <= MatchTolerance
             THEN binding.code
             ELSE "unexplained"

Explain(limits, m, d) ==
    IF Magnitude(m.net) <= BalanceTolerance THEN "balanced"
    ELSE IF limits = NoLimits THEN "limits-unknown"
    ELSE LET binding == Binding(Candidates(limits, m))
             expected == IF m.net > 0 THEN "ChargeBattery" ELSE "DischargeBattery"
         IN  IF d.action = "Idle" /\ binding.power <= MatchTolerance
             THEN IF m.net > 0 THEN "battery-full" ELSE "battery-at-minimum"
             ELSE IF /\ d.action = expected /\ d.power # NaN
                     /\ Magnitude(d.power - binding.power) <= MatchTolerance
             THEN binding.code
             ELSE "unexplained"

-----------------------------------------------------------------------------
(* DashboardService.run, and what do_POST answers.                           *)

Answered(status) == response' = status

\* The first check that fails names the answer; the body is read only after the others.
Refusal ==
    CASE request.path # "runs"    -> "NotFound"
      [] ~request.sized           -> "BadRequest"
      [] ~request.json            -> "UnsupportedMediaType"
      [] request.name = "none"    -> "BadRequest"
      [] request.name = "unknown" -> "NotFound"
      [] OTHER                    -> "none"

RefuseRequest ==
    /\ Refusal # "none" /\ response = "none"
    /\ Answered(Refusal)
    /\ UNCHANGED <<vars, refVars, request, reported, exchanges, document>>

\* What a status can come to in from_status and in run: what is missing, or is not a
\* number, makes NoLimits; a limit that overflows a float raises, and so does a controller
\* that is neither missing nor an object.
Reports == {Limits, NoLimits, Unusable} \cup OtherLimits

\* The status is read before the runs; it is converted after them (Complete).
ReadStatus ==
    /\ Refusal = "none" /\ response = "none" /\ reported = NotAsked
    /\ reported' \in Reports
    /\ UNCHANGED <<vars, refVars, request, exchanges, response, document>>

\* get_status lets an exception pass that is no ControlApiError, and so does the handler.
StatusRaises ==
    /\ Refusal = "none" /\ response = "none" /\ reported = NotAsked
    /\ Answered("Dropped")
    /\ UNCHANGED <<vars, refVars, request, reported, exchanges, document>>

Running == reported # NotAsked /\ response = "none"

\* Mutant: only a decision that moves energy is recorded.
ExchangeMoving(answer) ==
    /\ Running
    /\ answer
    /\ exchanges' = IF pc' = "apply" /\ decision'.action # "Idle"
                    THEN Append(exchanges, decision') ELSE exchanges
    /\ UNCHANGED <<refVars, request, reported, response, document>>

\* A decision that leaves the API client is recorded, a failure is not.
Exchange(answer) ==
    /\ Running
    /\ answer
    /\ exchanges' = IF pc' = "apply" THEN Append(exchanges, decision') ELSE exchanges
    /\ UNCHANGED <<refVars, request, reported, response, document>>

RunPlant ==
    /\ Running
    /\ PlantStep \/ RefuseAction \/ ApplyNotANumber \/ ProviderFails
    /\ UNCHANGED <<refVars, serviceVars>>

RunReference ==
    /\ Running
    /\ ReferenceRun
    /\ UNCHANGED serviceVars

Explanations ==
    [i \in 1 .. Len(steps) |->
        Explain(reported, steps[i].step.measurement, steps[i].step.decision)]

\* Both runs have a result: the document is built, if the status can be converted and
\* there is an exchange for every interval, and answered.
Complete ==
    /\ Running
    /\ refOutcome = "result"
    /\ IF reported # Unusable /\ Len(exchanges) = Len(steps)
       THEN Answered("OK") /\ document' = Explanations
       ELSE Answered("Dropped") /\ UNCHANGED document
    /\ UNCHANGED <<vars, refVars, request, reported, exchanges>>

\* A ControlApiError is answered as a problem, any other exception ends the handler.
Fail ==
    /\ Running
    /\ outcome \notin {"none", "result"} \/ refOutcome = "ValueError"
    /\ Answered(IF outcome \in {"ControlApiError", "ControlApiStatusError"}
                THEN "BadGateway" ELSE "Dropped")
    /\ UNCHANGED <<vars, refVars, request, reported, exchanges, document>>

Serve ==
    \/ RefuseRequest \/ ReadStatus \/ StatusRaises
    \/ RunPlant \/ RunReference
    \/ Complete \/ Fail

DashboardNext == Serve \/ Exchange(ControllerAnswers)

\* The C++ controller behind the API.
Dashboard == DashboardInit /\ [][DashboardNext]_runVars

\* A backend that may answer as the controller does, and in any other way.
OpenDashboardNext == DashboardNext \/ \E d \in WireDecisions : Exchange(Answer(d))
OpenDashboard == DashboardInit /\ [][OpenDashboardNext]_runVars

-----------------------------------------------------------------------------
(* Properties.                                                               *)

Explained == 1 .. Len(document)

\* An interval is given a limit as its reason exactly when the C++ rule with the
\* limits that were read would have moved the same power in the same direction: the
\* Python explanation and the C++ controller are two implementations of one rule, and
\* no other decision passes for one of it.
ExplainsTheRule ==
    \A i \in Explained :
        LET m == steps[i].step.measurement
            d == steps[i].step.decision
            direction == IF m.net > 0 THEN "ChargeBattery" ELSE "DischargeBattery"
            moved == IF d.action = "Idle" THEN 0 ELSE d.power
        IN  document[i] \notin {"balanced", "limits-unknown"} =>
                (document[i] # "unexplained" <=>
                    /\ d.action \in {"Idle", direction}
                    /\ Magnitude(moved - Decide(reported, m).power) <= MatchTolerance)

\* What a reason says about the interval, for the limits and the flows of the plant.
ReasonHolds(code, s, limits) ==
    LET hours == s.measurement.hours
        outside == s.imported + s.exported + s.curtailed + s.unserved
    IN  CASE code = "balanced" -> s.charged + s.discharged + outside = 0
          [] code \in {"covers-surplus", "covers-deficit"} -> outside = 0
          [] code = "max-charge-power" ->
                outside > 0 /\ s.charged = EnergyOver(limits.maxCharge, hours)
          [] code = "max-discharge-power" ->
                outside > 0 /\ s.discharged = EnergyOver(limits.maxDischarge, hours)
          [] code = "soc-maximum" -> outside > 0 /\ s.after = limits.maxSoc
          [] code = "soc-minimum" -> outside > 0 /\ s.after = limits.minSoc
          [] code = "battery-full" -> s.charged = 0 /\ s.after >= limits.maxSoc
          [] code = "battery-at-minimum" -> s.discharged = 0 /\ s.after <= limits.minSoc
          [] OTHER -> FALSE

\* An interval that the controller has decided with the limits that were read is
\* explained, and by what the plant then did, when the battery is as large as the
\* controller takes it for (docs/dashboard.md, "How a decision is explained").
ReasonsHold ==
    reported = Limits /\ Limits.maxSoc <= scenario.battery.capacity =>
        \A i \in Explained :
            LET s == steps[i].step
            IN  s.decision = Decide(Limits, s.measurement) =>
                    ReasonHolds(document[i], s, Limits)

\* A document has a decision, an explanation and a reference for every interval of the
\* scenario, and its exchanges are those the plant has applied; a ControlApiError is a
\* bad gateway; and the handler ends without an answer to send only when the client let
\* another exception pass, when the API answered with what is not a number, or when two
\* finished runs are given up for a status that cannot be converted: never because of the
\* reference, the pairing of exchanges and steps, or the plant's own arithmetic.
DocumentComplete ==
    /\ response = "OK" =>
        /\ Len(document) = Len(scenario.steps) /\ Len(refResults) = Len(scenario.steps)
        /\ \A i \in Explained : exchanges[i] = steps[i].step.decision
    /\ response = "BadGateway" => outcome \in {"ControlApiError", "ControlApiStatusError"}
    /\ response = "Dropped" =>
        \/ reported = NotAsked
        \/ outcome = "OtherError"
        \/ outcome = "AssertionError" /\ decision.power = NaN
        \/ reported = Unusable /\ outcome = "result" /\ refOutcome = "result"

\* "so the deficit is imported" (dashboard.py): the reason of an idle battery at its
\* minimum.
IdleDeficitImported ==
    \A i \in Explained :
        document[i] = "battery-at-minimum" => steps[i].step.unserved = 0

=============================================================================
