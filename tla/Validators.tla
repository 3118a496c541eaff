------------------------------ MODULE Validators ------------------------------
(***************************************************************************)
(* The gate every document passes (server/pipeline/validators).            *)
(*                                                                         *)
(* A gate looks at ctx = [rec, calls, cases]: the recording, the log of    *)
(* the tools and the assembled document, whose cases are those of Assembly *)
(* with an id, their omissions, the claim of a bug report and suggestions  *)
(* [text, basedOn].  Its report is a sequence of [validator, status,       *)
(* action].  A text with one of the words of Secrets looks like a secret.  *)
(* That the rendered file parses is the business of Gherkin, and left out  *)
(* here, as are the messages.                                              *)
(***************************************************************************)
EXTENDS Evidence, Assembly

CONSTANT Secrets

Result(validator, status, action) ==
    <<[validator |-> validator, status |-> status, action |-> action]>>

Passed(validator)   == Result(validator, "pass", "none")
Skipped(validator)  == Result(validator, "skip", "none")
Rejection(validator) == Result(validator, "fail", "reject")

---------------------------------------------------------------------------
(* What a document claims. *)
NoBug == [step |-> <<>>, call |-> 0]

\* The first flagged step with an accepted claim, proved or not.
BugDetail(scenario) ==
    LET failing == SelectSeq(scenario, LAMBDA step : step.bug /\ Asserts(step))
        claims == SelectSeq(failing[1].claims, LAMBDA claim : claim.accepted)
    IN IF failing = <<>> THEN NoBug ELSE [claims[1] EXCEPT !.id = failing[1].id]

\* _assemble with what the gate looks at: the omissions go to the first case.
IR(drafted, openers) ==
    LET scenarios == SelectSeq(SplitOnDeclaredBreaks(drafted.scenarios, openers),
                               LAMBDA steps : steps # <<>>)
        cases == Assemble(drafted.scenarios, openers)
    IN [n \in DOMAIN cases |->
          [id |-> n, kind |-> cases[n].kind, pre |-> cases[n].pre, steps |-> cases[n].steps,
           bug |-> BugDetail(scenarios[n]), suggestions |-> <<>>,
           omitted |-> IF n = 1 THEN drafted.omitted ELSE <<>>]]

\* The evidence of a bug report is a claim of its own, as long as its step was
\* not folded into another one.
BugClaim(case) ==
    IF case.bug # NoBug /\ case.bug.call # 0
       /\ \E i \in DOMAIN case.steps : case.steps[i].id = case.bug.id
    THEN <<case.bug>> ELSE <<>>

StepClaims(case) == FlattenSeq([i \in DOMAIN case.steps |-> case.steps[i].claims])

\* What the gate can check: a claim nobody could bind is no claim to it.
Claims(cases) ==
    FlattenSeq([n \in DOMAIN cases |->
        SelectSeq(StepClaims(cases[n]), LAMBDA claim : claim.status # "unproved")
            \o BugClaim(cases[n])])

---------------------------------------------------------------------------
(* The validators. *)
Supported(calls, claim) ==
    IF claim.call \notin DOMAIN calls \/ calls[claim.call].stored # calls[claim.call].got THEN "false"
    ELSE Evaluate(calls[claim.call].stored, claim.literal, claim.predicate)

EvidenceRetrieved(ctx) ==
    LET cited == SelectSeq(Claims(ctx.cases), LAMBDA claim : claim.call # 0)
        One(claim) == CASE Supported(ctx.calls, claim) = "false"  -> Rejection("evidence_retrieved")
                        [] Supported(ctx.calls, claim) = "cannot" -> Result("evidence_retrieved", "warn", "none")
                        [] OTHER                                  -> <<>>
    IN FlattenSeq([k \in DOMAIN cited |-> One(cited[k])])
       \o IF cited = <<>> THEN Skipped("evidence_retrieved") ELSE Passed("evidence_retrieved")

\* The events of a case that more than one of its steps claims, and all those
\* that a step or an omission accounts for.  Preconditions are copies of steps
\* of an earlier case (run.py) and add no event.
Twice(case) ==
    {id \in UNION {case.steps[i].events : i \in DOMAIN case.steps} :
        Cardinality({i \in DOMAIN case.steps : id \in case.steps[i].events}) > 1}

Covered(case) ==
    UNION {case.steps[i].events : i \in DOMAIN case.steps}
        \cup UNION {ToSet(case.omitted[i]) : i \in DOMAIN case.omitted}

EventCoverage(ctx) ==
    LET covered == UNION {Covered(ctx.cases[n]) : n \in DOMAIN ctx.cases}
    IN CASE ctx.rec.events = <<>> -> Skipped("event_coverage")
         [] (\E n \in DOMAIN ctx.cases : Twice(ctx.cases[n]) # {}) \/ covered # Ids(ctx.rec)
                                  -> Rejection("event_coverage")
         [] OTHER                 -> Passed("event_coverage")

\* The texts of a document: what the dump of a case has, and what is rendered.
CaseTexts(case) ==
    {case.steps[i].text : i \in DOMAIN case.steps} \cup ToSet(case.pre)
        \cup UNION {{claim.text, claim.literal} : claim \in ToSet(StepClaims(case))}

NoPlaceholderLeak(ctx) ==
    LET leak == \E n \in DOMAIN ctx.cases : \E text \in CaseTexts(ctx.cases[n]) : text \cap Secrets # {}
    IN CASE ~leak             -> Passed("no_placeholder_leak")
         [] ctx.rec.redacted  -> Result("no_placeholder_leak", "fail", "hard_fail")
         [] OTHER             -> Result("no_placeholder_leak", "warn", "none")

Feature(case) ==
    LET lines == LayOut(case.steps)
    IN UNION {lines[i].text : i \in DOMAIN lines} \cup UNION ToSet(case.pre)

\* A suggestion whose every word stands in the feature is that feature again.
ReadsBackAsStep(text, case) == text # {} /\ text \subseteq Feature(case)

\* What a suggestion may rest on: events, retrievals and steps of this run.
Grounded(ctx, basedOn) ==
    /\ basedOn.events \subseteq Ids(ctx.rec)
    /\ basedOn.calls \subseteq DOMAIN ctx.calls
    /\ basedOn.steps \subseteq UNION {{case.steps[i].id : i \in DOMAIN case.steps} : case \in ToSet(ctx.cases)}

SuggestionsQuarantined(ctx) ==
    LET all == FlattenSeq([n \in DOMAIN ctx.cases |->
                   [k \in DOMAIN ctx.cases[n].suggestions |->
                       [case |-> ctx.cases[n], suggestion |-> ctx.cases[n].suggestions[k]]]])
        Offends(one) == \/ one.case.kind = "bug_report"
                        \/ ReadsBackAsStep(one.suggestion.text, one.case)
                        \/ ~Grounded(ctx, one.suggestion.basedOn)
        offences == SelectSeq(all, Offends)
    IN CASE all = <<>>      -> Skipped("suggestions_quarantined")
         [] offences = <<>> -> Passed("suggestions_quarantined")
         [] OTHER -> FlattenSeq([k \in DOMAIN offences |-> Rejection("suggestions_quarantined")])

Validate(ctx) ==
    EvidenceRetrieved(ctx) \o EventCoverage(ctx) \o NoPlaceholderLeak(ctx)
        \o SuggestionsQuarantined(ctx)

By(report, validator) == SelectSeq(report, LAMBDA r : r.validator = validator)
WasRejected(report) == \E i \in DOMAIN report : report[i].action = "reject"
=============================================================================
