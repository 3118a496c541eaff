------------------------------- MODULE Authoring -------------------------------
(***************************************************************************)
(* From what the author answers to the document it drafted                 *)
(* (server/pipeline/author.py, featurefile.py): the feature file is lined  *)
(* up with its annotations, every expected result is bound to a retrieval  *)
(* or refused, and without a usable answer every event becomes a step.     *)
(*                                                                         *)
(*   answer      [lines, annotations, steps, scenarios, omitted]           *)
(*   lines       of the feature file, scenario by scenario, those of a     *)
(*               Background apart; <<>> when there is no file that parses  *)
(*   annotation  [line, id, kind, role, events, literal, event, predicate, *)
(*               whyNot, bug], a raw step the same with its sentence for   *)
(*               the line and with expected                                *)
(*   expectation [events, source]                                          *)
(*   b           [calls, cited, rescues, refused], the log of the run and  *)
(*               what the author may cite of it                            *)
(*   step        [id, keyword, role, text, events, claims, whyNot, bug,    *)
(*               low], as Assembly takes it                                *)
(*                                                                         *)
(* Ids are sequences of parts.  Titles, descriptions, tags, example        *)
(* tables, the wording of refusals and the prompts are left out.           *)
(***************************************************************************)
EXTENDS Evidence

CONSTANTS
    RescueBudget,   \* retrievals a document may cost on top (author.py:101)
    IntentWindow,   \* how near narration has to be  (expectations.py:86)
    SettleTail      \* how long an event lasts       (author.py:250)

Blank == [line |-> {}, id |-> <<>>, kind |-> "", role |-> "test_step", events |-> <<>>,
          literal |-> {}, event |-> "none", predicate |-> NoPredicate,
          whyNot |-> "", bug |-> FALSE]

---------------------------------------------------------------------------
(* What a claim rests on. *)
AssertionId(step) == <<"assert", Last(step.id), Len(step.claims) + 1>>

Provenance(rec, expectations, step) ==
    LET covers(item) == Range(item.events) \cap Range(step.events) # {}
        times == {Event(rec, id).time : id \in Range(step.events)}
        from == IF Min(times) > IntentWindow THEN Min(times) - IntentWindow ELSE 0
    IN IF \E item \in expectations : covers(item) /\ item.source \in {"confirmed", "corrected"}
       THEN "confirmed"
       ELSE IF \E note \in Range(rec.annotations) : note.event \in Range(step.events)
       THEN "annotated"
       ELSE IF step.events # <<>> /\ NarratedIn(rec, from, Max(times) + IntentWindow) # <<>>
       THEN "narrated"
       ELSE IF rec.objective THEN "objective" ELSE "inferred"

\* What every claim has, proved or not.
NewClaim(ctx, step, text) ==
    [id |-> AssertionId(step), text |-> text, accepted |-> TRUE, status |-> "unproved",
     by |-> Provenance(ctx.rec, ctx.expectations, step), literal |-> {}, call |-> 0,
     event |-> "none", predicate |-> NoPredicate, unresolved |-> FALSE, strength |-> "none",
     why |-> "none"]

\* The event a claim is about: the one it names, or the last of its step.
ClaimedEvent(rec, step, raw) ==
    IF HasEvent(rec, raw.event) THEN raw.event
    ELSE IF step.events = <<>> THEN "none" ELSE Last(step.events)

\* Mutant of Refuse: the claim is deleted.
Drop(ctx, b, step, claim, raw, why) ==
    [b |-> b, step |-> [step EXCEPT !.whyNot = IF @ = "" THEN why ELSE @]]

\* A claim that cannot be bound stays in the document, with the reason.
Refuse(ctx, b, step, claim, raw, why) ==
    [b    |-> [b EXCEPT !.refused = Append(@, [step |-> step.id, claim |-> claim, why |-> why,
                 literal |-> raw.literal, event |-> ClaimedEvent(ctx.rec, step, raw),
                 negative |-> raw.predicate.form = "absent"])],
     step |-> [step EXCEPT
                 !.claims = Append(@, [NewClaim(ctx, step, claim) EXCEPT !.why = why]),
                 !.whyNot = IF @ = "" THEN why ELSE @]]

Bind(ctx, b, step, claim, raw, found) ==
    LET stored == b.calls[found.call].stored
    IN [b    |-> b,
        step |-> [step EXCEPT
                    !.whyNot = "",
                    !.claims = Append(@, [NewClaim(ctx, step, claim) EXCEPT
                        !.status = "proved", !.literal = raw.literal, !.call = found.call,
                        !.event = found.event, !.unresolved = found.unresolved,
                        !.predicate = IF found.unresolved THEN NoPredicate ELSE raw.predicate,
                        !.strength = Grade(stored, raw.literal)])]]

---------------------------------------------------------------------------
(* Looking for a retrieval. *)
Negative(predicate) == predicate.form = "absent"

\* A claim about a page is licensed by the event it names, any other one by the
\* string it quotes.
License(b, literal, predicate, event) ==
    LET here == IF Negative(predicate) \/ predicate.container # NoRef
                THEN ResolveEventCall(b.calls, b.cited, event) ELSE 0
    IN IF here # 0 \/ Negative(predicate) THEN here ELSE ResolveCall(b.calls, b.cited, literal)

\* Mutant of RescueTargets: skips the page the event left behind.
NextTarget(rec, event) ==
    LET at == CHOOSE i \in DOMAIN rec.events : rec.events[i].id = event
    IN IF at < Len(rec.events) THEN <<[id |-> rec.events[at + 1].id, when |-> "before"]>> ELSE <<>>

\* The pages a claim about an event may still be found on: that event's own, and
\* the next one's before it, in the order of the recording.
RescueTargets(rec, event) ==
    LET at == CHOOSE i \in DOMAIN rec.events : rec.events[i].id = event
    IN <<[id |-> event, when |-> "after"]>>
       \o IF at < Len(rec.events) THEN <<[id |-> rec.events[at + 1].id, when |-> "before"]>>
                                  ELSE <<>>

\* Mutant of Spent: one more than allowed.
Overspent(b) == b.rescues > RescueBudget

Spent(b) == b.rescues >= RescueBudget

\* One more retrieval, unless the string has been found or too many were needed.
Look(rec, literal, so, target) ==
    LET calls == Logged(so.b.calls, GetSnapshot(rec, target.id, target.when))
        cited == Append(so.b.cited, Len(calls))
    IN IF so.call # 0 \/ Spent(so.b) THEN so
       ELSE [b    |-> [so.b EXCEPT !.calls = calls, !.cited = cited, !.rescues = @ + 1],
             call |-> ResolveCall(calls, cited, literal)]

LookAt(rec, literal, start, targets) ==
    LET Take(so, target) == Look(rec, literal, so, target) IN FoldLeft(Take, start, targets)

Rescue(ctx, b, literal, predicate, event) ==
    IF ~ctx.tools \/ Negative(predicate) \/ event = "none" THEN [b |-> b, call |-> 0]
    ELSE LookAt(ctx.rec, literal, [b |-> b, call |-> 0], RescueTargets(ctx.rec, event))

\* Mutant of Moment: trusts the event that is named.
NamedMoment(rec, literal, predicate, event) == event

\* The moment a bare string became true may be another one, if it is the only one.
Moment(rec, literal, predicate, event) ==
    IF Negative(predicate) \/ (event # "none" /\ ContainsAt(rec, literal, event)) THEN event
    ELSE IF predicate = NoPredicate /\ Cardinality(EventsContaining(rec, literal)) = 1
         THEN CHOOSE id \in EventsContaining(rec, literal) : TRUE
         ELSE "none"

\* A predicate that cannot be asked of the retrieval is dropped, and the claim
\* kept as a plain one.
Judged(ctx, b, step, claim, raw, call, event) ==
    LET moment == Moment(ctx.rec, raw.literal, raw.predicate, event)
        outcome == IF raw.predicate = NoPredicate THEN "true"
                   ELSE Evaluate(b.calls[call].stored, raw.literal, raw.predicate)
    IN IF moment = "none" THEN Refuse(ctx, b, step, claim, raw, "not at the event")
       ELSE IF outcome = "false" THEN Refuse(ctx, b, step, claim, raw, "the answer was no")
       ELSE Bind(ctx, b, step, claim, raw,
                 [call |-> call, event |-> moment, unresolved |-> outcome = "cannot"])

\* After the rescue, of which b and the call are what it made of them.
Rescued(ctx, rescued, step, claim, raw, event) ==
    IF rescued.call = 0 THEN Refuse(ctx, rescued.b, step, claim, raw, "never retrieved")
    ELSE Judged(ctx, rescued.b, step, claim, raw, rescued.call, event)

AttachClaim(ctx, b, step, claim, raw) ==
    LET event == ClaimedEvent(ctx.rec, step, raw)
        call == License(b, raw.literal, raw.predicate, event)
    IN IF claim = {} THEN [b |-> b, step |-> step]
       ELSE IF raw.literal = {} THEN Refuse(ctx, b, step, claim, raw, "nothing quoted")
       ELSE IF call # 0 THEN Judged(ctx, b, step, claim, raw, call, event)
       ELSE IF Corrupted(b.calls, b.cited) # {}
       THEN Refuse(ctx, b, step, claim, raw, "the evidence is broken")
       ELSE Rescued(ctx, Rescue(ctx, b, raw.literal, raw.predicate, event), step, claim, raw, event)

---------------------------------------------------------------------------
(* A feature file with annotations. *)
Openers == {"Given", "When", "Then"}

\* The lines of a Background go to the first scenario.
Scenarios(answer) ==
    [n \in DOMAIN answer.lines |->
        IF n = 1 THEN answer.background \o answer.lines[1] ELSE answer.lines[n]]

\* Annotations are matched to their lines in order, by text; a line none is left
\* for goes without, and one that is passed over is lost.  Without any text they
\* are matched by position, and there must be as many.
Match(annotations, so, line) ==
    LET hits == {i \in so.next..Len(annotations) : annotations[i].line = line.text}
    IN IF hits = {} THEN [so EXCEPT !.out = Append(@, Blank)]
       ELSE [next |-> Min(hits) + 1, out |-> Append(so.out, annotations[Min(hits)])]

MatchLines(annotations, start, lines) ==
    LET Take(so, line) == Match(annotations, so, line) IN FoldLeft(Take, start, lines)

Align(lines, annotations) ==
    IF \E i \in DOMAIN annotations : annotations[i].line # {}
    THEN MatchLines(annotations, [next |-> 1, out |-> <<>>], lines).out
    ELSE IF Len(annotations) = Len(lines) THEN annotations ELSE <<>>

Known(rec, ids) == Those(ids, LAMBDA id : HasEvent(rec, id))

NewStep(ctx, id, keyword, text, raw) ==
    [id |-> id, keyword |-> keyword, role |-> raw.role, text |-> text,
     events |-> Known(ctx.rec, raw.events), claims |-> <<>>, whyNot |-> raw.whyNot,
     bug |-> raw.bug, low |-> FALSE]

\* Is the line an expected result?  The keyword decides where the annotation does
\* not; under a Then only what is called a step is one.
IsVerdict(keyword, opener, kind) ==
    kind = "verdict" \/ keyword = "Then" \/ (opener = "Then" /\ kind # "step")

\* The expected result has been attached to the last step of its scenario.
PutClaim(so, line, opener, bound) ==
    [so EXCEPT !.opener = opener, !.b = bound.b,
               !.done[line.at] = Append(Front(@), bound.step)]

\* The drafted scenarios so far, the keyword that opened the block, the binding.
ReadLine(ctx, so, line) ==
    LET steps == so.done[line.at]
        opener == IF line.keyword \in Openers THEN line.keyword
                  ELSE IF line.first THEN "" ELSE so.opener
        raw == line.annotation
        above == [Last(steps) EXCEPT !.events =
                     @ \o Those(Known(ctx.rec, raw.events), LAMBDA id : id \notin Range(@))]
        number == Len(FlattenSeq(so.done)) + 1
        step == NewStep(ctx, IF raw.id = <<>> THEN <<"step", number>> ELSE raw.id,
                        line.keyword, line.text, raw)
    IN IF so.failed THEN so
       ELSE IF ~IsVerdict(line.keyword, opener, raw.kind)
       THEN [so EXCEPT !.opener = opener, !.done[line.at] = Append(@, step)]
       ELSE IF steps = <<>> THEN [so EXCEPT !.failed = TRUE]
       ELSE PutClaim(so, line, opener, AttachClaim(ctx, so.b, above, line.text, raw))

ReadLines(ctx, start, lines) ==
    LET Take(so, line) == ReadLine(ctx, so, line) IN FoldLeft(Take, start, lines)

\* The lines one after the other, each with its scenario and its annotation.
Annotated(scenarios, aligned) ==
    LET Offset(n) == Len(FlattenSeq(SubSeq(scenarios, 1, n - 1)))
    IN FlattenSeq([n \in DOMAIN scenarios |-> [k \in DOMAIN scenarios[n] |->
           [keyword |-> scenarios[n][k].keyword, text |-> scenarios[n][k].text,
            at |-> n, first |-> k = 1, annotation |-> aligned[Offset(n) + k]]]])

\* Nothing comes of the file when it has no line, when the annotations do not fit
\* it, or when a scenario begins with an expected result.
FromFeature(ctx, b, answer) ==
    LET scenarios == Scenarios(answer)
        aligned == Align(FlattenSeq(scenarios), answer.annotations)
        start == [failed |-> FALSE, b |-> b, opener |-> "", done |-> [n \in DOMAIN scenarios |-> <<>>]]
    IN IF aligned = <<>> THEN [start EXCEPT !.failed = TRUE]
       ELSE ReadLines(ctx, start, Annotated(scenarios, aligned))

---------------------------------------------------------------------------
(* The older form: steps with ids, and scenarios that name them. *)
\* A step takes the place of one with the same id.
PutStep(so, bound) ==
    LET same == {i \in DOMAIN so.steps : so.steps[i].id = bound.step.id}
    IN [b |-> bound.b,
        steps |-> IF same = {} THEN Append(so.steps, bound.step)
                  ELSE ReplaceAt(so.steps, Min(same), bound.step)]

ReadStep(ctx, so, raw, index) ==
    LET id == IF raw.id = <<>> THEN <<"step", index>> ELSE raw.id
        step == NewStep(ctx, id, "When", raw.line, raw)
    IN IF raw.line = {} THEN so ELSE PutStep(so, AttachClaim(ctx, so.b, step, raw.expected, raw))

ReadRaws(ctx, raws, start, places) ==
    LET Take(so, index) == ReadStep(ctx, so, raws[index], index)
    IN FoldLeft(Take, start, places)

ReadSteps(ctx, b, answer) ==
    ReadRaws(ctx, answer.steps, [b |-> b, steps |-> <<>>], [i \in DOMAIN answer.steps |-> i])

\* A step belongs to the first scenario that names it, and one that none names to
\* the last.
Pick(steps, so, ids) ==
    LET fresh == Those(ids, LAMBDA id : id \notin so.used /\ \E i \in DOMAIN steps : steps[i].id = id)
        ById(id) == steps[CHOOSE i \in DOMAIN steps : steps[i].id = id]
    IN IF fresh = <<>> THEN so
       ELSE [used |-> so.used \cup Range(fresh),
             out  |-> Append(so.out, [k \in DOMAIN fresh |-> ById(fresh[k])])]

PickSteps(steps, start, named) ==
    LET Take(so, ids) == Pick(steps, so, ids) IN FoldLeft(Take, start, named)

Grouped(steps, named) ==
    LET picked == PickSteps(steps, [used |-> {}, out |-> <<>>], named)
        orphans == Those(steps, LAMBDA step : step.id \notin picked.used)
    IN IF picked.out = <<>> THEN <<steps>>
       ELSE IF orphans = <<>> THEN picked.out
       ELSE Append(Front(picked.out), Last(picked.out) \o orphans)

---------------------------------------------------------------------------
(* The document. *)
Omissions(rec, omitted) ==
    Those([i \in DOMAIN omitted |-> Known(rec, omitted[i])], LAMBDA ids : ids # <<>>)

\* A step over an event the tester rejected is flagged, whatever the author said.
Rejected(expectations) ==
    UNION {Range(item.events) : item \in {x \in expectations : x.source = "rejected"}}

ApplyRejections(scenarios, expectations) ==
    [n \in DOMAIN scenarios |-> [i \in DOMAIN scenarios[n] |->
        [scenarios[n][i] EXCEPT
            !.bug = @ \/ Range(scenarios[n][i].events) \cap Rejected(expectations) # {}]]]

\* Every event a step of its own, and nothing claimed.
Fallback(rec) ==
    LET events == Ordered(rec)
    IN << [i \in DOMAIN events |->
             [id |-> <<"step", i>>, keyword |-> IF i = 1 THEN "Given" ELSE "When",
              role |-> IF i = 1 THEN "setup" ELSE "test_step", text |-> {"interacts", events[i].id},
              events |-> <<events[i].id>>, claims |-> <<>>, whyNot |-> "not produced",
              bug |-> FALSE, low |-> TRUE]] >>

Drafted(b, scenarios, omitted, from) ==
    [b |-> b, scenarios |-> scenarios, omitted |-> omitted, from |-> from]

FromSteps(ctx, read, answer) ==
    Drafted(read.b, ApplyRejections(Grouped(read.steps, answer.scenarios), ctx.expectations),
            Omissions(ctx.rec, answer.omitted), "steps")

\* The file if it can be read, or else the steps, or else the fallback.  What the
\* file has cost in retrievals stays spent; rescues and refusals are counted anew.
FromFile(ctx, file, answer) ==
    LET built == Those(file.done, LAMBDA steps : steps # <<>>)
        again == [file.b EXCEPT !.rescues = 0, !.refused = <<>>]
    IN IF ~file.failed /\ built # <<>>
       THEN Drafted(file.b, ApplyRejections(built, ctx.expectations),
                    Omissions(ctx.rec, answer.omitted), "file")
       ELSE IF answer.steps = <<>> THEN Drafted(again, Fallback(ctx.rec), <<>>, "nothing")
       ELSE FromSteps(ctx, ReadSteps(ctx, again, answer), answer)

Parse(ctx, b, answer) == FromFile(ctx, FromFeature(ctx, b, answer), answer)

\* Does a finished answer quote anything?
Quotes(answer) ==
    \E i \in DOMAIN answer.annotations :
        answer.annotations[i].kind = "verdict" /\ answer.annotations[i].literal # {}

---------------------------------------------------------------------------
(* What the tester dictated replaces the sentence of the step: a note      *)
(* belongs to the event after it, or else to the one it was made during.   *)
NoteTarget(rec, note) ==
    LET events == Ordered(rec)
        next == {i \in DOMAIN events : events[i].time >= note.time}
        during == {i \in DOMAIN events : events[i].time <= note.time
                                          /\ note.time <= events[i].time + SettleTail}
    IN IF next # {} THEN events[Min(next)].id
       ELSE IF during # {} THEN events[Min(during)].id ELSE "none"

Dictated(rec, id) ==
    Those(Notes(rec, "intent_note"), LAMBDA note : NoteTarget(rec, note) = id)

ApplyIntentNotes(rec, scenarios) ==
    [n \in DOMAIN scenarios |-> [i \in DOMAIN scenarios[n] |->
        LET step == scenarios[n][i]
            notes == IF step.events = <<>> THEN <<>> ELSE Dictated(rec, step.events[1])
        IN IF notes = <<>> THEN step ELSE [step EXCEPT !.text = notes[1].text]]]
=============================================================================
