----------------------------- MODULE MCAuthorRun -----------------------------
(* Two events on a list of goods: e2 drops the pears and shows what is due. *)
(* Before that, all sessions of three events of a few kinds are read.       *)
EXTENDS AuthorRun

Node(depth, role, name) == [depth |-> depth, role |-> role, name |-> name]
Page(tree, live) ==
    [present |-> TRUE, url |-> {"shop"}, title |-> {"goods"}, tree |-> tree, live |-> live]
Goods(items) == <<Node(0, "main", {}), Node(1, "list", {"goods"})>> \o items
All == Page(Goods(<<Node(2, "item", {"pear"}), Node(2, "item", {"apple", "red"})>>), <<>>)
Few == Page(Goods(<<Node(2, "item", {"apple", "red"})>>), <<Node(0, "status", {"due"})>>)

Ev(id, time, before, after, diff) ==
    [id |-> id, kind |-> "click", time |-> time, seq |-> time, tab |-> 1, value |-> {},
     before |-> before, after |-> after, transient |-> NoPage, url |-> {"shop"},
     diff |-> diff, network |-> <<>>, console |-> <<>>, shot |-> FALSE]
NoDiff == [urls |-> <<>>, titles |-> <<>>, changed |-> <<>>, added |-> <<>>, removed |-> <<>>]

Note(kind, time, event, text) ==
    [kind |-> kind, time |-> time, event |-> event, text |-> text, pointed |-> FALSE,
     group |-> "none"]

MCRecording ==
    [events |-> <<Ev("e1", 2, All, All, NoDiff),
                  Ev("e2", 8, All, Few, [NoDiff EXCEPT !.added = <<Node(0, "status", {"due"})>>,
                                                       !.removed = <<Node(0, "item", {"pear"})>>])>>,
     narration |-> <<[start |-> 9, end |-> 9, text |-> {"due"}]>>,
     annotations |-> <<Note("intent_note", 2, "none", {"look"})>>,
     objective |-> TRUE, redacted |-> TRUE, parameters |-> {}]
MCAuthored == {MCRecording}

MCGuesses == {<<[events |-> <<"e2", "e9">>, expected |-> {"due"}, fromTester |-> TRUE]>>}

MCRequests ==
    {[tool |-> "find_text", arg |-> {"apple"}], [tool |-> "after", arg |-> "e2"],
     [tool |-> "get_diff", arg |-> "e2"], [tool |-> "after", arg |-> "e9"]}

Line(keyword, text) == [keyword |-> keyword, text |-> text]
StepOn(events) == [Blank EXCEPT !.kind = "step", !.events = events]
Goods1(form, n) == [form |-> form, container |-> [role |-> "list", name |-> {"goods"}],
                    role |-> "none", n |-> n]
Predicates == {NoPredicate, [NoPredicate EXCEPT !.form = "absent"],
               Goods1("first_of", {}), Goods1("count", {1})}
Verdict(literal, event, predicate) ==
    [Blank EXCEPT !.kind = "verdict", !.literal = literal, !.event = event, !.predicate = predicate]
Verdicts ==
    {Verdict(literal, event, predicate) :
        literal \in {{"pear"}, {"due"}, {"ghost"}}, event \in {"e1", "e2"}, predicate \in Predicates}
      \cup {Verdict({}, "e2", NoPredicate), Verdict({"red"}, "none", NoPredicate)}

File(lines, annotations) == [NoAnswer EXCEPT !.lines = <<lines>>, !.annotations = annotations]
OneVerdict(v) ==
    File(<<Line("Given", {"open"}), Line("When", {"filter"}), Line("Then", {"fine"})>>,
         <<StepOn(<<"e1">>), StepOn(<<"e2">>), v>>)
Hidden == Verdict({"due"}, "e2", NoPredicate)
Ghost == Verdict({"ghost"}, "e1", NoPredicate)
Twice2(v, w) ==
    File(<<Line("When", {"filter"}), Line("Then", {"fine"}), Line("And", {"well"})>>,
         <<StepOn(<<"e1", "e2">>), v, w>>)
Second(answer, lines) == [answer EXCEPT !.lines = Append(@, lines)]
Raw(id, text, events, expected, v) ==
    [[Blank EXCEPT !.id = id, !.line = text, !.events = events, !.literal = v.literal,
                   !.event = v.event, !.predicate = v.predicate]
        EXCEPT !.kind = ""] @@ [expected |-> expected]

\* Matched by text, with a line no annotation is left for, and the same step twice.
ByText ==
    File(<<Line("When", {"filter"}), Line("When", {"filter"}), Line("Then", {"fine"})>>,
         <<[StepOn(<<"e1">>) EXCEPT !.line = {"filter"}], [Hidden EXCEPT !.line = {"fine"}]>>)
\* A first scenario that costs a retrieval, and one that begins with a result.
Broken ==
    [Second(OneVerdict(Hidden), <<Line("Then", {"over"})>>) EXCEPT
        !.annotations = Append(@, Ghost),
        !.steps = <<Raw(<<>>, {"go"}, <<"e1">>, {"seen"}, Ghost),
                    Raw(<<>>, {"filter"}, <<"e2">>, {"fine"}, Hidden)>>,
        !.scenarios = <<<< <<"step", 2>> >>>>]
TwoScenarios ==
    [Second(OneVerdict(Hidden), <<Line("When", {"look"}), Line("Then", {"over"})>>) EXCEPT
        !.annotations = @ \o <<[StepOn(<<"e2">>) EXCEPT !.bug = TRUE], Ghost>>,
        !.omitted = <<<<"e1">>>>]

MCAnswers ==
    {OneVerdict(v) : v \in Verdicts}
      \cup {Twice2(Ghost, Hidden), Twice2(Hidden, Ghost), ByText, Broken, TwoScenarios, NoAnswer,
            [NoAnswer EXCEPT !.lines = <<<<Line("When", {"go"})>>>>]}

MCJudgeAnswers ==
    {<<>>, <<[check |-> "intent", severity |-> "grave", what |-> {"odd"}, step |-> <<"step", 9>>]>>}
Suggestion(text, events) ==
    [category |-> "boundary", text |-> text, rationale |-> {"why"},
     basedOn |-> [events |-> events, calls |-> {}, steps |-> {<<"step", 1>>}]]
MCCoverageAnswers ==
    {<<Suggestion({"filter"}, {"e1"}), Suggestion({"other"}, {"e1"}), Suggestion({"more"}, {"e2"})>>,
     <<Suggestion({"other"}, {"e9"})>>}

---------------------------------------------------------------------------
(* The sessions that are read. *)
Call(write, done, ours) == [text |-> {"call"}, write |-> write, done |-> done, ours |-> ours]
Act(id, time, does) ==
    LET plain == Ev(id, time, All, All, NoDiff)
    IN CASE does = "nothing" -> plain
         [] does = "goes"    -> [plain EXCEPT !.kind = "navigate", !.tab = 2]
         [] does = "submits" ->
              [plain EXCEPT !.kind = "submit",
                  !.network = <<Call(FALSE, TRUE, TRUE), Call(TRUE, FALSE, TRUE)>>]
         [] does = "writes"  ->
              [plain EXCEPT !.network =
                  <<Call(TRUE, TRUE, FALSE), Call(FALSE, TRUE, TRUE), Call(TRUE, TRUE, TRUE)>>]
         [] does = "renders" ->
              [plain EXCEPT !.diff.added = All.tree, !.diff.removed = <<Node(0, "item", {"pear"})>>,
                            !.diff.changed = <<Node(0, "item", {"red"})>>]
Acts == {"nothing", "goes", "submits", "writes", "renders"}

Said(start, end) == [start |-> start, end |-> end, text |-> {"well"}]
Heards == {<<>>, <<Said(0, 0), Said(0, 3)>>, <<Said(5, 6), Said(9, 9)>>}
NoteSets ==
    {<<>>, <<Note("scenario_break", 3, "none", {})>>, <<Note("scenario_break", 4, "none", {})>>,
     <<Note("checkpoint", 2, "none", {}), Note("scenario_break", 9, "none", {})>>,
     <<Note("scenario_break", 7, "b", {})>>}

Session(events, said, notes) ==
    [events |-> events, narration |-> said, annotations |-> notes, objective |-> FALSE,
     redacted |-> FALSE, parameters |-> {}]

MCRecordings ==
    MCAuthored
      \cup {Session(<<>>, said, notes) : said \in Heards, notes \in NoteSets}
      \cup {Session([n \in 1..3 |-> Act(<<"a", "b", "c">>[n], times[n], does[n])], said, notes) :
              does \in [1..3 -> Acts], said \in Heards, notes \in NoteSets,
              times \in {<<1, 1, 3>>, <<1, 3, 4>>, <<1, 4, 5>>, <<1, 4, 7>>}}
=============================================================================
