------------------------------- MODULE Evidence -------------------------------
(***************************************************************************)
(* What a recording shows and what can be asked of it (server/evidence:    *)
(* store.py, tools.py, predicate.py, citation.py, strength.py, text.py).   *)
(*                                                                         *)
(* A text is a set of words; that a string is part of another one is that  *)
(* its words are.  Upper and lower case are not told apart, and neither    *)
(* the keys of a response nor the roles in it count as texts.  A page is   *)
(* its nodes in document order, each with its depth; the live regions      *)
(* follow the document as further trees:                                   *)
(*                                                                         *)
(*   page   [present, url, title, tree, live]                              *)
(*   node   [depth, role, name]                                            *)
(*   event  [id, kind, time, seq, tab, value, before, after, transient,    *)
(*           url, diff, network, console, shot]                            *)
(*   diff   [urls, titles, changed, added, removed]                        *)
(*   call   [text, write, done, ours], in order of their start: is it one  *)
(*           that changes something, was it answered with success, and is  *)
(*           it to the host of the page?                                   *)
(*   note   [kind, time, event, text, pointed, group]                      *)
(*   rec    [events, narration, annotations, objective, parameters]        *)
(*                                                                         *)
(* The answer of a tool is a record with all its texts where they stand:   *)
(* the identity of the page, its tree, loose rows of nodes, what is no     *)
(* element at all, and the question itself.                                *)
(***************************************************************************)
EXTENDS Naturals, Sequences, FiniteSets, FiniteSetsExt, SequencesExt

CONSTANTS
    MaxRows,     \* rows of a diff a tool shows         (tools.py:204)
    MaxMatches   \* matches find_text returns           (store.py)

Within(literal, text) == literal \subseteq text
NoPage == [present |-> FALSE, url |-> {}, title |-> {}, tree |-> <<>>, live |-> <<>>]
Names(nodes) == [i \in DOMAIN nodes |-> nodes[i].name]

\* Those of a sequence that pass: SelectSeq, in a form that can be reasoned about.
Those(s, Pass(_)) == FlattenSeq([i \in DOMAIN s |-> IF Pass(s[i]) THEN <<s[i]>> ELSE <<>>])

Found(texts, literal) == \E i \in DOMAIN texts : Within(literal, texts[i])

---------------------------------------------------------------------------
(* The store. *)
Earlier(a, b) == a.time < b.time \/ (a.time = b.time /\ a.seq < b.seq)
Ordered(rec) ==
    LET events == rec.events
        Before(i, j) == Earlier(events[i], events[j]) \/ (i < j /\ ~Earlier(events[j], events[i]))
    IN [k \in DOMAIN events |-> events[CHOOSE i \in DOMAIN events :
            Cardinality({j \in DOMAIN events : Before(j, i)}) = k - 1]]

Ids(rec) == {rec.events[i].id : i \in DOMAIN rec.events}
HasEvent(rec, id) == id \in Ids(rec)
Event(rec, id) == rec.events[CHOOSE i \in DOMAIN rec.events : rec.events[i].id = id]

PageAt(event, when) ==
    IF when = "before" THEN event.before
    ELSE IF when = "after" THEN event.after ELSE event.transient

\* Document order, the live regions last.
Flatten(page) == page.tree \o page.live
Nodes(event) == Flatten(event.before) \o Flatten(event.after) \o Flatten(event.transient)

\* The notes in the order of the recording.
Notes(rec, kind) == Those(rec.annotations, LAMBDA note : note.kind = kind)

NarratedIn(rec, from, to) ==
    Those(rec.narration, LAMBDA said : said.end >= from /\ said.start <= to)

\* What a search looks at, of one event.
Addresses(event) == <<event.url, event.before.url, event.after.url>>
Traffic(event) == [k \in DOMAIN event.network |-> event.network[k].text]
LooseTexts(event) == Addresses(event) \o Traffic(event) \o event.console

ContainsAt(rec, literal, id) ==
    \/ HasEvent(rec, id) /\ Found(Names(Nodes(Event(rec, id))) \o LooseTexts(Event(rec, id)), literal)
    \/ \E note \in Range(rec.annotations) : note.event = id /\ Within(literal, note.text)

EventsContaining(rec, literal) == {id \in Ids(rec) : ContainsAt(rec, literal, id)}

---------------------------------------------------------------------------
(* The tools. *)
Reply(tool, event) ==
    [tool |-> tool, event |-> event, present |-> TRUE, error |-> FALSE, identity |-> <<>>,
     tree |-> <<>>, rows |-> <<>>, other |-> <<>>, query |-> <<>>]

\* Nodes that say something come first; the rest is cut.
Rank(nodes) ==
    LET Says(node) == node.name # {}
        order == Those(nodes, Says) \o Those(nodes, LAMBDA node : ~Says(node))
    IN SubSeq(order, 1, Min({Len(order), MaxRows}))

GetSnapshot(rec, id, when) ==
    LET page == PageAt(Event(rec, id), when)
    IN [Reply("get_snapshot", id) EXCEPT !.present = page.present, !.tree = Flatten(page),
           !.identity = IF page.present THEN <<page.url, page.title>> ELSE <<>>]

GetDiff(rec, id) ==
    LET diff == Event(rec, id).diff
    IN [Reply("get_diff", id) EXCEPT !.identity = diff.urls \o diff.titles,
           !.rows = diff.changed \o Rank(diff.added) \o Rank(diff.removed)]

See(rec, id) ==
    [Reply("see", id) EXCEPT !.present = Event(rec, id).shot,
        !.identity = IF Event(rec, id).shot
                     THEN <<Event(rec, id).url, Event(rec, id).after.title>> ELSE <<>>]

GetNetwork(rec, id) == [Reply("get_network", id) EXCEPT !.other = Traffic(Event(rec, id))]

\* Every narration of the session: the range is the author's.
GetNarration(rec) ==
    [Reply("get_narration", "none") EXCEPT !.other =
        [i \in DOMAIN rec.narration |-> rec.narration[i].text]]

FindText(rec, query) ==
    LET Hits(texts) == Those(texts, LAMBDA text : Within(query, text))
        rows == FlattenSeq([i \in DOMAIN rec.events |->
                    Those(Nodes(rec.events[i]), LAMBDA node : Within(query, node.name))])
        said == [i \in DOMAIN rec.narration |-> rec.narration[i].text]
        other == Hits(said) \o FlattenSeq([i \in DOMAIN rec.events |-> Hits(LooseTexts(rec.events[i]))])
    IN [Reply("find_text", "none") EXCEPT
           !.query = <<query>>,
           !.other = SubSeq(other, 1, Min({Len(other), MaxMatches})),
           !.rows  = SubSeq(rows, 1, Min({Len(rows), MaxMatches}))]

\* An unknown event is an error, which names it; the agent is told and the call
\* is logged all the same.
Failed(tool, id) == [Reply(tool, id) EXCEPT !.error = TRUE, !.present = FALSE, !.other = <<{id}>>]

Tools == {"find_text", "get_narration", "before", "after", "get_diff", "see", "get_network"}

Answer(rec, tool, arg) ==
    IF tool = "find_text" THEN FindText(rec, arg)
    ELSE IF tool = "get_narration" THEN GetNarration(rec)
    ELSE IF ~HasEvent(rec, arg) THEN Failed(tool, arg)
    ELSE CASE tool \in {"before", "after"} -> GetSnapshot(rec, arg, tool)
           [] tool = "get_diff"            -> GetDiff(rec, arg)
           [] tool = "see"                 -> See(rec, arg)
           [] tool = "get_network"         -> GetNetwork(rec, arg)

---------------------------------------------------------------------------
(* What a response says. *)
Elements(reply) == reply.identity \o Names(reply.tree) \o Names(reply.rows)
Recorded(reply) == Elements(reply) \o reply.other
StringsIn(reply) == Recorded(reply) \o reply.query
ContainsLiteral(reply, literal) == Found(StringsIn(reply), literal)

\* A picture supports nothing, and neither does the question itself.
ResponseSupports(reply, literal) == reply.tool # "see" /\ Found(Recorded(reply), literal)

Grade(reply, literal) ==
    LET texts == Elements(reply)
        exact == Cardinality({i \in DOMAIN texts : texts[i] = literal})
    IN CASE texts = <<>>                         -> "none"
         [] exact = 1                            -> "strong"
         [] exact > 1 \/ Found(texts, literal)   -> "medium"
         [] OTHER                                -> "weak"

---------------------------------------------------------------------------
(* The forms of a claim.  A predicate is [form, container, role, n], with a *)
(* container [role, name] and n a set with the number, if any; without a    *)
(* predicate the form is "none".                                            *)
NoRef == [role |-> "none", name |-> {}]
NoPredicate == [form |-> "none", container |-> NoRef, role |-> "none", n |-> {}]
IsPage(reply) == reply.tool = "get_snapshot" /\ reply.present

\* The first node in document order with the role and the name.
FindNode(tree, ref) ==
    LET hits == {i \in DOMAIN tree : tree[i].role = ref.role /\ Within(ref.name, tree[i].name)}
    IN IF hits = {} THEN 0 ELSE Min(hits)

Subtree(tree, i) == {j \in i..Len(tree) : \A k \in (i + 1)..j : tree[k].depth > tree[i].depth}
Children(tree, i) == {j \in Subtree(tree, i) : tree[j].depth = tree[i].depth + 1}

FirstOf(reply, literal, ref) ==
    LET node == FindNode(reply.tree, ref)
    IN IF ref = NoRef \/ node = 0 THEN "cannot"
       ELSE LET items == Children(reply.tree, node)
            IN IF items = {} THEN "cannot"
               ELSE IF \E j \in Subtree(reply.tree, Min(items)) : Within(literal, reply.tree[j].name)
                    THEN "true" ELSE "false"

Count(reply, predicate) ==
    LET node == FindNode(reply.tree, predicate.container)
        items == Children(reply.tree, node)
        counted == {j \in items : predicate.role \in {"none", reply.tree[j].role}}
    IN IF \/ predicate.container = NoRef \/ node = 0
          \/ items # {} /\ counted = {}
          \/ predicate.n = {}
       THEN "cannot"
       ELSE IF predicate.n = {Cardinality(counted)} THEN "true" ELSE "false"

\* Three outcomes: a question that cannot be asked of this response is not false.
Evaluate(reply, literal, predicate) ==
    LET Truth(b) == IF b THEN "true" ELSE "false"
    IN IF predicate.form = "first_of" THEN FirstOf(reply, literal, predicate.container)
       ELSE IF predicate.form = "count" THEN Count(reply, predicate)
       ELSE IF predicate.form = "absent"
            THEN IF IsPage(reply) THEN Truth(~ContainsLiteral(reply, literal)) ELSE "cannot"
            ELSE Truth(ContainsLiteral(reply, literal))

---------------------------------------------------------------------------
(* The log of a run.  A call is [got, stored]: what came back, whose hash  *)
(* is kept, and what the file says now, NoFile when there is none.         *)
NoFile == Reply("lost", "none")
Logged(calls, reply) == Append(calls, [got |-> reply, stored |-> reply])

Corrupted(calls, cited) == {n \in Range(cited) : calls[n].stored # calls[n].got}

\* The last cited call that is one of those, 0 for none.
LastOf(cited, calls) ==
    LET hits == {i \in DOMAIN cited : cited[i] \in calls}
    IN IF hits = {} THEN 0 ELSE cited[Max(hits)]

\* The latest retrieval that has the string.
ResolveCall(calls, cited, literal) ==
    LastOf(cited, {n \in DOMAIN calls : ResponseSupports(calls[n].stored, literal)})

\* The latest retrieval about the event, whatever it is.
ResolveEventCall(calls, cited, id) ==
    LastOf(cited, {n \in DOMAIN calls : /\ calls[n].got.tool \notin {"see", "find_text", "get_narration"}
                                        /\ ~calls[n].got.error /\ calls[n].got.event = id})
=============================================================================
