--------------------------- MODULE CausalEvidence ---------------------------
(***************************************************************************)
(* causal_evidence/: how the sources of a reading become the evidence and  *)
(* the causal chains an answer is graded on.  A record is cut into windows *)
(* of tokens (chunking.py), a model extracts propositions and relations    *)
(* from each window and a second call judges them (extraction.py), what is *)
(* not from before the cutoff is kept out, and the chains that lead to the *)
(* question's targets are searched for (graph.py).                         *)
(*                                                                         *)
(* All of it is a function of its inputs.  A weight (support times validity*)
(* in time, at most 1) is a number of halves; dates are numbers.  Left out:*)
(* the arithmetic of validity and calibration, and the fit of the curve.   *)
(***************************************************************************)
EXTENDS Naturals, FiniteSets, FiniteSetsExt, Sequences, SequencesExt

CONSTANTS
  Entities, Targets,   \* the entities of the graph and those a question is about
  \* Bounds of the inputs the algorithms are checked for:
  MaxText,             \* tokens of a text
  MaxWindow,           \* chunk_size
  MaxEdges             \* causal edges of a graph

-----------------------------------------------------------------------------
(* Windows of a record.                                                     *)

\* marks: the tokens of the text after which a character ends, and 0.  A window ends at
\* the last of them that fits, the next one starts at the first after the overlap.
WindowEnd(marks, start, size) == Max({e \in marks : start <= e /\ e <= start + size})
NextStart(marks, start, end, overlap) ==
  Min({s \in marks : s > start /\ s + overlap >= end})

\* chunk_record; a character that no window can hold ends the sequence in a window that
\* is empty, where the code raises.
Windows(marks, size, overlap) ==
  LET from[s \in marks] ==
        LET end == WindowEnd(marks, s, size)
        IN <<[start |-> s, end |-> end]>> \o
           IF end \in {s, Max(marks)} THEN << >> ELSE from[NextStart(marks, s, end, overlap)]
  IN IF marks = {0} THEN << >> ELSE from[0]

Cut(windows) == windows = << >> \/ Last(windows).start < Last(windows).end

-----------------------------------------------------------------------------
(* What may be known before the cutoff.                                     *)

NoDate == 0

\* admissible: a source without a date needs a verified date of publication.
Admissible(r, cutoff) ==
  /\ r.timestamp = NoDate => r.verified /\ r.available # NoDate
  /\ {r.timestamp, r.available} \subseteq 0 .. cutoff - 1

\* build_graph, before any model sees the text: a window without a date of its own has
\* the one its text states, if it states just one.
Shown(r, stated, cutoff) ==
  /\ {r.timestamp, r.available} \subseteq 0 .. cutoff - 1
  /\ Admissible([r EXCEPT !.timestamp = IF @ = NoDate THEN stated ELSE @], cutoff)

-----------------------------------------------------------------------------
(* Relations of a window.                                                   *)

\* The candidates a verifier is asked about: both ends in one proposition that is
\* quoted from the text, two different ends, the relation quoted too.
Candidates(propositions, relations) ==
  {i \in DOMAIN relations :
    /\ relations[i].proposition \in DOMAIN propositions
    /\ propositions[relations[i].proposition].quoted
    /\ {relations[i].cause, relations[i].effect} \subseteq propositions[relations[i].proposition].entities
    /\ relations[i].cause # relations[i].effect
    /\ relations[i].quoted}

\* extract_verified: one verdict for each candidate, else it raises; an edge for each
\* that is supported by a quote.
Verified(propositions, relations, verdicts) ==
  {i \in Candidates(propositions, relations) : verdicts[i].supported /\ verdicts[i].quoted}

-----------------------------------------------------------------------------
(* Chains to the targets.                                                   *)

Edges == [cause : Entities, effect : Entities, prevents : BOOLEAN, weight : {1, 2}]

\* score_graph keeps the heaviest edge of a kind between two entities.
Best(edges) ==
  {e \in edges : \A f \in edges :
    [f EXCEPT !.weight = 0] = [e EXCEPT !.weight = 0] => f.weight <= e.weight}

Outgoing(edges, v) == SetToSeq({e \in Best(edges) : e.cause = v})

\* A path's score is the product of its weights, in units of 2^-length.
Score(path) == FoldSeq(LAMBDA e, product : e.weight * product, 1, path)
AtLeast(path, minimum) == Score(path) >= minimum * 2^(Len(path) - 1)    \* minimum in halves
Visited(path) == {path[1].cause} \cup {e.effect : e \in ToSet(path)}

\* One edge out of the entity at the head of the queue: it ends a chain at a target, is
\* queued for more, or is given up.
Expand(s, path, e, deepest, minimum, budget) ==
  LET longer == Append(path, e)
      visited == IF path = << >> THEN {e.cause} ELSE Visited(path)
  IN IF s.expansions >= budget THEN s
     ELSE IF e.effect \in visited \/ ~AtLeast(longer, minimum)
     THEN [s EXCEPT !.expansions = @ + 1]
     ELSE IF e.effect \in Targets
     THEN [s EXCEPT !.expansions = @ + 1, !.chains = @ \cup {longer}]
     ELSE [s EXCEPT !.expansions = @ + 1,
                    !.queue = IF Len(longer) < deepest THEN Append(@, [at |-> e.effect, path |-> longer]) ELSE @]

\* score_graph's search, breadth first from every entity that is no target, until the
\* queue is empty or the budget of expansions used up.
Search(edges, deepest, minimum, budget) ==
  LET starts == SetToSeq({e.cause : e \in edges} \ Targets)
      begin == [queue |-> [i \in DOMAIN starts |-> [at |-> starts[i], path |-> << >>]],
                chains |-> {}, expansions |-> 0]
      serve(s) == FoldSeq(LAMBDA e, r : Expand(r, Head(s.queue).path, e, deepest, minimum, budget),
                          [s EXCEPT !.queue = Tail(@)], Reverse(Outgoing(edges, Head(s.queue).at)))
      after[k \in 0 .. budget + Cardinality(Entities)] ==
        IF k = 0 THEN begin
        ELSE LET s == after[k - 1] IN
             IF s.queue = << >> \/ s.expansions >= budget THEN s ELSE serve(s)
      end == after[budget + Cardinality(Entities)]
  IN [chains |-> end.chains, truncated |-> end.queue # << >> \/ end.expansions >= budget]

-----------------------------------------------------------------------------
(* The graph of a reading and its analysis.                                 *)

\* A record: its id, its dates, the day its text states, and the causal relations <<cause,
\* effect>> that are extracted from it and verified.
Records(ids, days, relations) ==
  [id : ids, timestamp : days, available : days, verified : BOOLEAN, stated : days,
   says : SUBSET relations]

\* build_graph raises if two different records have the same id, even if only one of them
\* is from before the cutoff.
Contradictory(records) ==
  \E i, j \in DOMAIN records : records[i].id = records[j].id /\ records[i] # records[j]

\* build_graph's source_chunks with their propositions; the cutoff NoDate admits all.
Admitted(records, cutoff) ==
  {r \in ToSet(records) : cutoff = NoDate \/ Shown(r, r.stated, cutoff)}

Relations(chunks) == UNION {r.says : r \in chunks}
Ends(relations) == UNION {{e[1], e[2]} : e \in relations}

\* active_graph: by its date, the stated one if there is no other.
ActiveGraph(chunks, cutoff) ==
  {r \in chunks : Admissible([r EXCEPT !.timestamp = IF @ = NoDate THEN r.stated ELSE @], cutoff)}

\* reverse_distances: the steps along causal relations to the nearest target.
Distances(relations, roots) ==
  LET near[k \in 0 .. Cardinality(Ends(relations))] ==
        IF k = 0 THEN roots
        ELSE near[k - 1] \cup {e[1] : e \in {f \in relations : f[2] \in near[k - 1]}}
      reached == near[Cardinality(Ends(relations))]
  IN [v \in reached |-> Min({k \in DOMAIN near : v \in near[k]})]

\* analyze_evidence: what was asked for explicitly is preferred to what the question names.
\* A status "scored" comes with the distances the scores are computed from.
Analysis(records, cutoff, score, targets, named) ==
  LET chunks == Admitted(records, cutoff)
      entities == Ends(Relations(chunks))
      asked == IF targets = {} THEN entities \cap named ELSE targets
      anchored == asked \cap entities
      active == Relations(ActiveGraph(chunks, cutoff))
      status == IF chunks = {} THEN "no_admitted_evidence"
                ELSE IF cutoff = NoDate THEN "not_scored_without_cutoff"
                ELSE IF ~score THEN "verification_only"
                ELSE IF anchored = {} THEN "no_target_anchor" ELSE "scored"
  IN [status |-> status, chunks |-> chunks, unresolved |-> asked \ entities,
      sound |-> status = "scored" => anchored \subseteq Ends(active),
      distances |-> IF status = "scored" THEN Distances(active, anchored) ELSE << >>]

\* SupportCalibrator.predict, as numerator and denominator: constant outside the knots,
\* linear between two of them.
Predict(x, y, score) ==
  IF score <= x[1] THEN <<y[1], 1>>
  ELSE IF score >= Last(x) THEN <<Last(y), 1>>
  ELSE LET left == Max({i \in DOMAIN x : x[i] <= score})
           run == x[left + 1] - x[left]
       IN <<y[left] * run + (score - x[left]) * (y[left + 1] - y[left]), run>>

\* valid_curve
ValidCurve(x, y) ==
  /\ Len(x) = Len(y) /\ x # << >>
  /\ \A i \in 1 .. Len(x) - 1 : x[i] < x[i + 1] /\ y[i] <= y[i + 1]

-----------------------------------------------------------------------------
(* Checked for every input within the bounds.                               *)

\* No text is lost or cut inside a character, every window advances, none is longer than
\* asked for or repeats more than the overlap; it raises only for a character that is
\* longer than a window.
ASSUME TextIsCovered ==
  \A n \in 0 .. MaxText, size \in 1 .. MaxWindow : \A overlap \in 0 .. size - 1 :
  \A marks \in {m \cup {0, n} : m \in SUBSET (0 .. n)} :
    LET w == Windows(marks, size, overlap)
        wide == \E a, b \in marks : b > a + size /\ \A c \in marks : c <= a \/ c >= b
    IN /\ Cut(w) <=> ~wide
       /\ ~wide /\ n > 0 => w[1].start = 0 /\ Last(w).end = n
       /\ \A i \in DOMAIN w : {w[i].start, w[i].end} \subseteq marks /\ w[i].end <= w[i].start + size
       /\ \A i \in 1 .. Len(w) - 1 :
            /\ w[i].start < w[i + 1].start /\ w[i + 1].start <= w[i].end
            /\ w[i].end <= w[i + 1].start + overlap

\* A chain to a target: it passes no entity twice and no other target, and weighs enough.
IsChain(path, edges, deepest, minimum) ==
  /\ path # << >> /\ Len(path) <= deepest
  /\ ToSet(path) \subseteq Best(edges)
  /\ \A i \in 1 .. Len(path) - 1 : path[i].effect = path[i + 1].cause
  /\ Cardinality(Visited(path)) = Len(path) + 1
  /\ Visited(path) \cap Targets = {Last(path).effect}
  /\ AtLeast(path, minimum)

\* What the search reports is a chain; and unless it reports that it was cut short, it
\* reports every chain there is: giving up a path that weighs too little loses nothing.
ASSUME ChainsAreFound ==
  \A edges \in kSubset(MaxEdges, {e \in Edges : e.cause # e.effect /\ e.prevents = (e.weight = 1)}), minimum \in {0, 1} :
    LET all == {path \in UNION {[1 .. k -> Best(edges)] : k \in 1 .. 3} : IsChain(path, edges, 3, minimum)}
    IN \A budget \in {1, 3, 20} :
         LET found == Search(edges, 3, minimum, budget)
         IN /\ found.chains \subseteq all
            /\ ~found.truncated => found.chains = all
            /\ budget = 20 => ~found.truncated

\* Nothing from the cutoff on reaches the analysis: it is the same without the records that
\* are dated, stated or published then, and the scores never ask for a target that is not in
\* the graph (reverse_distances would raise).
ASSUME FutureIsUnseen ==
  LET pair == CHOOSE p \in Entities \X Entities : p[1] # p[2]
      past(r) == {r.timestamp, r.available} \subseteq {NoDate, 1}
                 /\ (r.timestamp = NoDate => r.stated # 2)
      all == Records({1, 2}, 0 .. 2, {pair})
  IN \A r \in all, q \in {q \in all : q.says = {pair} /\ q.stated = NoDate} :
     \A targets \in {{}, {pair[2]}, Entities \ {pair[1], pair[2]}} :
       LET given == <<r, q>>
           known == SelectSeq(given, past)
           then == Analysis(given, 2, TRUE, targets, {pair[2]})
       IN ~Contradictory(given) =>
            /\ then = Analysis(known, 2, TRUE, targets, {pair[2]})
            /\ then.sound

\* Every chain that is found starts where the distances reach and is no shorter than they
\* say: an entity without a distance is on no chain.
ASSUME DistancesReach ==
  \A edges \in kSubset(MaxEdges, {e \in Edges : e.cause # e.effect /\ e.prevents = (e.weight = 1)}) :
    LET d == Distances({<<e.cause, e.effect>> : e \in edges}, Targets)
    IN \A path \in Search(edges, 3, 0, 20).chains :
         \A i \in DOMAIN path : path[i].cause \in DOMAIN d /\ d[path[i].cause] <= Len(path) - i + 1

\* A calibrated support follows the raw one: it never falls where that rises, stays within
\* the curve and meets the knots.
ASSUME CalibrationIsMonotone ==
  \A k \in 1 .. 3 : \A x, y \in [1 .. k -> 1 .. 4] :
    ValidCurve(x, y) =>
      /\ \A i \in 1 .. k : LET v == Predict(x, y, x[i]) IN v[1] = y[i] * v[2]
      /\ \A s \in 1 .. 5 :
           LET v == Predict(x, y, s)
               w == Predict(x, y, s + 1)
           IN /\ y[1] * v[2] <= v[1] /\ v[1] <= y[k] * v[2]
              /\ v[1] * w[2] <= w[1] * v[2]
=============================================================================
