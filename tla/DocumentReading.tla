--------------------------- MODULE DocumentReading ---------------------------
(***************************************************************************)
(* How a question reads the project's memory: retrieve of                  *)
(* dataset/document_navigation.py over the pages of the imported document  *)
(* (dataset/document_store.py), with the vector search of                  *)
(* legal_agent/reasoning.py and asynchronization/workers/retriever_worker  *)
(* beside it.  A reading refreshes the graph object first, so all of it is *)
(* a function of the stored snapshot and of what the model asks for.       *)
(*                                                                         *)
(* Left open: which nodes are similar to the question and, in the agent's  *)
(* loop, the action the model answers with.  A call that raises (an invalid*)
(* action, a deleted page, a structure that cannot be read) gives no       *)
(* reading at all; the readings below are the others.                      *)
(* Left out: blank pages and the size of catalog and structure, whose      *)
(* pagination returns navigation only; the limit of five vector hits, which*)
(* a snapshot of this size never reaches.                                  *)
(***************************************************************************)
EXTENDS ProjectMemory

CONSTANTS
  MaxPages,     \* NavigationSettings.max_pages
  MaxTokens,    \* NavigationSettings.max_read_tokens
  MaxTurns,     \* NavigationSettings.max_turns
  PageTokens    \* the tokens of a source's text

ASSUME NavigationAssumption ==
  /\ {MaxPages, MaxTokens, MaxTurns} \subseteq Nat \ {0}
  /\ PageTokens \in [Ids -> Nat]

Tokens(sources) == MapThenSumSet(LAMBDA n : PageTokens[n], sources)

-----------------------------------------------------------------------------
(* The document reader.                                                     *)

LiveSections(m) == {n \in Live(m) : m.node[n].kind = "section"}
PageNodes(m)    == {n \in Live(m) : m.node[n].page > 0}

\* list_documents: a document is listed while anything of it is left.
Listed(m) == LiveSections(m) \cup PageNodes(m) # {}

\* read_pages: every page that is asked for must be there.
CanRead(m, pages) ==
  pages # {} /\ \A page \in pages : \E n \in PageNodes(m) : m.node[n].page = page
ReadPages(m, pages) == {n \in PageNodes(m) : m.node[n].page \in pages}

\* read_structure raises when a section is left whose parent section was deleted.
CanReadStructure(m) ==
  Listed(m) /\ \A s \in LiveSections(m) : m.node[s].parent \in LiveSections(m) \cup {NoNode}

-----------------------------------------------------------------------------
(* Vector search: summaries lead to the sources below them.                 *)

\* A deleted node leads nowhere; navigation leads to its sources or, if it names none,
\* to the nodes mounted under it.
Leads(m, n) ==
  IF n \notin Live(m) \/ (m.node[n].kind = "raw" /\ ~m.node[n].nav) THEN {}
  ELSE IF m.node[n].sources # {} THEN m.node[n].sources
  ELSE {k \in DOMAIN m.node : m.node[k].parent = n}

Reach(m, n) ==
  LET step[k \in 0 .. MaxId] ==
        IF k = 0 THEN {n} ELSE step[k - 1] \cup UNION {Leads(m, j) : j \in step[k - 1]}
  IN step[MaxId]

\* The original texts a node stands for.
Evidence(m, n) == {j \in Reach(m, n) \cap Live(m) : m.node[j].kind = "raw" /\ ~m.node[j].nav}

\* What a search may start from: any live node, by its similarity or as a neighbour of
\* one.  A node that leads to an id the graph does not have makes the search raise.
Recalled(m) == {n \in Live(m) : Reach(m, n) \subseteq DOMAIN m.node}

\* source_evidence_hits over every selection of them.
VectorHits(m) == {UNION hits : hits \in SUBSET {Evidence(m, n) : n \in Recalled(m)}}

-----------------------------------------------------------------------------
(* Document navigation.                                                     *)

NothingRead == [mode |-> "agent", status |-> "reading", hits |-> {}, tokens |-> 0]

\* Variant: the tokens that were read before do not count.
AdmitsEachBatch(r, batch) ==
  LET new == batch \ r.hits IN
  /\ Cardinality(r.hits) + Cardinality(new) <= MaxPages
  /\ Tokens(new) <= MaxTokens

\* accept: a batch is read as a whole or not at all.
Admits(r, batch) ==
  LET new == batch \ r.hits IN
  /\ Cardinality(r.hits) + Cardinality(new) <= MaxPages
  /\ r.tokens + Tokens(new) <= MaxTokens

Accept(r, batch) ==
  IF Admits(r, batch)
  THEN [r EXCEPT !.hits = @ \cup batch, !.tokens = @ + Tokens(batch \ r.hits)]
  ELSE r

\* A small document is read at once, if nothing else is in memory and none of it deleted.
SmallDocument(m) ==
  /\ Pages <= MaxPages
  /\ Live(m) \cap Sources(m) = PageNodes(m)
  /\ Cardinality(PageNodes(m)) = Pages
  /\ Admits(NothingRead, PageNodes(m))

\* One turn: the model finishes, looks at the catalog or at the structure, reads pages
\* or searches by vector.
Turn(m, r) ==
  {[r EXCEPT !.status = IF r.hits = {} THEN "empty" ELSE "complete"], r}
  \cup {Accept(r, ReadPages(m, pages)) : pages \in {ks \in SUBSET (1 .. Pages) : CanRead(m, ks)}}
  \cup {Accept(r, hits) : hits \in VectorHits(m)}

\* The loop: a model that never finishes is stopped after MaxTurns turns.
AgentReadings(m) ==
  LET after[k \in 0 .. MaxTurns] ==
        IF k = 0 THEN {NothingRead}
        ELSE UNION {IF r.status = "reading" THEN Turn(m, r) ELSE {r} : r \in after[k - 1]}
  IN {IF r.status = "reading" THEN [r EXCEPT !.status = "turn_budget_exhausted"] ELSE r :
       r \in after[MaxTurns]}

\* retrieve, by the kind of navigation.
Readings(m, navigation) ==
  IF navigation = "vector" \/ ~Listed(m)
  THEN {[mode |-> "vector", status |-> "vector_baseline", hits |-> hits, tokens |-> 0] :
         hits \in VectorHits(m)}
  ELSE IF navigation = "auto" /\ SmallDocument(m)
  THEN {[Accept(NothingRead, PageNodes(m)) EXCEPT !.mode = "flat", !.status = "complete"]}
  ELSE AgentReadings(m)

\* _read_hits: a task's policy decides unless it is "auto"; a deployment that disabled
\* navigation refuses "agent" and reads by vector.
Requests == {q \in [policy : {"auto", "vector", "agent"}, deployed : {"auto", "vector", "agent"},
                    enabled : BOOLEAN] : q.policy = "agent" => q.enabled}
Navigation(q) ==
  IF ~q.enabled THEN "vector" ELSE IF q.policy # "auto" THEN q.policy ELSE q.deployed

\* What a question may be answered from: the workflow's reading, or the worker's, which
\* knows no policy.
QuestionReadings(m) == UNION {Readings(m, Navigation(q)) : q \in Requests}
WorkerReadings(m) ==
  UNION {Readings(m, Navigation(q)) : q \in {r \in Requests : r.policy = "auto"}}

\* generate_cited_answer: an answer from a versioned document must quote what was read,
\* and nothing else; other answers need no citation.
MustCite(m, r) == r.hits \cap PageNodes(m) # {}
Citations(m, r) == {cited \in SUBSET r.hits : MustCite(m, r) => cited # {}}

-----------------------------------------------------------------------------
(* Properties.                                                              *)

\* "Retrieval returns the original text": what is read and cited is stored, undeleted
\* and original; whatever the model asks for, in whatever order, its reading keeps the
\* budget of pages and tokens over all turns together; a small document is read whole.
SoundReading(m, r) ==
  /\ \A cited \in Citations(m, r) : cited \subseteq Live(m) \cap Sources(m)
  /\ r.mode # "vector" => Cardinality(r.hits) <= MaxPages /\ Tokens(r.hits) <= MaxTokens
  /\ r.mode = "flat" => r.hits = Live(m) \cap Sources(m)
  /\ r.status = "complete" => r.hits # {}

\* Every stored snapshot is also reached with no process running, so it is enough to
\* read it then.
ReadingsAreSound ==
  open = {} => \A r \in QuestionReadings(store.mem) \cup WorkerReadings(store.mem) :
                 SoundReading(store.mem, r)

\* The memory is well formed, and whoever reads it next reads it soundly.
MemoryIsReadable == MemoryTypeOK /\ ReadingsAreSound
=============================================================================
