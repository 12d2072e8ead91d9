---------------------------- MODULE MemoryBridge ----------------------------
(***************************************************************************)
(* dataset/memory_graph_bridge.py: a process that feeds its knowledge both *)
(* to the project's graph (ProjectMemory) and to the clusters kept by      *)
(* dataset/IncrementalMemoryManager.py, which exist in this process only   *)
(* until sync_dirty_summaries writes them into the graph.                  *)
(*                                                                         *)
(* Which clusters a new piece of knowledge is similar enough to            *)
(* (DynamicThresholder.split, the floor of 0.4) is left open: any non-empty*)
(* set of them, or none, which makes a new cluster.  Modelled with         *)
(* long-term memory on: a failed graph write is raised, so nothing is ever *)
(* pending for retry_pending_sync.                                         *)
(***************************************************************************)
EXTENDS ProjectMemory

CONSTANT Bridged     \* the processes that put a bridge on their graph object

ASSUME BridgedAssumption == Bridged \subseteq Engines

VARIABLE
  mm          \* per process: MockGraphDB and the texts and cluster vectors beside it

bridgeVars == <<memoryVars, mm>>

\* text: text_storage; index: the keys of summary_embeddings; last: _id_counter.
NoDrafts == [node |-> << >>, edge |-> {}, index |-> {}, last |-> 0]

BridgeInit == MemoryInit /\ mm = [p \in Engines |-> NoDrafts]

-----------------------------------------------------------------------------
(* The drafts of one process.                                               *)

DraftSummaries(d) == {n \in DOMAIN d.node : d.node[n].summary}
LiveDrafts(d)     == {n \in DraftSummaries(d) : d.node[n].live}
DraftKids(d, n)   == {k \in DOMAIN d.node : <<n, k>> \in d.edge}

\* bootstrap_from_graph: summaries with their marks, sources, and the links of both kinds.
Bootstrap(m) ==
  [node  |-> [n \in DOMAIN m.node |->
               [summary |-> m.node[n].kind # "raw", live |-> m.node[n].live, text |-> m.node[n].text,
                dirty |-> m.node[n].kind # "raw" /\ (m.node[n].flag \/ n \in m.dirty)]],
   edge  |-> {<<m.node[n].parent, n>> : n \in {k \in DOMAIN m.node : Has(m, m.node[k].parent)}}
             \cup UNION {{<<n, s>> : s \in m.node[n].sources} : n \in DOMAIN m.node},
   index |-> Summaries(m),
   last  |-> Max(DOMAIN m.node \cup {0})]

\* mark_dirty on some nodes; unknown ones are ignored.
Soil(d, marked) ==
  [d EXCEPT !.node = [n \in DOMAIN d.node |->
     IF n \in marked THEN [d.node[n] EXCEPT !.dirty = TRUE] ELSE d.node[n]]]

\* _propagate_dirty_upwards: from a cluster up, stopping at parents already dirty.
CleanAbove(d, c) ==
  LET above(S) == {q \in DOMAIN d.node : ~d.node[q].dirty /\ \E n \in S : <<q, n>> \in d.edge}
  IN {q \in DOMAIN d.node : \A S \in SUBSET DOMAIN d.node : above({c} \cup S) \subseteq S => q \in S}

\* inject_new_knowledge: a leaf under every accepted cluster, or under a new one of its
\* own; _create_new_cluster gives it a wording but no text_storage entry.
Mounted(d, n, p, accepted) ==
  LET leaf == [summary |-> FALSE, live |-> TRUE, text |-> {<<n, p>>}, dirty |-> FALSE]
      new  == [summary |-> TRUE, live |-> TRUE, text |-> {}, dirty |-> TRUE]
  IN IF accepted # {}
     THEN Soil([node |-> Joined([k \in {n} |-> leaf], d.node), index |-> d.index, last |-> n,
                edge |-> d.edge \cup {<<c, n>> : c \in accepted}],
               accepted \cup UNION {CleanAbove(d, c) : c \in accepted})
     ELSE [node |-> Joined([k \in {n, n + 1} |-> IF k = n THEN leaf ELSE new], d.node),
           edge |-> d.edge \cup {<<n + 1, n>>}, index |-> d.index \cup {n + 1}, last |-> n + 1]

-----------------------------------------------------------------------------
(* What a process with a bridge does.                                       *)

\* A process starts: the graph object is loaded and, if it has a bridge, so are the drafts.
BridgeOpen(p) ==
  /\ Open(p)
  /\ mm' = [mm EXCEPT ![p] = IF p \in Bridged THEN Bootstrap(store.mem) ELSE NoDrafts]

BridgeCrash(p) == Crash(p) /\ mm' = [mm EXCEPT ![p] = NoDrafts]

\* The clusters that take a new leaf: whatever split finds similar enough.
Accepted(p) == SUBSET mm[p].index

\* inject_knowledge writes the drafts first, with the drafts' own counter, and the graph
\* second; what the graph refuses (an id it has, a failed save) stays in the drafts.
Inject(p, accepted, parent) ==
  LET n == mm[p].last + 1 IN
  /\ p \in open \cap Bridged /\ n < MaxId
  /\ mm' = [mm EXCEPT ![p] = Mounted(@, n, p, accepted)]
  /\ IF Has(mem[p], n)
     THEN parent = NoNode /\ UNCHANGED memoryVars
     ELSE parent \in Mounts(mem[p]) /\ Persist(p, Added(p, n, parent))

\* The wordings _sync_dirty_summaries stages for todo: sections from the graph, where only
\* what the drafts place below them is rewritten before them, other clusters from the
\* texts of their live drafts.
Staged(m, d, todo) ==
  LET section(n) == Has(m, n) /\ m.node[n].kind = "section"
      text[n \in DOMAIN m.node \cup DOMAIN d.node] ==
        IF n \notin todo THEN IF n \in DOMAIN d.node THEN d.node[n].text ELSE m.node[n].text
        ELSE IF section(n)
        THEN SectionText(m, n, [k \in DOMAIN m.node |->
               IF k \in todo \ Sources(m) /\ <<n, k>> \in d.edge THEN text[k] ELSE m.node[k].text])
        ELSE UNION {text[k] : k \in {c \in DraftKids(d, n) : d.node[c].live}}
  IN text

\* Variant: the graph is committed without the new wording of known summaries.
SyncedKeepsWording(m, d, done, text) ==
  LET known == DOMAIN m.node
      section(n) == Has(m, n) /\ m.node[n].kind = "section"
      new(n) == [kind |-> "summary", live |-> TRUE, nav |-> TRUE, parent |-> NoNode,
                 sources |-> DraftKids(d, n), text |-> text[n], flag |-> TRUE, page |-> 0]
  IN [node |-> [n \in known \cup done |-> IF n \in known THEN m.node[n] ELSE new(n)],
      dirty |-> m.dirty \ done]

\* What the graph becomes: known summaries are reworded, unknown ones added, and all of
\* them become navigation over their drafts - whatever the node with that id is.
Synced(m, d, done, text) ==
  LET known == DOMAIN m.node
      section(n) == Has(m, n) /\ m.node[n].kind = "section"
      navigation(n) == [m.node[n] EXCEPT !.nav = TRUE, !.sources = IF section(n) THEN @ ELSE DraftKids(d, n)]
      new(n) == [kind |-> "summary", live |-> TRUE, nav |-> TRUE, parent |-> NoNode,
                 sources |-> DraftKids(d, n), text |-> text[n], flag |-> TRUE, page |-> 0]
  IN [node |-> [n \in known \cup done |->
                 IF n \notin done THEN m.node[n]
                 ELSE IF n \notin known THEN new(n)
                 ELSE IF m.node[n].kind = "raw" THEN navigation(n)
                 ELSE [navigation(n) EXCEPT !.text = text[n], !.flag = FALSE]],
      dirty |-> m.dirty \ done]

\* postorder's expansion: the dirty live clusters and, up to the last, those above them.
ToSync(p) ==
  LET d == mm[p]
      dirty == {n \in DOMAIN d.node : d.node[n].dirty} \cup mem[p].dirty
      above(S) == {n \in LiveDrafts(d) : n \in dirty \/ \E k \in S : <<n, k>> \in d.edge}
  IN {n \in LiveDrafts(d) : \A S \in SUBSET LiveDrafts(d) : above(S) \subseteq S => n \in S}

\* Each cluster of some set waits for another one of it: postorder raises.
Cyclic(d, todo) == \E S \in (SUBSET todo) \ {{}} : \A n \in S : \E k \in S : <<n, k>> \in d.edge

\* sync_dirty_summaries: one transaction, and the drafts are acknowledged after it.  A
\* cycle, a failed generation or a failed save leaves both sides as they were.  The
\* transaction saves even if there was nothing to do.
SyncDirtySummaries(p) ==
  LET d == mm[p]
      todo == ToSync(p)
      text == Staged(mem[p], d, todo)
      done == {n \in todo : text[n] # {} \/ (Has(mem[p], n) /\ mem[p].node[n].kind = "section")}
  IN /\ p \in open \cap Bridged
     /\ ~Cyclic(d, todo)
     /\ Transaction(p, Synced(mem[p], d, done, text))
     /\ mm' = [mm EXCEPT
          ![p].node = [n \in DOMAIN d.node |->
             IF n \in done THEN [d.node[n] EXCEPT !.text = text[n], !.dirty = FALSE] ELSE d.node[n]],
          ![p].index = @ \cup done]

\* tombstone_knowledge: the graph first; a failed save is raised before the drafts hear
\* of it.  Direct parents only are marked in the drafts.
TombstoneKnowledge(p, n) ==
  LET d == mm[p]
      dead == [d EXCEPT !.node[n].live = FALSE]
      told == mm' = [mm EXCEPT ![p] = Soil(dead, {q \in DOMAIN d.node : <<q, n>> \in d.edge})]
  IN /\ p \in open \cap Bridged
     /\ n \in DOMAIN d.node
     /\ IF n \in Live(mem[p])
        THEN \/ Save(p, Tombstoned(mem[p], n)) /\ UNCHANGED open /\ told
             \/ SaveFails(p, Tombstoned(mem[p], n)) /\ UNCHANGED <<open, mm>>
        ELSE told /\ UNCHANGED memoryVars

BridgeStep(p) ==
  \/ \E accepted \in Accepted(p), parent \in Mounts(mem[p]) : Inject(p, accepted, parent)
  \/ SyncDirtySummaries(p)
  \/ \E n \in DOMAIN mm[p].node : TombstoneKnowledge(p, n)

Next ==
  \E p \in Engines :
    \/ BridgeOpen(p)
    \/ BridgeCrash(p)
    \/ BridgeStep(p)
    \/ EngineStep(p) /\ UNCHANGED mm
    \/ \E n \in Live(mem[p]) : Tombstone(p, n) /\ UNCHANGED mm

Spec == BridgeInit /\ [][Next]_bridgeVars

-----------------------------------------------------------------------------
(* Properties.                                                              *)

\* "A failed synchronisation does not clear the runtime marks": a draft cluster loses its
\* mark only in the step that commits its wording, and from then on the graph has it.
AcknowledgedAfterCommit ==
  [][\A p \in Bridged : \A c \in LiveDrafts(mm[p]) :
       mm[p].node[c].dirty /\ p \in open /\ p \in open' /\ ~mm'[p].node[c].dirty =>
         /\ store'.rev = store.rev + 1
         /\ c \in DOMAIN store'.mem.node
         /\ store'.mem.node[c].kind # "raw" => store'.mem.node[c].text = mm'[p].node[c].text]_bridgeVars

\* "Retrieval returns the original text": a stored source is evidence, never navigation
\* that is expanded into other nodes.
SourcesAreEvidence ==
  \A n \in DOMAIN store.mem.node : store.mem.node[n].kind = "raw" => ~store.mem.node[n].nav
=============================================================================
