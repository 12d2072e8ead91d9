--------------------------- MODULE ProjectMemory ---------------------------
(***************************************************************************)
(* Long-term project memory: dataset/long_term_memory.py keeps one snapshot*)
(* of the knowledge graph per project in SQLite, dataset/graph.py holds a  *)
(* copy of it per process and writes every change back, and                *)
(* dataset/page_index_memory.py imports documents as pages under sections. *)
(*                                                                         *)
(* A node's wording is abstracted to the source texts it is made from, so  *)
(* that a stale summary can be told from a fresh one: the wording of a     *)
(* source is one piece, that of a summary the union of its inputs'.        *)
(*                                                                         *)
(* A graph object is used by one thread, so every method is one action; the*)
(* processes meet in the snapshot alone, whose revision save compares.     *)
(* Left out: vectors, edges and the FAISS index (rebuilt from the nodes),  *)
(* cluster seeds, and the marks left by max_cluster_size, which repeat     *)
(* those of _propagate_dirty.                                              *)
(***************************************************************************)
EXTENDS Naturals, FiniteSets, FiniteSetsExt, Sequences

CONSTANTS
  Engines,      \* processes that opened the project's memory
  Pages,        \* the pages of the one document that is imported
  Sections,     \* its sections: a sequence of [first, last, parent], parents first
  \* Bounds of the model:
  MaxId,        \* no node is added past this id
  MaxRevision,  \* no more snapshots are saved than this
  MaxUnsaved    \* no object is changed more often than this without being saved

\* What Section requires: pages count from 1, and a subsection lies within its section.
ASSUME DocumentAssumption ==
  /\ Pages \in Nat
  /\ Sections \in Seq([first : Nat, last : Nat, parent : Nat])
  /\ \A i \in DOMAIN Sections :
       /\ Sections[i].parent < i /\ 0 < Sections[i].first
       /\ Sections[i].first <= Sections[i].last /\ Sections[i].last <= Pages
       /\ Sections[i].parent # 0 =>
            /\ Sections[Sections[i].parent].first <= Sections[i].first
            /\ Sections[i].last <= Sections[Sections[i].parent].last
ASSUME MemoryBoundsAssumption == {MaxId, MaxRevision, MaxUnsaved} \subseteq Nat

VARIABLES
  store,     \* the project_memory row: its revision and the snapshot
  mem,       \* per process: the graph object
  base,      \* _memory_revision: the revision it was loaded from or saved as
  unsaved,   \* _memory_pending, as the number of changes it stands for
  open       \* the processes that hold a graph object

engine == <<mem, base, unsaved, open>>
memoryVars == <<store, engine>>

-----------------------------------------------------------------------------
(* Snapshots.                                                               *)

Ids    == 1 .. MaxId
NoNode == 0
Texts  == Ids \X Engines     \* a source text: the id it was added under, and by whom

Nodes == [kind : {"raw", "section", "summary"}, live : BOOLEAN, nav : BOOLEAN,
          parent : Ids \cup {NoNode}, sources : SUBSET Ids, text : SUBSET Texts,
          flag : BOOLEAN, page : 0 .. Pages]   \* page: of the document, else 0

EmptyMemory == [node |-> << >>, dirty |-> {}]

Has(m, n)     == n \in DOMAIN m.node
Live(m)       == {n \in DOMAIN m.node : m.node[n].live}
Sources(m)    == {n \in DOMAIN m.node : m.node[n].kind = "raw"}
Summaries(m)  == {n \in Live(m) : m.node[n].kind # "raw"}
LiveKids(m, n)  == {k \in Live(m) : m.node[k].parent = n}
KidSummaries(m, n) == LiveKids(m, n) \cap Summaries(m)

\* _generate_unique_id
NextId(m) == IF DOMAIN m.node = {} THEN 1 ELSE Max(DOMAIN m.node) + 1

\* The vertices after new ones came in beside the old ones, or in their place.
Joined(new, old) == [n \in DOMAIN new \cup DOMAIN old |-> IF n \in DOMAIN new THEN new[n] ELSE old[n]]

Source(p, n, parent) ==
  [kind |-> "raw", live |-> TRUE, nav |-> FALSE, parent |-> parent, sources |-> {},
   text |-> {<<n, p>>}, flag |-> FALSE, page |-> 0]

\* The node and everything its parent_id chain leads to.
Chain(m, n) ==
  LET up[k \in DOMAIN m.node] == {k} \cup IF Has(m, m.node[k].parent) THEN up[m.node[k].parent] ELSE {}
  IN up[n]

\* Variant: only the owner's chain is marked, not every section over the page.
PropagateAlongParents(m, n) ==
  LET marked == {k \in Chain(m, n) : m.node[k].kind # "raw"}
  IN [node  |-> [k \in DOMAIN m.node |-> IF k \in marked THEN [m.node[k] EXCEPT !.flag = TRUE] ELSE m.node[k]],
      dirty |-> m.dirty \cup marked]

\* _propagate_dirty: every live section over the page, and the summaries up the chain.
PropagateDirty(m, n) ==
  LET marked == {s \in Summaries(m) : m.node[s].kind = "section" /\ n \in m.node[s].sources}
                \cup {k \in Chain(m, n) : m.node[k].kind # "raw"}
  IN [node  |-> [k \in DOMAIN m.node |-> IF k \in marked THEN [m.node[k] EXCEPT !.flag = TRUE] ELSE m.node[k]],
      dirty |-> m.dirty \cup marked]

\* postorder's expansion: the dirty summaries and all that depend on them.
Affected(m, dirty) == UNION {Chain(m, s) \cap Summaries(m) : s \in dirty \cap Summaries(m)}

\* section_inputs: the child sections that still have a live source, and the live
\* sources no child covers.
SectionText(m, s, text) ==
  LET covered == UNION {m.node[k].sources : k \in KidSummaries(m, s)}
      worded  == {k \in KidSummaries(m, s) : m.node[k].sources \cap Live(m) # {}}
  IN UNION ({text[k] : k \in worded} \cup
            {text[n] : n \in (m.node[s].sources \ covered) \cap Live(m)})

\* The wordings after _rewrite_summaries went through todo, children first.  A plain
\* summary without live children is skipped, a section is reduced to its title.
Reworded(m, todo) ==
  LET text[n \in DOMAIN m.node] ==
        IF n \notin todo THEN m.node[n].text
        ELSE IF m.node[n].kind = "section" THEN SectionText(m, n, text)
        ELSE IF LiveKids(m, n) = {} THEN m.node[n].text
        ELSE UNION {text[k] : k \in LiveKids(m, n)}
  IN text

-----------------------------------------------------------------------------
(* Saving.                                                                  *)

MemoryInit ==
  /\ store = [rev |-> 0, mem |-> EmptyMemory]
  /\ mem = [p \in Engines |-> EmptyMemory]
  /\ base = [p \in Engines |-> 0]
  /\ unsaved = [p \in Engines |-> 0]
  /\ open = {}

\* Variant: save does not compare revisions.
SaveAnyway(p, m) ==
  /\ store.rev < MaxRevision
  /\ store' = [rev |-> store.rev + 1, mem |-> m]
  /\ base' = [base EXCEPT ![p] = store.rev + 1]
  /\ unsaved' = [unsaved EXCEPT ![p] = 0]
  /\ mem' = [mem EXCEPT ![p] = m]

\* save: a snapshot replaces only the one it was made from.
Save(p, m) ==
  /\ store.rev = base[p]
  /\ store.rev < MaxRevision
  /\ store' = [rev |-> store.rev + 1, mem |-> m]
  /\ base' = [base EXCEPT ![p] = store.rev + 1]
  /\ unsaved' = [unsaved EXCEPT ![p] = 0]
  /\ mem' = [mem EXCEPT ![p] = m]

\* Variant: the pending mark is set after save, so a failing save leaves none.
SaveFailsUnmarked(p, m) ==
  /\ mem' = [mem EXCEPT ![p] = m]
  /\ UNCHANGED <<store, base, unsaved>>

\* save raises MemoryConflict, or the disk fails: the change stays in the object.
SaveFails(p, m) ==
  /\ unsaved[p] < MaxUnsaved
  /\ unsaved' = [unsaved EXCEPT ![p] = @ + 1]
  /\ mem' = [mem EXCEPT ![p] = m]
  /\ UNCHANGED <<store, base>>

\* persist_memory after a single change.
Persist(p, m) == (Save(p, m) \/ SaveFails(p, m)) /\ UNCHANGED open

\* memory_transaction: the whole change is saved, or the object is restored as it was.
Transaction(p, m) == Save(p, m) /\ UNCHANGED open

-----------------------------------------------------------------------------
(* What a process does.                                                     *)

\* restore_graph: the object becomes the snapshot, its marks and tombstones included.
Load(p) ==
  /\ mem' = [mem EXCEPT ![p] = store.mem]
  /\ base' = [base EXCEPT ![p] = store.rev]
  /\ unsaved' = [unsaved EXCEPT ![p] = 0]
  /\ UNCHANGED store

\* enable_memory: a new process loads the snapshot.
Open(p) ==
  /\ p \notin open
  /\ open' = open \cup {p}
  /\ Load(p)

Crash(p) ==
  /\ p \in open
  /\ open' = open \ {p}
  /\ mem' = [mem EXCEPT ![p] = EmptyMemory]
  /\ base' = [base EXCEPT ![p] = 0]
  /\ unsaved' = [unsaved EXCEPT ![p] = 0]
  /\ UNCHANGED store

\* refresh_memory: refused while something is unsaved, unless told to discard it.
Refresh(p, discard) ==
  /\ p \in open
  /\ IF discard THEN unsaved[p] > 0 ELSE unsaved[p] = 0 /\ store.rev # base[p]
  /\ Load(p)
  /\ UNCHANGED open

\* Where mount_to_parent may mount a new source: under the most similar summary that
\* is not a section, or nowhere.
Mounts(m) == {NoNode} \cup {s \in Summaries(m) : m.node[s].kind = "summary"}

\* add_node of a source under an id the object does not have.
Added(p, n, parent) ==
  PropagateDirty([mem[p] EXCEPT !.node = Joined([k \in {n} |-> Source(p, k, parent)], @)], n)

AddNode(p, parent) ==
  LET n == NextId(mem[p]) IN
  /\ p \in open /\ n \in Ids /\ parent \in Mounts(mem[p])
  /\ Persist(p, Added(p, n, parent))

\* build_initial_graph_batch: several sources at once, into an empty graph only.
BuildInitial(p, n) ==
  /\ p \in open
  /\ DOMAIN mem[p].node = {}
  /\ Persist(p, [mem[p] EXCEPT !.node = [k \in 1 .. n |-> Source(p, k, NoNode)]])

\* generate_summary_node: the children move under a new summary; the one they were
\* under before is told nothing.
GenerateSummary(p, kids) ==
  LET m == mem[p]
      n == NextId(m)
      new == [kind |-> "summary", live |-> TRUE, nav |-> TRUE, parent |-> NoNode, sources |-> {},
              text |-> UNION {m.node[k].text : k \in kids}, flag |-> FALSE, page |-> 0]
      moved == [k \in DOMAIN m.node |-> IF k \in kids THEN [m.node[k] EXCEPT !.parent = n] ELSE m.node[k]]
  IN /\ p \in open /\ n \in Ids
     /\ kids # {} /\ \A k \in kids : m.node[k].kind # "section"
     /\ Persist(p, [node |-> Joined([k \in {n} |-> new], moved), dirty |-> m.dirty \ {n}])

\* tombstone_node.  Repeated, it reports success without saving again.
Tombstoned(m, n) == PropagateDirty([m EXCEPT !.node[n].live = FALSE], n)

Tombstone(p, n) ==
  /\ p \in open
  /\ n \in Live(mem[p])
  /\ Persist(p, Tombstoned(mem[p], n))

\* import_tree: pages and sections get the next ids in that order; a page belongs to
\* the shortest section over it.  The sections are worded (their summaries were given
\* or generated) or carry titles only.  All of it is committed at once.
Over(i) == Sections[i].first .. Sections[i].last
Owner(page) ==
  LET over == {i \in DOMAIN Sections : page \in Over(i)}
      shortest == {i \in over : \A j \in over : Cardinality(Over(i)) <= Cardinality(Over(j))}
  IN IF over = {} THEN 0 ELSE Min(shortest)

Document(p, first, worded) ==
  LET page(i)    == first + i - 1
      section(i) == IF i = 0 THEN NoNode ELSE first + Pages + i - 1
  IN [n \in first .. (first + Pages + Len(Sections) - 1) |->
       IF n < first + Pages
       THEN [Source(p, n, section(Owner(n - first + 1))) EXCEPT !.page = n - first + 1]
       ELSE LET i == n - first - Pages + 1 IN
            [kind |-> "section", live |-> TRUE, nav |-> TRUE, parent |-> section(Sections[i].parent),
             sources |-> {page(k) : k \in Over(i)}, flag |-> FALSE, page |-> 0,
             text |-> IF worded THEN {<<page(k), p>> : k \in Over(i)} ELSE {}]]

ImportTree(p, worded) ==
  LET m == mem[p]
      first == NextId(m)
  IN /\ p \in open /\ Pages > 0
     /\ first + Pages + Len(Sections) - 1 <= MaxId
     /\ \A n \in DOMAIN m.node : m.node[n].kind # "section"    \* else it is reused
     /\ Transaction(p, [m EXCEPT !.node = Joined(Document(p, first, worded), @)])

\* nightly_recalc_summaries, when every summary could be generated; otherwise the
\* transaction leaves everything as it was.  It saves even if nothing was dirty.
Rewritten(m) ==
  LET todo == Affected(m, m.dirty)
      text == Reworded(m, todo)
      done == {s \in todo : m.node[s].kind = "section" \/ LiveKids(m, s) # {}}
  IN [node |-> [n \in DOMAIN m.node |->
                 IF n \in done THEN [m.node[n] EXCEPT !.text = text[n], !.flag = FALSE] ELSE m.node[n]],
      dirty |-> {}]

Recalculate(p) ==
  /\ p \in open
  /\ Transaction(p, Rewritten(mem[p]))

EngineStep(p) ==
  \/ \E discard \in BOOLEAN : Refresh(p, discard)
  \/ \E parent \in Mounts(mem[p]) : AddNode(p, parent)
  \/ \E n \in Ids : BuildInitial(p, n)
  \/ \E kids \in SUBSET DOMAIN mem[p].node : GenerateSummary(p, kids)
  \/ \E worded \in BOOLEAN : ImportTree(p, worded)
  \/ Recalculate(p)

-----------------------------------------------------------------------------
(* Properties.                                                              *)

Memories(m) == /\ DOMAIN m.node \subseteq Ids
               /\ \A n \in DOMAIN m.node : m.node[n] \in Nodes
               /\ m.dirty \subseteq DOMAIN m.node

\* Snapshots and graph objects are well formed, and no object claims a revision that
\* was never saved.
MemoryTypeOK ==
  /\ store.rev \in 0 .. MaxRevision /\ Memories(store.mem)
  /\ \A p \in Engines : Memories(mem[p]) /\ base[p] \in 0 .. store.rev
  /\ unsaved \in [Engines -> 0 .. MaxUnsaved] /\ open \subseteq Engines

\* "An old writer is refused": whatever two processes do, a committed source never
\* disappears or changes its text, and a deletion is never undone.
CommittedStays ==
  [][\A n \in DOMAIN store.mem.node :
       /\ n \in DOMAIN store'.mem.node
       /\ store'.mem.node[n].live => store.mem.node[n].live
       /\ store.mem.node[n].kind = "raw" => store'.mem.node[n].text = store.mem.node[n].text]_memoryVars

\* "A failed local write keeps its unsaved mark": an object without the mark, at the
\* revision of the store, holds exactly what is stored; nothing it shows can be lost.
UnmarkedIsStored ==
  \A p \in open : unsaved[p] = 0 /\ base[p] = store.rev => mem[p] = store.mem

DeletedText(m) == UNION {m.node[n].text : n \in Sources(m) \ Live(m)}

\* "Deleting an article cascades to the summaries": a live section that still words a
\* deleted page is waiting to be rewritten, even if the page was moved under another
\* summary and whoever deleted it was another process. For documents whose sections lie
\* side by side, as here: with nested ones a bridge that took an id of the document
\* (SourcesAreEvidence) may clear the mark of the section around it.
DeletedPageMarked ==
  \A m \in {store.mem} \cup {mem[p] : p \in open} : \A s \in Summaries(m) :
    m.node[s].kind = "section" /\ m.node[s].text \cap DeletedText(m) # {} => s \in m.dirty
=============================================================================
