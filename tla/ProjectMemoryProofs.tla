------------------------- MODULE ProjectMemoryProofs -------------------------
(***************************************************************************)
(* What the project's memory keeps for any number of processes, with and   *)
(* without a bridge, any document and any number of changes: nothing that  *)
(* was committed is lost or altered, nothing unsaved passes for saved, a   *)
(* draft is acknowledged by the commit of its wording only, and whatever   *)
(* is stored can be read: only original texts are, and within the budget.  *)
(* A deletion marks the sections that still word what was deleted, unless  *)
(* sections are nested and a bridge has taken the id of one of them.       *)
(***************************************************************************)
EXTENDS MemoryBridge, DocumentReading, FiniteSetTheorems, WellFoundedInduction, TLAPS

-----------------------------------------------------------------------------
(* Fresh ids.                                                               *)

\* The largest id of a graph object: ids are bounded, so there is one.
LEMMA LargestId ==
  ASSUME NEW S \in SUBSET (0 .. MaxId), S # {}
  PROVE  Max(S) \in S /\ \A n \in S : n <= Max(S)
<1> DEFINE Bounds == {b \in Nat : \A n \in S : n <= b}
<1> DEFINE Less == OpToRel(<, Nat)
<1>1. MaxId \in Bounds
  BY MemoryBoundsAssumption
<1>2. PICK b \in Bounds : \A a \in Bounds : <<a, b>> \notin Less
  <2>1. IsWellFoundedOn(Less, Nat) /\ Bounds \subseteq Nat /\ Bounds # {}
    BY <1>1, NatLessThanWellFounded
  <2> QED
    BY <2>1, WFMin
<1>3. \A a \in Bounds : ~(a < b)
  BY <1>2 DEF OpToRel
<1>4. b \in S
  <2> SUFFICES ASSUME b \notin S PROVE FALSE
    OBVIOUS
  <2>1. b \in Nat /\ \A n \in S : n \in Nat /\ n <= b /\ n # b
    BY MemoryBoundsAssumption
  <2>2. b # 0
    <3> PICK n \in S : TRUE
      OBVIOUS
    <3> QED
      BY <2>1
  <2>3. \A n \in S : n <= b - 1
    BY <2>1
  <2>4. b - 1 \in Bounds /\ b - 1 < b
    BY <2>1, <2>2, <2>3
  <2> QED
    BY <1>3, <2>4
<1>5. \E x \in S : \A y \in S : x >= y
  BY <1>4
<1> QED
  BY <1>5 DEF Max

LEMMA FreshId ==
  ASSUME NEW m, DOMAIN m.node \subseteq Ids
  PROVE  NextId(m) \in Nat \ {0} /\ \A n \in DOMAIN m.node : n < NextId(m)
<1>1. CASE DOMAIN m.node = {}
  BY <1>1 DEF NextId
<1>2. CASE DOMAIN m.node # {}
  BY <1>2, LargestId, MemoryBoundsAssumption DEF NextId, Ids
<1> QED
  BY <1>1, <1>2

-----------------------------------------------------------------------------
(* What a change of a graph object keeps.                                   *)

NodeFields == {"kind", "live", "nav", "parent", "sources", "text", "flag", "page"}

\* A graph object and its nodes have their fields, whatever is in them.
WellFormed(m) ==
  /\ DOMAIN m = {"node", "dirty"} /\ DOMAIN m.node \subseteq Ids
  /\ \A n \in DOMAIN m.node : DOMAIN m.node[n] = NodeFields

\* Nodes stay, the dead stay dead, and a source stays what it is.
Kept(old, new) ==
  \A n \in DOMAIN old.node :
    /\ n \in DOMAIN new.node
    /\ new.node[n].live => old.node[n].live
    /\ old.node[n].kind = "raw" => new.node[n].kind = "raw" /\ new.node[n].text = old.node[n].text

Grows(old, new) == WellFormed(new) /\ Kept(old, new)

LEMMA KeptOn ==
  ASSUME NEW a, NEW b, NEW c, Kept(a, b), Kept(b, c)
  PROVE  Kept(a, c)
  BY DEF Kept

LEMMA KeptSelf == \A m : Kept(m, m)
  BY DEF Kept

LEMMA Dirtied ==
  ASSUME NEW m, WellFormed(m), NEW n
  PROVE  Grows(m, PropagateDirty(m, n))
  BY DEF Grows, WellFormed, Kept, PropagateDirty, NodeFields

\* New nodes beside the old ones.
LEMMA Widened ==
  ASSUME NEW m, WellFormed(m), NEW old, DOMAIN old = DOMAIN m.node,
         \A n \in DOMAIN old : /\ DOMAIN old[n] = NodeFields
                               /\ old[n].live = m.node[n].live /\ old[n].kind = m.node[n].kind
                               /\ old[n].text = m.node[n].text,
         NEW new, DOMAIN new \subseteq Ids, DOMAIN new \cap DOMAIN m.node = {},
         \A n \in DOMAIN new : DOMAIN new[n] = NodeFields,
         NEW marks
  PROVE  Grows(m, [node |-> Joined(new, old), dirty |-> marks])
  BY DEF Grows, WellFormed, Kept, Joined

\* A source comes in under an id the object does not have.
LEMMA SourceAdded ==
  ASSUME NEW p \in Engines, WellFormed(mem[p]), NEW n \in Ids, n \notin DOMAIN mem[p].node, NEW parent
  PROVE  Grows(mem[p], Added(p, n, parent))
<1> DEFINE new == [k \in {n} |-> Source(p, k, parent)]
<1> DEFINE m == [mem[p] EXCEPT !.node = Joined(new, @)]
<1>1. m = [node |-> Joined(new, mem[p].node), dirty |-> mem[p].dirty]
  BY DEF WellFormed
<1>2. DOMAIN new = {n} /\ \A k \in DOMAIN new : DOMAIN new[k] = NodeFields
  BY DEF Source, NodeFields
<1>3. Grows(mem[p], m)
  <2> DEFINE old == mem[p].node
  <2>1. /\ DOMAIN new \subseteq Ids /\ DOMAIN new \cap DOMAIN old = {}
        /\ \A k \in DOMAIN old : DOMAIN old[k] = NodeFields
    BY <1>2 DEF WellFormed
  <2> HIDE DEF new, m
  <2>2. \A marks : Grows(mem[p], [node |-> Joined(new, old), dirty |-> marks])
    BY <1>2, <2>1, Widened
  <2> QED
    BY <1>1, <2>2
<1>4. Grows(m, PropagateDirty(m, n))
  BY <1>3, Dirtied DEF Grows
<1> QED
  BY <1>3, <1>4, KeptOn DEF Grows, Added

\* Several sources come into an empty graph.
LEMMA SourcesAdded ==
  ASSUME NEW p \in Engines, WellFormed(mem[p]), DOMAIN mem[p].node = {}, NEW n \in Ids
  PROVE  Grows(mem[p], [mem[p] EXCEPT !.node = [k \in 1 .. n |-> Source(p, k, NoNode)]])
  BY MemoryBoundsAssumption DEF Grows, WellFormed, Kept, Source, NodeFields, Ids

\* A summary comes in under a fresh id and takes its children over.
LEMMA SummaryAdded ==
  ASSUME NEW m, WellFormed(m), NextId(m) \in Ids, NEW kids, NEW new, DOMAIN new = NodeFields, NEW marks
  PROVE  LET n == NextId(m)
             moved == [k \in DOMAIN m.node |-> IF k \in kids THEN [m.node[k] EXCEPT !.parent = n] ELSE m.node[k]]
         IN  Grows(m, [node |-> Joined([k \in {n} |-> new], moved), dirty |-> marks])
<1> DEFINE n == NextId(m)
<1> DEFINE moved == [k \in DOMAIN m.node |-> IF k \in kids THEN [m.node[k] EXCEPT !.parent = n] ELSE m.node[k]]
<1> DEFINE one == [k \in {n} |-> new]
<1>1. n \notin DOMAIN m.node
  BY FreshId, MemoryBoundsAssumption DEF WellFormed, Ids
<1>2. DOMAIN moved = DOMAIN m.node /\ DOMAIN one = {n} /\ \A k \in DOMAIN one : DOMAIN one[k] = NodeFields
  OBVIOUS
<1>3. \A k \in DOMAIN moved : /\ DOMAIN moved[k] = NodeFields
                              /\ moved[k].live = m.node[k].live /\ moved[k].kind = m.node[k].kind
                              /\ moved[k].text = m.node[k].text
  BY DEF WellFormed, NodeFields
<1>4. DOMAIN one \subseteq Ids /\ DOMAIN one \cap DOMAIN m.node = {}
  BY <1>1, <1>2
<1> HIDE DEF moved, one, n
<1>5. Grows(m, [node |-> Joined(one, moved), dirty |-> marks])
  BY <1>2, <1>3, <1>4, Widened
<1> QED
  BY <1>5 DEF moved, one, n

LEMMA Killed ==
  ASSUME NEW m, WellFormed(m), NEW n \in DOMAIN m.node
  PROVE  Grows(m, Tombstoned(m, n))
<1> DEFINE dead == [m EXCEPT !.node[n].live = FALSE]
<1>1. Grows(m, dead)
  BY DEF Grows, WellFormed, Kept, NodeFields
<1>2. Grows(dead, PropagateDirty(dead, n))
  <2> HIDE DEF dead
  <2> QED
    BY <1>1, Dirtied DEF Grows
<1> QED
  BY <1>1, <1>2, KeptOn DEF Grows, Tombstoned

\* The document's pages and sections come in under fresh ids.
LEMMA DocumentAdded ==
  ASSUME NEW p \in Engines, WellFormed(mem[p]), NEW worded,
         NextId(mem[p]) + Pages + Len(Sections) - 1 <= MaxId
  PROVE  Grows(mem[p], [mem[p] EXCEPT !.node = Joined(Document(p, NextId(mem[p]), worded), @)])
<1> DEFINE old == mem[p].node
<1> DEFINE first == NextId(mem[p])
<1> DEFINE new == Document(p, first, worded)
<1>1. first \in Nat \ {0} /\ \A n \in DOMAIN old : n \in Nat /\ n < first
  BY FreshId, MemoryBoundsAssumption DEF WellFormed, Ids
<1>2. Pages \in Nat /\ Len(Sections) \in Nat
  BY DocumentAssumption
<1>3. DOMAIN new = first .. (first + Pages + Len(Sections) - 1)
  BY DEF Document
<1>4. \A n \in DOMAIN new : DOMAIN new[n] = NodeFields
  BY DEF Document, Source, NodeFields
<1>5. DOMAIN new \subseteq Ids /\ DOMAIN new \cap DOMAIN old = {}
  BY <1>1, <1>2, <1>3, MemoryBoundsAssumption DEF Ids
<1>6. \A n \in DOMAIN old : DOMAIN old[n] = NodeFields
  BY DEF WellFormed
<1>7. [mem[p] EXCEPT !.node = Joined(new, @)] = [node |-> Joined(new, old), dirty |-> mem[p].dirty]
  BY DEF WellFormed
<1> HIDE DEF new
<1>8. \A marks : Grows(mem[p], [node |-> Joined(new, old), dirty |-> marks])
  BY <1>4, <1>5, <1>6, Widened
<1> QED
  BY <1>7, <1>8 DEF new

\* The rewriting rewords summaries.
LEMMA SummariesRewritten ==
  ASSUME NEW m, WellFormed(m)
  PROVE  Grows(m, Rewritten(m))
<1> DEFINE new == Rewritten(m)
<1>1. DOMAIN new = {"node", "dirty"} /\ DOMAIN new.node = DOMAIN m.node
  BY DEF Rewritten
<1>2. ASSUME NEW n \in DOMAIN m.node
      PROVE  /\ DOMAIN new.node[n] = NodeFields /\ new.node[n].live = m.node[n].live
             /\ m.node[n].kind = "raw" => new.node[n].kind = "raw" /\ new.node[n].text = m.node[n].text
  BY DEF Rewritten, WellFormed, NodeFields, Affected, Summaries
<1> HIDE DEF new
<1>3. Grows(m, new)
  BY <1>1, <1>2 DEF Grows, WellFormed, Kept
<1> QED
  BY <1>3 DEF new

\* The bridge rewords summaries, adds some, and leaves the text of a source alone.
LEMMA DraftsSynced ==
  ASSUME NEW m, WellFormed(m), NEW d, NEW done \in SUBSET Ids, NEW text
  PROVE  Grows(m, Synced(m, d, done, text))
<1> DEFINE new == Synced(m, d, done, text)
<1>1. DOMAIN new = {"node", "dirty"} /\ DOMAIN new.node = DOMAIN m.node \cup done
  BY DEF Synced
<1>2. ASSUME NEW n \in DOMAIN m.node
      PROVE  /\ DOMAIN new.node[n] = NodeFields /\ new.node[n].live = m.node[n].live
             /\ m.node[n].kind = "raw" => new.node[n].kind = "raw" /\ new.node[n].text = m.node[n].text
  BY DEF Synced, WellFormed, NodeFields
<1>3. ASSUME NEW n \in done, n \notin DOMAIN m.node PROVE DOMAIN new.node[n] = NodeFields
  BY <1>3 DEF Synced, NodeFields
<1> HIDE DEF new
<1>4. Grows(m, new)
  BY <1>1, <1>2, <1>3 DEF Grows, WellFormed, Kept
<1> QED
  BY <1>4 DEF new

-----------------------------------------------------------------------------
(* The objects and the snapshot.                                            *)

\* An object at the store's revision grew out of what is stored.
ObjectsInv ==
  /\ store.rev \in Nat /\ WellFormed(store.mem)
  /\ DOMAIN mem = Engines /\ open \subseteq Engines
  /\ base \in [Engines -> Nat] /\ unsaved \in [Engines -> Nat]
  /\ \A p \in Engines : WellFormed(mem[p]) /\ base[p] <= store.rev
  /\ \A p \in open : base[p] = store.rev => Kept(store.mem, mem[p])

MemoryInv == ObjectsInv /\ UnmarkedIsStored

\* What CommittedStays says of a step.
StoreKept == Kept(store.mem, store'.mem)

LEMMA SaveStep ==
  ASSUME MemoryInv, NEW p \in open, NEW m, Grows(mem[p], m), Save(p, m), UNCHANGED open
  PROVE  MemoryInv' /\ StoreKept /\ store'.rev = store.rev + 1
<1>1. p \in Engines /\ store.rev = base[p] /\ WellFormed(m) /\ Kept(mem[p], m) /\ Kept(store.mem, mem[p])
  BY DEF MemoryInv, ObjectsInv, Grows, Save
<1>2. /\ store'.rev = store.rev + 1 /\ store'.mem = m /\ DOMAIN mem' = Engines
      /\ \A q \in Engines : /\ mem'[q] = IF q = p THEN m ELSE mem[q]
                            /\ base'[q] = IF q = p THEN store.rev + 1 ELSE base[q]
                            /\ unsaved'[q] = IF q = p THEN 0 ELSE unsaved[q]
      /\ base' \in [Engines -> Nat] /\ unsaved' \in [Engines -> Nat]
  BY DEF MemoryInv, ObjectsInv, Save
<1>3. ObjectsInv'
  BY <1>1, <1>2, KeptSelf DEF MemoryInv, ObjectsInv
<1>4. UnmarkedIsStored'
  BY <1>1, <1>2 DEF MemoryInv, ObjectsInv, UnmarkedIsStored
<1> QED
  BY <1>1, <1>2, <1>3, <1>4, KeptOn DEF MemoryInv, StoreKept

LEMMA FailStep ==
  ASSUME MemoryInv, NEW p \in open, NEW m, Grows(mem[p], m), SaveFails(p, m), UNCHANGED open
  PROVE  MemoryInv' /\ StoreKept /\ UNCHANGED store
<1>1. p \in Engines /\ WellFormed(m) /\ Kept(mem[p], m)
  BY DEF MemoryInv, ObjectsInv, Grows
<1>2. /\ DOMAIN mem' = Engines /\ UNCHANGED <<store, base>>
      /\ \A q \in Engines : /\ mem'[q] = IF q = p THEN m ELSE mem[q]
                            /\ unsaved'[q] = IF q = p THEN unsaved[q] + 1 ELSE unsaved[q]
      /\ unsaved' \in [Engines -> Nat]
  BY DEF MemoryInv, ObjectsInv, SaveFails
<1>3. ObjectsInv'
  BY <1>1, <1>2, KeptOn DEF MemoryInv, ObjectsInv
<1>4. UnmarkedIsStored'
  BY <1>1, <1>2 DEF MemoryInv, ObjectsInv, UnmarkedIsStored
<1> QED
  BY <1>2, <1>3, <1>4, KeptSelf DEF MemoryInv, StoreKept

LEMMA LoadStep ==
  ASSUME MemoryInv, NEW p \in Engines, Load(p), open' = open \cup {p} \/ UNCHANGED open
  PROVE  MemoryInv' /\ StoreKept /\ UNCHANGED store
<1>2. /\ DOMAIN mem' = Engines /\ UNCHANGED store
      /\ \A q \in Engines : /\ mem'[q] = IF q = p THEN store.mem ELSE mem[q]
                            /\ base'[q] = IF q = p THEN store.rev ELSE base[q]
                            /\ unsaved'[q] = IF q = p THEN 0 ELSE unsaved[q]
      /\ base' \in [Engines -> Nat] /\ unsaved' \in [Engines -> Nat]
      /\ \A q \in open' : q = p \/ q \in open
  BY DEF MemoryInv, ObjectsInv, Load
<1>3. ObjectsInv'
  BY <1>2, KeptSelf DEF MemoryInv, ObjectsInv
<1>4. UnmarkedIsStored'
  BY <1>2 DEF MemoryInv, ObjectsInv, UnmarkedIsStored
<1> QED
  BY <1>2, <1>3, <1>4, KeptSelf DEF MemoryInv, StoreKept

LEMMA EmptyIsWellFormed == WellFormed(EmptyMemory)
  BY DEF WellFormed, EmptyMemory

LEMMA CrashStep ==
  ASSUME MemoryInv, NEW p \in Engines, Crash(p)
  PROVE  MemoryInv' /\ StoreKept /\ UNCHANGED store
<1>2. /\ DOMAIN mem' = Engines /\ UNCHANGED store
      /\ \A q \in Engines : /\ mem'[q] = IF q = p THEN EmptyMemory ELSE mem[q]
                            /\ base'[q] = IF q = p THEN 0 ELSE base[q]
                            /\ unsaved'[q] = IF q = p THEN 0 ELSE unsaved[q]
      /\ base' \in [Engines -> Nat] /\ unsaved' \in [Engines -> Nat]
      /\ \A q \in open' : q # p /\ q \in open
  BY DEF MemoryInv, ObjectsInv, Crash
<1>3. ObjectsInv'
  BY <1>2, EmptyIsWellFormed DEF MemoryInv, ObjectsInv
<1>4. UnmarkedIsStored'
  BY <1>2 DEF MemoryInv, ObjectsInv, UnmarkedIsStored
<1> QED
  BY <1>2, <1>3, <1>4, KeptSelf DEF MemoryInv, StoreKept

\* A change is saved or stays in the object, unless it must be saved.
LEMMA PersistStep ==
  ASSUME MemoryInv, NEW p \in open, NEW m, Grows(mem[p], m), Persist(p, m) \/ Transaction(p, m)
  PROVE  MemoryInv' /\ StoreKept
  BY SaveStep, FailStep DEF Persist, Transaction

\* Every method of a graph object changes it, and the store, as they may be changed.
LEMMA EngineMoves ==
  ASSUME MemoryInv, NEW p \in Engines, EngineStep(p) \/ \E n \in Live(mem[p]) : Tombstone(p, n)
  PROVE  MemoryInv' /\ StoreKept
<1>0. WellFormed(mem[p])
  BY DEF MemoryInv, ObjectsInv
<1>1. ASSUME NEW discard \in BOOLEAN, Refresh(p, discard) PROVE MemoryInv' /\ StoreKept
  BY <1>1, LoadStep DEF Refresh
<1>2. ASSUME NEW parent \in Mounts(mem[p]), AddNode(p, parent) PROVE MemoryInv' /\ StoreKept
  <2>1. NextId(mem[p]) \in Ids /\ NextId(mem[p]) \notin DOMAIN mem[p].node
    BY <1>0, <1>2, FreshId, MemoryBoundsAssumption DEF AddNode, WellFormed, Ids
  <2> QED
    BY <1>0, <1>2, <2>1, SourceAdded, PersistStep DEF AddNode
<1>3. ASSUME NEW n \in Ids, BuildInitial(p, n) PROVE MemoryInv' /\ StoreKept
  BY <1>0, <1>3, SourcesAdded, PersistStep DEF BuildInitial
<1>4. ASSUME NEW kids \in SUBSET DOMAIN mem[p].node, GenerateSummary(p, kids) PROVE MemoryInv' /\ StoreKept
  <2> DEFINE m == mem[p]
             n == NextId(m)
             new == [kind |-> "summary", live |-> TRUE, nav |-> TRUE, parent |-> NoNode, sources |-> {},
                     text |-> UNION {m.node[k].text : k \in kids}, flag |-> FALSE, page |-> 0]
             moved == [k \in DOMAIN m.node |-> IF k \in kids THEN [m.node[k] EXCEPT !.parent = n] ELSE m.node[k]]
             wider == [node |-> Joined([k \in {n} |-> new], moved), dirty |-> m.dirty \ {n}]
  <2>1. p \in open /\ n \in Ids /\ Persist(p, wider)
    BY <1>4 DEF GenerateSummary
  <2>2. DOMAIN new = NodeFields
    BY DEF NodeFields
  <2>3. Grows(m, wider)
    <3> HIDE DEF new
    <3> QED
      BY <1>0, <2>1, <2>2, SummaryAdded
  <2> HIDE DEF wider
  <2> QED
    BY <2>1, <2>3, PersistStep
<1>5. ASSUME NEW worded \in BOOLEAN, ImportTree(p, worded) PROVE MemoryInv' /\ StoreKept
  BY <1>0, <1>5, DocumentAdded, PersistStep DEF ImportTree
<1>6. ASSUME Recalculate(p) PROVE MemoryInv' /\ StoreKept
  BY <1>0, <1>6, SummariesRewritten, PersistStep DEF Recalculate
<1>7. ASSUME NEW n \in Live(mem[p]), Tombstone(p, n) PROVE MemoryInv' /\ StoreKept
  BY <1>0, <1>7, Killed, PersistStep DEF Tombstone, Live
<1> QED
  BY <1>1, <1>2, <1>3, <1>4, <1>5, <1>6, <1>7 DEF EngineStep

-----------------------------------------------------------------------------
(* The drafts.                                                              *)

DraftFields == {"summary", "live", "text", "dirty"}

\* The drafts have their fields, and their counter is ahead of their ids.
DraftsFormed(d) ==
  /\ DOMAIN d = {"node", "edge", "index", "last"}
  /\ d.last \in 0 .. MaxId /\ DOMAIN d.node \subseteq 1 .. d.last
  /\ \A n \in DOMAIN d.node : DOMAIN d.node[n] = DraftFields

DraftsInv == DOMAIN mm = Engines /\ \A p \in Engines : DraftsFormed(mm[p])

\* No draft of d loses its mark in new.
MarksKept(d, new) ==
  \A c \in DOMAIN d.node : c \in DOMAIN new.node /\ (d.node[c].dirty => new.node[c].dirty)

LEMMA NoDraftsFormed == DraftsFormed(NoDrafts)
  BY MemoryBoundsAssumption DEF DraftsFormed, NoDrafts

LEMMA Bootstrapped ==
  ASSUME NEW m, WellFormed(m)
  PROVE  DraftsFormed(Bootstrap(m))
<1>1. DOMAIN m.node \cup {0} \in SUBSET (0 .. MaxId)
  BY MemoryBoundsAssumption DEF WellFormed, Ids
<1>2. /\ Max(DOMAIN m.node \cup {0}) \in 0 .. MaxId
      /\ \A n \in DOMAIN m.node : n \in 1 .. Max(DOMAIN m.node \cup {0})
  BY <1>1, LargestId, MemoryBoundsAssumption DEF WellFormed, Ids
<1> QED
  BY <1>2 DEF DraftsFormed, Bootstrap, DraftFields

LEMMA Soiled ==
  ASSUME NEW d, DraftsFormed(d), NEW marked
  PROVE  DraftsFormed(Soil(d, marked)) /\ MarksKept(d, Soil(d, marked))
  BY DEF DraftsFormed, MarksKept, Soil, DraftFields

LEMMA LeafMounted ==
  ASSUME NEW d, DraftsFormed(d), d.last + 1 < MaxId, NEW p, NEW accepted
  PROVE  DraftsFormed(Mounted(d, d.last + 1, p, accepted)) /\ MarksKept(d, Mounted(d, d.last + 1, p, accepted))
<1> DEFINE n == d.last + 1
           leaf == [summary |-> FALSE, live |-> TRUE, text |-> {<<n, p>>}, dirty |-> FALSE]
           new == [summary |-> TRUE, live |-> TRUE, text |-> {}, dirty |-> TRUE]
<1>0. DOMAIN leaf = DraftFields /\ DOMAIN new = DraftFields
  BY DEF DraftFields
<1>1. CASE accepted # {}
  <2> DEFINE wider == [node |-> Joined([k \in {n} |-> leaf], d.node), index |-> d.index, last |-> n,
                       edge |-> d.edge \cup {<<c, n>> : c \in accepted}]
  <2>1. DraftsFormed(wider) /\ MarksKept(d, wider)
    <3> HIDE DEF leaf
    <3> QED
      BY <1>0, MemoryBoundsAssumption DEF DraftsFormed, MarksKept, Joined
  <2>2. Mounted(d, n, p, accepted) = Soil(wider, accepted \cup UNION {CleanAbove(d, c) : c \in accepted})
    BY <1>1 DEF Mounted
  <2> HIDE DEF wider
  <2> QED
    BY <2>1, <2>2, Soiled DEF MarksKept
<1>2. CASE accepted = {}
  <2> DEFINE wider == [node |-> Joined([k \in {n, n + 1} |-> IF k = n THEN leaf ELSE new], d.node),
                       edge |-> d.edge \cup {<<n + 1, n>>}, index |-> d.index \cup {n + 1}, last |-> n + 1]
  <2>1. DraftsFormed(wider) /\ MarksKept(d, wider)
    <3> HIDE DEF leaf, new
    <3> QED
      BY <1>0, MemoryBoundsAssumption DEF DraftsFormed, MarksKept, Joined
  <2>2. Mounted(d, n, p, accepted) = wider
    BY <1>2 DEF Mounted
  <2> QED
    BY <2>1, <2>2
<1> QED
  BY <1>1, <1>2

\* A draft that loses its mark does so in the commit of its wording.
Acknowledged(p) ==
  \A c \in LiveDrafts(mm[p]) :
    mm[p].node[c].dirty /\ p \in open /\ p \in open' /\ ~mm'[p].node[c].dirty =>
      /\ store'.rev = store.rev + 1
      /\ c \in DOMAIN store'.mem.node
      /\ store'.mem.node[c].kind # "raw" => store'.mem.node[c].text = mm'[p].node[c].text

DraftsStep == DraftsInv' /\ \A p \in Bridged : Acknowledged(p)

\* A step that takes no mark away.
LEMMA MarksStep ==
  ASSUME DraftsInv, NEW p \in Engines, DOMAIN mm' = Engines, \A q \in Engines : q # p => mm'[q] = mm[q],
         DraftsFormed(mm'[p]),
         MarksKept(mm[p], mm'[p]) \/ p \notin open \/ p \notin open'
  PROVE  DraftsStep
  BY BridgedAssumption DEF DraftsStep, DraftsInv, Acknowledged, MarksKept, LiveDrafts, DraftSummaries

LEMMA SyncStep ==
  ASSUME MemoryInv, DraftsInv, NEW p \in Engines, SyncDirtySummaries(p)
  PROVE  MemoryInv' /\ StoreKept /\ DraftsStep
<1> DEFINE d == mm[p]
           todo == ToSync(p)
           text == Staged(mem[p], d, todo)
           done == {n \in todo : text[n] # {} \/ (Has(mem[p], n) /\ mem[p].node[n].kind = "section")}
           new == Synced(mem[p], d, done, text)
<1>1. p \in open \cap Bridged /\ Save(p, new) /\ UNCHANGED open
  BY DEF SyncDirtySummaries, Transaction
<1>2. mm' = [mm EXCEPT
          ![p].node = [n \in DOMAIN mm[p].node |->
             IF n \in done THEN [mm[p].node[n] EXCEPT !.text = text[n], !.dirty = FALSE] ELSE mm[p].node[n]],
          ![p].index = @ \cup done]
  BY DEF SyncDirtySummaries
<1>3. done \in SUBSET Ids
  BY MemoryBoundsAssumption DEF ToSync, LiveDrafts, DraftSummaries, DraftsInv, DraftsFormed, Ids
<1>4. WellFormed(mem[p])
  BY DEF MemoryInv, ObjectsInv
<1> HIDE DEF todo, text, done
<1>5. Grows(mem[p], new)
  BY <1>3, <1>4, DraftsSynced
<1>6. /\ DraftsInv'
      /\ \A q \in Engines : q # p => mm'[q] = mm[q]
      /\ \A c \in DOMAIN mm[p].node : IF c \in done THEN mm'[p].node[c].text = text[c]
                                                    ELSE mm'[p].node[c] = mm[p].node[c]
  <2>1. DraftsFormed(mm[p])
    BY DEF DraftsInv
  <2>2. /\ DOMAIN mm' = Engines
        /\ \A q \in Engines : q # p => mm'[q] = mm[q]
        /\ DOMAIN mm'[p] = DOMAIN mm[p] /\ mm'[p].last = mm[p].last
        /\ DOMAIN mm'[p].node = DOMAIN mm[p].node
    BY <1>2, <2>1 DEF DraftsInv, DraftsFormed
  <2>3. \A c \in DOMAIN mm[p].node :
          /\ DOMAIN mm'[p].node[c] = DraftFields
          /\ IF c \in done THEN mm'[p].node[c].text = text[c] ELSE mm'[p].node[c] = mm[p].node[c]
    BY <1>2, <2>1 DEF DraftsInv, DraftsFormed, DraftFields
  <2>4. DraftsFormed(mm'[p])
    BY <2>1, <2>2, <2>3 DEF DraftsFormed
  <2> QED
    BY <2>2, <2>3, <2>4 DEF DraftsInv
<1>7. store'.mem = new
  BY <1>1 DEF Save
<1>8. MemoryInv' /\ StoreKept /\ store'.rev = store.rev + 1
  <2> HIDE DEF new
  <2> QED
    BY <1>1, <1>5, SaveStep
<1>9. ASSUME NEW c \in done
      PROVE  /\ c \in DOMAIN new.node
             /\ new.node[c].kind # "raw" => new.node[c].text = text[c]
  BY <1>4 DEF Synced, WellFormed, NodeFields
<1>10. Acknowledged(p)
  <2> HIDE DEF new
  <2> QED
    BY <1>6, <1>7, <1>8, <1>9 DEF Acknowledged, LiveDrafts, DraftSummaries
<1>11. \A q \in Bridged : Acknowledged(q)
  BY <1>6, <1>10, BridgedAssumption DEF Acknowledged
<1> QED
  BY <1>6, <1>8, <1>11 DEF DraftsStep

LEMMA InjectStep ==
  ASSUME MemoryInv, DraftsInv, NEW p \in Engines, NEW accepted, NEW parent, Inject(p, accepted, parent)
  PROVE  MemoryInv' /\ StoreKept /\ DraftsStep
<1> DEFINE n == mm[p].last + 1
<1>1. p \in open /\ n < MaxId /\ mm' = [mm EXCEPT ![p] = Mounted(@, n, p, accepted)]
  BY DEF Inject
<1>2. DraftsFormed(mm[p]) /\ WellFormed(mem[p])
  BY DEF DraftsInv, MemoryInv, ObjectsInv
<1>3. DraftsFormed(Mounted(mm[p], n, p, accepted)) /\ MarksKept(mm[p], Mounted(mm[p], n, p, accepted))
  BY <1>1, <1>2, LeafMounted
<1>4. DOMAIN mm' = Engines /\ \A q \in Engines : mm'[q] = IF q = p THEN Mounted(mm[p], n, p, accepted) ELSE mm[q]
  BY <1>1 DEF DraftsInv
<1>5. DraftsStep
  BY <1>3, <1>4, MarksStep
<1>6. CASE Has(mem[p], n)
  <2>1. UNCHANGED memoryVars
    BY <1>6 DEF Inject
  <2> QED
    BY <1>5, <2>1, KeptSelf DEF memoryVars, engine, MemoryInv, ObjectsInv, UnmarkedIsStored, StoreKept
<1>7. CASE ~Has(mem[p], n)
  <2>1. Persist(p, Added(p, n, parent))
    BY <1>7 DEF Inject
  <2>2. n \in Ids /\ n \notin DOMAIN mem[p].node
    BY <1>1, <1>2, <1>7, MemoryBoundsAssumption DEF Has, Ids, DraftsFormed
  <2> QED
    BY <1>1, <1>2, <1>5, <2>1, <2>2, SourceAdded, PersistStep
<1> QED
  BY <1>6, <1>7

LEMMA TombstoneStep ==
  ASSUME MemoryInv, DraftsInv, NEW p \in Engines, NEW n \in DOMAIN mm[p].node, TombstoneKnowledge(p, n)
  PROVE  MemoryInv' /\ StoreKept /\ DraftsStep
<1> DEFINE d == mm[p]
           dead == [d EXCEPT !.node[n].live = FALSE]
           marked == {q \in DOMAIN d.node : <<q, n>> \in d.edge}
           told == mm' = [mm EXCEPT ![p] = Soil(dead, marked)]
<1>1. DraftsFormed(d) /\ WellFormed(mem[p]) /\ DOMAIN mm = Engines
  BY DEF DraftsInv, MemoryInv, ObjectsInv
<1>2. p \in open /\ \/ /\ n \in Live(mem[p])
                       /\ \/ Save(p, Tombstoned(mem[p], n)) /\ UNCHANGED open /\ told
                          \/ SaveFails(p, Tombstoned(mem[p], n)) /\ UNCHANGED <<open, mm>>
                    \/ n \notin Live(mem[p]) /\ told /\ UNCHANGED memoryVars
  BY DEF TombstoneKnowledge
<1>3. DraftsFormed(dead) /\ MarksKept(d, dead)
  BY <1>1 DEF DraftsFormed, MarksKept, DraftFields
<1>4. ASSUME told PROVE DraftsStep
  <2> HIDE DEF dead, marked
  <2>1. DraftsFormed(Soil(dead, marked)) /\ MarksKept(d, Soil(dead, marked))
    BY <1>3, Soiled DEF MarksKept
  <2>2. DOMAIN mm' = Engines /\ \A q \in Engines : mm'[q] = IF q = p THEN Soil(dead, marked) ELSE mm[q]
    BY <1>1, <1>4
  <2> QED
    BY <2>1, <2>2, MarksStep
<1>5. ASSUME UNCHANGED mm PROVE DraftsStep
  BY <1>1, <1>5, MarksStep DEF MarksKept
<1>6. n \in Live(mem[p]) => Grows(mem[p], Tombstoned(mem[p], n))
  BY <1>1, Killed DEF Live
<1> HIDE DEF told
<1>7. CASE n \in Live(mem[p])
  BY <1>2, <1>4, <1>5, <1>6, <1>7, SaveStep, FailStep
<1>8. CASE UNCHANGED memoryVars /\ told
  BY <1>4, <1>8, KeptSelf DEF memoryVars, engine, MemoryInv, ObjectsInv, UnmarkedIsStored, StoreKept
<1> QED
  BY <1>2, <1>7, <1>8

-----------------------------------------------------------------------------
(* All processes together.                                                  *)

BridgeInv == MemoryInv /\ DraftsInv

LEMMA BridgeStarts == BridgeInit => BridgeInv
<1> SUFFICES ASSUME BridgeInit PROVE BridgeInv
  OBVIOUS
<1>1. ObjectsInv
  BY EmptyIsWellFormed, KeptSelf DEF BridgeInit, MemoryInit, ObjectsInv
<1>2. UnmarkedIsStored
  BY DEF BridgeInit, MemoryInit, UnmarkedIsStored
<1>3. DraftsInv
  BY NoDraftsFormed DEF BridgeInit, DraftsInv
<1> QED
  BY <1>1, <1>2, <1>3 DEF BridgeInv, MemoryInv

LEMMA StandingStill ==
  ASSUME BridgeInv, UNCHANGED bridgeVars
  PROVE  BridgeInv' /\ StoreKept /\ DraftsStep
<1>1. MemoryInv' /\ StoreKept
  BY KeptSelf DEF BridgeInv, bridgeVars, memoryVars, engine, MemoryInv, ObjectsInv, UnmarkedIsStored, StoreKept
<1>2. DraftsStep
  BY DEF BridgeInv, bridgeVars, DraftsStep, DraftsInv, Acknowledged
<1> QED
  BY <1>1, <1>2 DEF BridgeInv, DraftsStep

LEMMA BridgeNext ==
  ASSUME BridgeInv, Next
  PROVE  BridgeInv' /\ StoreKept /\ DraftsStep
<1>0. MemoryInv /\ DraftsInv /\ DOMAIN mm = Engines
  BY DEF BridgeInv, DraftsInv
<1> SUFFICES MemoryInv' /\ StoreKept /\ DraftsStep
  BY DEF BridgeInv, DraftsStep
<1> PICK p \in Engines : \/ BridgeOpen(p)
                         \/ BridgeCrash(p)
                         \/ BridgeStep(p)
                         \/ EngineStep(p) /\ UNCHANGED mm
                         \/ \E n \in Live(mem[p]) : Tombstone(p, n) /\ UNCHANGED mm
  BY DEF Next
<1>1. CASE BridgeOpen(p)
  <2>1. Open(p) /\ DOMAIN mm' = Engines
        /\ \A q \in Engines : mm'[q] = IF q # p THEN mm[q] ELSE IF p \in Bridged THEN Bootstrap(store.mem) ELSE NoDrafts
    BY <1>0, <1>1 DEF BridgeOpen
  <2>2. MemoryInv' /\ StoreKept
    BY <1>0, <2>1, LoadStep DEF Open
  <2>3. DraftsFormed(mm'[p])
    BY <1>0, <2>1, Bootstrapped, NoDraftsFormed DEF MemoryInv, ObjectsInv
  <2>4. DraftsStep
    BY <1>0, <2>1, <2>3, MarksStep DEF Open
  <2> QED
    BY <2>2, <2>4
<1>2. CASE BridgeCrash(p)
  <2>1. Crash(p) /\ DOMAIN mm' = Engines /\ \A q \in Engines : mm'[q] = IF q # p THEN mm[q] ELSE NoDrafts
    BY <1>0, <1>2 DEF BridgeCrash
  <2>2. p \notin open'
    BY <2>1 DEF Crash
  <2>3. DraftsStep
    BY <1>0, <2>1, <2>2, NoDraftsFormed, MarksStep
  <2> QED
    BY <1>0, <2>1, <2>3, CrashStep
<1>3. CASE BridgeStep(p)
  BY <1>0, <1>3, InjectStep, SyncStep, TombstoneStep DEF BridgeStep
<1>4. CASE UNCHANGED mm /\ (EngineStep(p) \/ \E n \in Live(mem[p]) : Tombstone(p, n))
  <2>1. DraftsStep
    BY <1>0, <1>4, MarksStep DEF DraftsInv, MarksKept
  <2> QED
    BY <1>0, <1>4, <2>1, EngineMoves
<1> QED
  BY <1>1, <1>2, <1>3, <1>4

LEMMA BridgeKept ==
  BridgeInv /\ [Next]_bridgeVars => BridgeInv' /\ StoreKept /\ DraftsStep
  BY StandingStill, BridgeNext

LEMMA BridgeInvariant == Spec => []BridgeInv
  BY BridgeStarts, BridgeKept, PTL DEF Spec

\* "A failed local write keeps its unsaved mark", whoever saves in between.
THEOREM NothingUnsavedPasses == Spec => []UnmarkedIsStored
<1>1. BridgeInv => UnmarkedIsStored
  BY DEF BridgeInv, MemoryInv
<1> QED
  BY <1>1, BridgeInvariant, PTL

\* "An old writer is refused": any number of processes with objects of any age, whose
\* saves fail and are repeated, leave every committed source as it is.
THEOREM CommittedForGood == Spec => CommittedStays
<1>1. BridgeInv /\ [Next]_bridgeVars =>
        [\A n \in DOMAIN store.mem.node :
           /\ n \in DOMAIN store'.mem.node
           /\ store'.mem.node[n].live => store.mem.node[n].live
           /\ store.mem.node[n].kind = "raw" => store'.mem.node[n].text = store.mem.node[n].text]_memoryVars
  BY BridgeKept DEF StoreKept, Kept
<1> QED
  BY <1>1, BridgeInvariant, PTL DEF Spec, CommittedStays

\* "A failed synchronisation does not clear the runtime marks", of any number of bridges.
THEOREM AcknowledgedByCommit == Spec => AcknowledgedAfterCommit
<1>1. BridgeInv /\ [Next]_bridgeVars =>
        [\A p \in Bridged : \A c \in LiveDrafts(mm[p]) :
           mm[p].node[c].dirty /\ p \in open /\ p \in open' /\ ~mm'[p].node[c].dirty =>
             /\ store'.rev = store.rev + 1
             /\ c \in DOMAIN store'.mem.node
             /\ store'.mem.node[c].kind # "raw" => store'.mem.node[c].text = mm'[p].node[c].text]_bridgeVars
  BY BridgeKept DEF DraftsStep, Acknowledged
<1> QED
  BY <1>1, BridgeInvariant, PTL DEF Spec, AcknowledgedAfterCommit

-----------------------------------------------------------------------------
(* Functions defined by unions of their own values.                         *)

\* Families of subsets of U, and what no member of D is defined by in the end: itself.
Families(D, U) == [D -> SUBSET U]
NoCircle(D, others) == \A S \in SUBSET D : S # {} => \E n \in S : others[n] \cap S = {}

\* The values of f are what is given and what the values of others are, or lead to.
SumOf(f, D, given, others) ==
  \A n \in D : \A x : x \in f[n] <=> x \in given[n] \/ \E k \in others[n] : x \in f[k]
UnionOf(f, D, given, others, leads) ==
  \A n \in D : \A x :
    x \in f[n] <=> x \in given[n] \/ \E k \in others[n] : \E y \in f[k] : x \in leads[y]

\* A function of sets that is defined as the union of what its own values lead to exists,
\* also where the definition is circular: the least one.
LEMMA LeastUnion ==
  ASSUME NEW D, NEW U, NEW given \in Families(D, U), NEW others \in Families(D, D), NEW leads \in Families(U, U)
  PROVE  \E f \in Families(D, U) : UnionOf(f, D, given, others, leads)
<1> USE DEF Families, UnionOf
<1> DEFINE Fs == [D -> SUBSET U]
           Body(f, n) == {x \in U : x \in given[n] \/ \E k \in others[n] : \E y \in f[k] : x \in leads[y]}
           Closed == {f \in Fs : \A n \in D : Body(f, n) \subseteq f[n]}
           least == [n \in D |-> {x \in U : \A f \in Closed : x \in f[n]}]
           next == [n \in D |-> Body(least, n)]
<1>1. ASSUME NEW f \in Fs, NEW n \in D
      PROVE  \A x : x \in Body(f, n) <=> x \in given[n] \/ \E k \in others[n] : \E y \in f[k] : x \in leads[y]
  OBVIOUS
<1>2. ASSUME NEW f \in Fs, NEW g \in Fs, \A n \in D : f[n] \subseteq g[n], NEW n \in D
      PROVE  Body(f, n) \subseteq Body(g, n)
  BY <1>2
<1>3. least \in Fs /\ \A f \in Closed : \A n \in D : least[n] \subseteq f[n]
  OBVIOUS
<1>4. next \in Fs /\ \A n \in D : next[n] = Body(least, n) /\ Body(least, n) \subseteq U
  OBVIOUS
<1> HIDE DEF Body
<1>5. ASSUME NEW n \in D PROVE Body(least, n) \subseteq least[n]
  <2>1. ASSUME NEW f \in Closed PROVE Body(least, n) \subseteq f[n]
    <3>1. Body(least, n) \subseteq Body(f, n)
      <4> HIDE DEF least
      <4> QED
        BY <1>2, <1>3
    <3> QED
      BY <3>1
  <2> QED
    BY <1>4, <2>1
<1> HIDE DEF least, next
<1>6. \A n \in D : Body(next, n) \subseteq next[n]
  BY <1>2, <1>3, <1>4, <1>5
<1>7. next \in Closed
  BY <1>4, <1>6
<1>8. \A n \in D : least[n] = Body(least, n)
  BY <1>3, <1>4, <1>5, <1>7
<1> QED
  BY <1>1, <1>3, <1>8

LEMMA LeastSum ==
  ASSUME NEW D, NEW U, NEW given \in Families(D, U), NEW others \in Families(D, D)
  PROVE  \E f \in Families(D, U) : SumOf(f, D, given, others)
<1> DEFINE leads == [x \in U |-> {x}]
<1>1. leads \in Families(U, U) /\ \A x : \A y \in U : x \in leads[y] <=> x = y
  BY DEF Families
<1> HIDE DEF leads
<1>2. PICK f \in Families(D, U) : UnionOf(f, D, given, others, leads)
  BY <1>1, LeastUnion
<1>3. ASSUME NEW n \in D, NEW x
      PROVE  x \in f[n] <=> x \in given[n] \/ \E k \in others[n] : x \in f[k]
  <2>1. \A k \in others[n] : f[k] \subseteq U
    BY DEF Families
  <2> QED
    BY <1>1, <1>2, <2>1 DEF UnionOf
<1> QED
  BY <1>3 DEF SumOf

\* Where nothing is defined by itself, every such function has its values in U.
LEMMA SumTyped ==
  ASSUME NEW D, NEW U, NEW given \in Families(D, U), NEW others \in Families(D, D),
         NoCircle(D, others),
         NEW f, SumOf(f, D, given, others)
  PROVE  \A n \in D : \A x : x \in f[n] => x \in U
<1> USE DEF Families, NoCircle, SumOf
<1> DEFINE Bad == {n \in D : \E x : x \in f[n] /\ x \notin U}
<1> SUFFICES ASSUME Bad # {} PROVE FALSE
  OBVIOUS
<1>1. PICK n \in Bad : others[n] \cap Bad = {}
  OBVIOUS
<1> QED
  BY <1>1

-----------------------------------------------------------------------------
(* The shape of a memory.                                                   *)

\* A section is under a section that came before it, a summary under a summary that came
\* after it, and a source under one of them; only sources are pages, and a section stands
\* for sources.
Placed(m, n) ==
  LET parent == m.node[n].parent IN
  parent # NoNode =>
    /\ parent \in DOMAIN m.node
    /\ m.node[n].kind = "raw"     => m.node[parent].kind # "raw"
    /\ m.node[n].kind = "section" => m.node[parent].kind = "section" /\ parent < n
    /\ m.node[n].kind = "summary" => m.node[parent].kind = "summary" /\ parent > n

Fits(m, n) ==
  /\ m.node[n] \in Nodes /\ Placed(m, n)
  /\ m.node[n].page > 0 => m.node[n].kind = "raw"
  /\ m.node[n].kind = "section" =>
       Pages > 0 /\ \A k \in m.node[n].sources : k \in DOMAIN m.node /\ m.node[k].kind = "raw"

InShape(m) ==
  /\ WellFormed(m) /\ m.dirty \subseteq DOMAIN m.node
  /\ \A n \in DOMAIN m.node : Fits(m, n)

LEMMA Smallest ==
  ASSUME NEW S \in SUBSET Nat, S # {}
  PROVE  \E n \in S : \A k \in S : n <= k
<1> DEFINE Less == OpToRel(<, Nat)
<1>1. PICK n \in S : \A k \in S : <<k, n>> \notin Less
  <2>1. IsWellFoundedOn(Less, Nat)
    BY NatLessThanWellFounded
  <2> QED
    BY <2>1, WFMin
<1>2. ASSUME NEW k \in S PROVE n <= k
  <2>1. k \in Nat /\ n \in Nat /\ ~(k < n)
    BY <1>1 DEF OpToRel
  <2> QED
    BY <2>1
<1> QED
  BY <1>2

\* Going up ends somewhere, and so does going down.
LEMMA Extremes ==
  ASSUME NEW S \in SUBSET Ids, S # {}
  PROVE  /\ \E n \in S : \A k \in S : n <= k
         /\ \E n \in S : \A k \in S : k <= n
<1>1. S \in SUBSET (0 .. MaxId) /\ S \in SUBSET Nat
  BY MemoryBoundsAssumption DEF Ids
<1> QED
  BY <1>1, LargestId, Smallest

LEMMA UpEnds ==
  ASSUME NEW m, InShape(m), NEW S \in SUBSET DOMAIN m.node, S # {}
  PROVE  \E n \in S : m.node[n].parent \notin S
<1>1. S \subseteq Ids /\ \A n \in S : n \in Nat /\ m.node[n] \in Nodes /\ Placed(m, n)
  BY MemoryBoundsAssumption DEF InShape, Fits, WellFormed, Ids
<1>2. \A n \in S : n # NoNode /\ m.node[n].kind \in {"raw", "section", "summary"}
  BY <1>1 DEF Nodes, NoNode, Ids
<1> DEFINE Of(kind) == {n \in S : m.node[n].kind = kind}
<1>3. CASE Of("section") # {}
  <2>1. PICK n \in Of("section") : \A k \in Of("section") : n <= k
    BY <1>1, <1>3, Extremes
  <2> QED
    BY <1>1, <1>2, <2>1 DEF Placed
<1>4. CASE Of("section") = {} /\ Of("summary") # {}
  <2>1. PICK n \in Of("summary") : \A k \in Of("summary") : k <= n
    BY <1>1, <1>4, Extremes
  <2> QED
    BY <1>1, <1>2, <2>1 DEF Placed
<1>5. CASE Of("section") = {} /\ Of("summary") = {}
  BY <1>1, <1>2, <1>5 DEF Placed
<1> QED
  BY <1>3, <1>4, <1>5

LEMMA DownEnds ==
  ASSUME NEW m, InShape(m), NEW S \in SUBSET Summaries(m), S # {}
  PROVE  \E n \in S : LiveKids(m, n) \cap S = {}
<1>1. S \subseteq Ids /\ \A n \in S : n \in Nat /\ m.node[n] \in Nodes /\ Placed(m, n)
  BY MemoryBoundsAssumption DEF InShape, Fits, WellFormed, Ids, Summaries, Live
<1>2. \A n \in S : n # NoNode /\ m.node[n].kind \in {"section", "summary"}
  BY <1>1 DEF Nodes, NoNode, Ids, Summaries
<1> DEFINE Of(kind) == {n \in S : m.node[n].kind = kind}
<1>3. CASE Of("summary") # {}
  <2>1. PICK n \in Of("summary") : \A k \in Of("summary") : n <= k
    BY <1>1, <1>3, Extremes
  <2> QED
    BY <1>1, <1>2, <2>1 DEF Placed, LiveKids
<1>4. CASE Of("summary") = {}
  <2>1. PICK n \in Of("section") : \A k \in Of("section") : k <= n
    BY <1>1, <1>2, <1>4, Extremes
  <2> QED
    BY <1>1, <1>2, <2>1, <1>4 DEF Placed, LiveKids
<1> QED
  BY <1>3, <1>4

\* The chain of a node is a chain of nodes, from the node itself.
LEMMA ChainStays ==
  ASSUME NEW m, InShape(m), NEW n \in DOMAIN m.node
  PROVE  n \in Chain(m, n) /\ Chain(m, n) \subseteq DOMAIN m.node
<1> DEFINE D == DOMAIN m.node
           given == [k \in D |-> {k}]
           others == [k \in D |-> IF Has(m, m.node[k].parent) THEN {m.node[k].parent} ELSE {}]
           Up(f, k) == {k} \cup IF Has(m, m.node[k].parent) THEN f[m.node[k].parent] ELSE {}
           Step(f) == [k \in D |-> Up(f, k)]
           up == CHOOSE f : f = Step(f)
<1>1. given \in Families(D, D) /\ others \in Families(D, D)
  BY DEF Has, Families
<1>2. ASSUME NEW f, NEW k \in D, NEW x
      PROVE  x \in Up(f, k) <=> x \in given[k] \/ \E j \in others[k] : x \in f[j]
  OBVIOUS
<1>3. \E f : f = Step(f)
  <2> HIDE DEF given, others
  <2>1. PICK f \in Families(D, D) : SumOf(f, D, given, others)
    BY <1>1, LeastSum
  <2>2. ASSUME NEW k \in D PROVE f[k] = Up(f, k)
    <3> HIDE DEF Up
    <3>1. \A x : x \in f[k] <=> x \in Up(f, k)
      BY <1>2, <2>1 DEF SumOf
    <3> QED
      BY <3>1
  <2>3. f = [k \in D |-> f[k]]
    BY <2>1 DEF Families
  <2> HIDE DEF Up
  <2> QED
    BY <2>2, <2>3
<1>4. up = Step(up)
  BY <1>3
<1>5. SumOf(up, D, given, others)
  <2> HIDE DEF up, Up, given, others
  <2>1. \A k \in D : up[k] = Up(up, k)
    BY <1>4
  <2> QED
    BY <1>2, <2>1 DEF SumOf
<1>6. NoCircle(D, others)
  BY UpEnds DEF NoCircle
<1>7. \A k \in D : \A x : x \in up[k] => x \in D
  <2> HIDE DEF up, given, others, D
  <2> QED
    BY <1>1, <1>5, <1>6, SumTyped
<1>8. Chain(m, n) = up[n]
  BY DEF Chain
<1>9. n \in up[n]
  BY <1>5 DEF SumOf
<1> QED
  BY <1>7, <1>8, <1>9

\* What stays of a graph object under a change of its nodes, and what new ones must be.
LEMMA Grown ==
  ASSUME NEW m, InShape(m), NEW new, WellFormed(new), DOMAIN m.node \subseteq DOMAIN new.node,
         new.dirty \subseteq DOMAIN new.node,
         \A n \in DOMAIN m.node :
           /\ new.node[n] \in Nodes
           /\ new.node[n].kind = m.node[n].kind /\ new.node[n].page = m.node[n].page
           /\ m.node[n].kind = "section" => new.node[n].sources = m.node[n].sources
           /\ new.node[n].parent = m.node[n].parent \/ Placed(new, n),
         \A n \in DOMAIN new.node : n \in DOMAIN m.node \/ Fits(new, n)
  PROVE  InShape(new)
<1>1. ASSUME NEW n \in DOMAIN m.node PROVE Fits(new, n)
  <2>1. Fits(m, n)
    BY DEF InShape
  <2>2. Placed(new, n)
    BY <2>1 DEF Fits, Placed
  <2> QED
    BY <2>1, <2>2 DEF Fits
<1> QED
  BY <1>1 DEF InShape

LEMMA DirtyInShape ==
  ASSUME NEW m, InShape(m), NEW n \in DOMAIN m.node
  PROVE  InShape(PropagateDirty(m, n))
<1> DEFINE new == PropagateDirty(m, n)
<1>1. WellFormed(new)
  BY Dirtied DEF InShape, Grows
<1>2. DOMAIN new.node = DOMAIN m.node /\ new.dirty \subseteq DOMAIN m.node
  BY ChainStays DEF PropagateDirty, InShape, Summaries, Live
<1>3. ASSUME NEW k \in DOMAIN m.node
      PROVE  /\ new.node[k] \in Nodes
             /\ new.node[k].kind = m.node[k].kind /\ new.node[k].page = m.node[k].page
             /\ new.node[k].sources = m.node[k].sources /\ new.node[k].parent = m.node[k].parent
  <2>1. m.node[k] \in Nodes
    BY DEF InShape, Fits
  <2>2. new.node[k] = m.node[k] \/ new.node[k] = [m.node[k] EXCEPT !.flag = TRUE]
    BY DEF PropagateDirty
  <2> HIDE DEF new
  <2> QED
    BY <2>1, <2>2 DEF Nodes
<1> HIDE DEF new
<1>4. InShape(new)
  BY <1>1, <1>2, <1>3, Grown
<1> QED
  BY <1>4 DEF new

LEMMA DeadInShape ==
  ASSUME NEW m, InShape(m), NEW n \in DOMAIN m.node
  PROVE  InShape(Tombstoned(m, n))
<1> DEFINE dead == [m EXCEPT !.node[n].live = FALSE]
<1>1. WellFormed(dead) /\ DOMAIN dead.node = DOMAIN m.node /\ dead.dirty = m.dirty
  BY DEF InShape, WellFormed, NodeFields
<1>2. ASSUME NEW k \in DOMAIN m.node
      PROVE  /\ dead.node[k] \in Nodes
             /\ dead.node[k].kind = m.node[k].kind /\ dead.node[k].page = m.node[k].page
             /\ dead.node[k].sources = m.node[k].sources /\ dead.node[k].parent = m.node[k].parent
  <2>1. m.node[k] \in Nodes
    BY DEF InShape, Fits
  <2>2. dead.node[k] = m.node[k] \/ dead.node[k] = [m.node[k] EXCEPT !.live = FALSE]
    BY DEF InShape, WellFormed
  <2> HIDE DEF dead
  <2> QED
    BY <2>1, <2>2 DEF Nodes
<1> HIDE DEF dead
<1>3. InShape(dead)
  BY <1>1, <1>2, Grown DEF InShape
<1>4. InShape(PropagateDirty(dead, n))
  BY <1>1, <1>3, DirtyInShape
<1> QED
  BY <1>4 DEF Tombstoned, dead

LEMMA SourceInShape ==
  ASSUME NEW p \in Engines, InShape(mem[p]), NEW n \in Ids, n \notin DOMAIN mem[p].node,
         NEW parent \in Mounts(mem[p])
  PROVE  InShape(Added(p, n, parent))
<1> DEFINE old == mem[p]
           new == [old EXCEPT !.node = Joined([k \in {n} |-> Source(p, k, parent)], @)]
<1>1. /\ DOMAIN new = {"node", "dirty"} /\ new.dirty = old.dirty
      /\ DOMAIN new.node = DOMAIN old.node \cup {n}
      /\ \A k \in DOMAIN old.node : new.node[k] = old.node[k]
      /\ new.node[n] = Source(p, n, parent)
  BY DEF InShape, WellFormed, Joined
<1> HIDE DEF new
<1>2. parent = NoNode \/ (parent \in DOMAIN old.node /\ old.node[parent].kind = "summary")
  BY DEF Mounts, Summaries, Live
<1>3. Source(p, n, parent) \in Nodes /\ DOMAIN Source(p, n, parent) = NodeFields
  <2>1. parent \in Ids \cup {NoNode} /\ <<n, p>> \in Texts
    BY <1>2 DEF InShape, WellFormed, Texts
  <2>2. Pages \in Nat
    BY DocumentAssumption
  <2> QED
    BY <2>1, <2>2 DEF Source, Nodes, NodeFields
<1>4. WellFormed(new)
  BY <1>1, <1>3 DEF InShape, WellFormed
<1>5. \A k \in DOMAIN old.node : old.node[k] \in Nodes
  BY DEF InShape, Fits
<1>6. Fits(new, n)
  BY <1>1, <1>2, <1>3 DEF Fits, Placed, Source
<1>7. InShape(new)
  <2>1. old.dirty \subseteq DOMAIN old.node
    BY DEF InShape
  <2> HIDE DEF old
  <2> QED
    BY <1>1, <1>4, <1>5, <1>6, <2>1, Grown DEF old
<1>8. InShape(PropagateDirty(new, n))
  BY <1>1, <1>7, DirtyInShape
<1> QED
  BY <1>8 DEF Added, new

LEMMA InitialInShape ==
  ASSUME NEW p \in Engines, InShape(mem[p]), DOMAIN mem[p].node = {}, NEW n \in Ids
  PROVE  InShape([mem[p] EXCEPT !.node = [k \in 1 .. n |-> Source(p, k, NoNode)]])
<1> DEFINE new == [mem[p] EXCEPT !.node = [k \in 1 .. n |-> Source(p, k, NoNode)]]
<1>1. /\ DOMAIN new = {"node", "dirty"} /\ new.dirty = {} /\ DOMAIN new.node = 1 .. n
      /\ \A k \in 1 .. n : new.node[k] = Source(p, k, NoNode)
  BY DEF InShape, WellFormed
<1> HIDE DEF new
<1>2. ASSUME NEW k \in 1 .. n
      PROVE  k \in Ids /\ Source(p, k, NoNode) \in Nodes /\ DOMAIN Source(p, k, NoNode) = NodeFields
  <2>1. k \in Ids
    BY MemoryBoundsAssumption DEF Ids
  <2> QED
    BY <2>1, DocumentAssumption DEF Source, Nodes, NodeFields, Texts
<1>3. ASSUME NEW k \in 1 .. n PROVE Fits(new, k)
  <2>1. /\ new.node[k] \in Nodes /\ new.node[k].kind = "raw" /\ new.node[k].parent = NoNode
        /\ new.node[k].page = 0
    <3>1. Source(p, k, NoNode).kind = "raw" /\ Source(p, k, NoNode).parent = NoNode
          /\ Source(p, k, NoNode).page = 0
      BY DEF Source
    <3> QED
      BY <1>1, <1>2, <3>1
  <2> QED
    BY <2>1 DEF Fits, Placed
<1>4. InShape(new)
  BY <1>1, <1>2, <1>3 DEF InShape, WellFormed
<1> QED
  BY <1>4 DEF new

LEMMA SummaryInShape ==
  ASSUME NEW m, InShape(m), NextId(m) \in Ids, NEW kids \in SUBSET DOMAIN m.node,
         \A k \in kids : m.node[k].kind # "section",
         NEW wider, WellFormed(wider), wider.dirty \subseteq m.dirty,
         DOMAIN wider.node = DOMAIN m.node \cup {NextId(m)},
         \A k \in DOMAIN m.node :
           wider.node[k] = IF k \in kids THEN [m.node[k] EXCEPT !.parent = NextId(m)] ELSE m.node[k],
         wider.node[NextId(m)] =
           [kind |-> "summary", live |-> TRUE, nav |-> TRUE, parent |-> NoNode, sources |-> {},
            text |-> UNION {m.node[k].text : k \in kids}, flag |-> FALSE, page |-> 0]
  PROVE  InShape(wider)
<1> DEFINE n == NextId(m)
<1>1. n \in Nat /\ \A k \in DOMAIN m.node : k < n /\ k \in Nat
  BY FreshId, MemoryBoundsAssumption DEF InShape, WellFormed, Ids
<1>2. \A k \in DOMAIN m.node : m.node[k] \in Nodes
  BY DEF InShape, Fits
<1>3. wider.node[n] \in Nodes
  <2>1. UNION {m.node[k].text : k \in kids} \in SUBSET Texts
    BY <1>2 DEF Nodes
  <2> HIDE DEF n
  <2> QED
    BY <2>1, DocumentAssumption DEF Nodes, n
<1>4. Fits(wider, n)
  BY <1>3 DEF Fits, Placed
<1>5. ASSUME NEW k \in DOMAIN m.node
      PROVE  /\ wider.node[k] \in Nodes
             /\ wider.node[k].kind = m.node[k].kind /\ wider.node[k].page = m.node[k].page
             /\ wider.node[k].sources = m.node[k].sources
             /\ wider.node[k].parent = m.node[k].parent \/ Placed(wider, k)
  <2>1. CASE k \notin kids
    BY <1>2, <2>1
  <2>2. CASE k \in kids
    <3>1. wider.node[k] = [m.node[k] EXCEPT !.parent = n]
      BY <2>2
    <3>2. /\ wider.node[k] \in Nodes /\ wider.node[k].parent = n
          /\ wider.node[k].kind = m.node[k].kind /\ wider.node[k].page = m.node[k].page
          /\ wider.node[k].sources = m.node[k].sources
      BY <1>2, <3>1 DEF Nodes
    <3>3. wider.node[n].kind = "summary"
      OBVIOUS
    <3> HIDE DEF n
    <3>4. Placed(wider, k)
      BY <1>1, <2>2, <3>2, <3>3 DEF Placed, n
    <3> QED
      BY <3>2, <3>4
  <2> QED
    BY <2>1, <2>2
<1>6. wider.dirty \subseteq DOMAIN wider.node
  BY DEF InShape
<1> QED
  BY <1>4, <1>5, <1>6, Grown

LEMMA SectionsTyped ==
  /\ Pages \in Nat /\ Len(Sections) \in Nat /\ DOMAIN Sections = 1 .. Len(Sections)
  /\ \A i \in 1 .. Len(Sections) :
       /\ Sections[i].first \in Nat \ {0} /\ Sections[i].last \in Nat /\ Sections[i].last <= Pages
       /\ Sections[i].parent \in Nat /\ Sections[i].parent < i
       /\ Sections[i].parent # 0 => Over(i) \subseteq Over(Sections[i].parent)
<1> DEFINE S == [first : Nat, last : Nat, parent : Nat]
<1>1. /\ Sections \in Seq(S) /\ Pages \in Nat
      /\ \A i \in DOMAIN Sections : /\ Sections[i].parent < i /\ 0 < Sections[i].first
                                    /\ Sections[i].last <= Pages
                                    /\ Sections[i].parent # 0 =>
                                         /\ Sections[Sections[i].parent].first <= Sections[i].first
                                         /\ Sections[i].last <= Sections[Sections[i].parent].last
  BY DocumentAssumption
<1>2. \A s \in S : s.first \in Nat /\ s.last \in Nat /\ s.parent \in Nat
  OBVIOUS
<1> HIDE DEF S
<1>3. Len(Sections) \in Nat /\ DOMAIN Sections = 1 .. Len(Sections) /\ \A i \in 1 .. Len(Sections) : Sections[i] \in S
  BY <1>1
<1>4. ASSUME NEW i \in 1 .. Len(Sections), Sections[i].parent # 0
      PROVE  Over(i) \subseteq Over(Sections[i].parent)
  <2> DEFINE j == Sections[i].parent
  <2>1. j \in Nat /\ j < i /\ j # 0
    BY <1>1, <1>2, <1>3, <1>4
  <2>2. j \in 1 .. Len(Sections)
    BY <1>3, <2>1
  <2>3. /\ Sections[i].first \in Nat /\ Sections[i].last \in Nat
        /\ Sections[j].first \in Nat /\ Sections[j].last \in Nat
        /\ Sections[j].first <= Sections[i].first /\ Sections[i].last <= Sections[j].last
    BY <1>1, <1>2, <1>3, <1>4, <2>2
  <2> HIDE DEF j
  <2>4. Over(i) \subseteq Over(j)
    BY <2>3 DEF Over
  <2> QED
    BY <2>4 DEF j
<1>5. ASSUME NEW i \in 1 .. Len(Sections)
      PROVE  /\ Sections[i].first \in Nat \ {0} /\ Sections[i].last \in Nat /\ Sections[i].last <= Pages
             /\ Sections[i].parent \in Nat /\ Sections[i].parent < i
  <2>1. Sections[i].first \in Nat /\ Sections[i].last \in Nat /\ Sections[i].parent \in Nat
    BY <1>2, <1>3
  <2>2. 0 < Sections[i].first /\ Sections[i].last <= Pages /\ Sections[i].parent < i
    BY <1>1, <1>3
  <2> QED
    BY <2>1, <2>2
<1> QED
  BY <1>1, <1>3, <1>4, <1>5

\* A page is under a section or under none.
LEMMA OwnerIsSection ==
  ASSUME NEW page
  PROVE  Owner(page) \in 0 .. Len(Sections)
<1> DEFINE over == {i \in DOMAIN Sections : page \in Over(i)}
           shortest == {i \in over : \A j \in over : Cardinality(Over(i)) <= Cardinality(Over(j))}
           sizes == {Cardinality(Over(i)) : i \in over}
<1>1. Len(Sections) \in Nat /\ DOMAIN Sections = 1 .. Len(Sections)
  BY SectionsTyped
<1>2. \A i \in over : Cardinality(Over(i)) \in Nat
  <2>1. \A i \in DOMAIN Sections : Sections[i].first \in Nat /\ Sections[i].last \in Nat
    BY SectionsTyped
  <2> QED
    <3> TAKE i \in over
    <3>1. Sections[i].first \in Int /\ Sections[i].last \in Int
      BY <2>1
    <3>2. IsFiniteSet(Over(i))
      BY <3>1, FS_Interval DEF Over
    <3> QED
      BY <3>2, FS_CardinalityType
<1>3. CASE over = {}
  BY <1>1, <1>3 DEF Owner
<1>4. CASE over # {}
  <2>1. sizes \in SUBSET Nat /\ sizes # {}
    BY <1>2, <1>4
  <2>2. PICK i \in over : \A size \in sizes : Cardinality(Over(i)) <= size
    BY <2>1, Smallest
  <2>3. i \in shortest
    BY <2>2
  <2>4. shortest \in SUBSET Nat /\ shortest # {}
    BY <1>1, <2>3
  <2>5. \E j \in shortest : \A k \in shortest : j <= k
    BY <2>4, Smallest
  <2>6. Min(shortest) \in shortest
    BY <2>5 DEF Min
  <2>7. Owner(page) = Min(shortest)
    BY <1>4 DEF Owner
  <2> QED
    BY <1>1, <2>6, <2>7
<1> QED
  BY <1>3, <1>4

\* The nodes of a document: its pages, then its sections.
SectionId(first, i) == IF i = 0 THEN NoNode ELSE first + Pages + i - 1

IsPage(doc, p, first, i) ==
  LET n == first + i - 1 IN
  /\ n \in DOMAIN doc /\ n \in Ids
  /\ doc[n] = [Source(p, n, SectionId(first, Owner(i))) EXCEPT !.page = i] /\ doc[n].kind = "raw"

IsSection(doc, p, first, worded, i) ==
  LET n == first + Pages + i - 1 IN
  /\ n \in DOMAIN doc /\ n \in Ids
  /\ doc[n] = [kind |-> "section", live |-> TRUE, nav |-> TRUE, parent |-> SectionId(first, Sections[i].parent),
               sources |-> {first + k - 1 : k \in Over(i)}, flag |-> FALSE, page |-> 0,
               text |-> IF worded THEN {<<first + k - 1, p>> : k \in Over(i)} ELSE {}]
  /\ doc[n].kind = "section"

LEMMA DocumentNodes ==
  ASSUME NEW p, NEW worded, NEW first \in Nat \ {0}, first + Pages + Len(Sections) - 1 <= MaxId
  PROVE  /\ \A i \in 1 .. Pages : IsPage(Document(p, first, worded), p, first, i)
         /\ \A i \in 1 .. Len(Sections) : IsSection(Document(p, first, worded), p, first, worded, i)
         /\ \A n \in DOMAIN Document(p, first, worded) :
              (\E i \in 1 .. Pages : n = first + i - 1) \/ \E i \in 1 .. Len(Sections) : n = first + Pages + i - 1
<1> DEFINE doc == Document(p, first, worded)
<1>0. first + Pages + Len(Sections) - 1 <= MaxId
  OBVIOUS
<1>1. first \in Nat \ {0}
  OBVIOUS
<1>2. Pages \in Nat /\ Len(Sections) \in Nat /\ DOMAIN Sections = 1 .. Len(Sections)
  BY SectionsTyped
<1>3. DOMAIN doc = first .. (first + Pages + Len(Sections) - 1)
  BY DEF Document
<1>4. ASSUME NEW i \in 1 .. Pages
      PROVE  IsPage(doc, p, first, i)
  <2> DEFINE n == first + i - 1
  <2>1. n \in DOMAIN doc /\ n < first + Pages /\ n - first + 1 = i /\ n \in Ids
    <3> HIDE DEF doc
    <3> QED
      BY <1>0, <1>1, <1>2, <1>3, MemoryBoundsAssumption DEF Ids
  <2>2. doc[n] = [Source(p, n, SectionId(first, Owner(i))) EXCEPT !.page = i]
    BY <2>1 DEF Document, SectionId
  <2> HIDE DEF doc
  <2>3. doc[n].kind = "raw"
    BY <2>2 DEF Source
  <2> QED
    BY <2>1, <2>2, <2>3 DEF IsPage
<1>5. ASSUME NEW i \in 1 .. Len(Sections)
      PROVE  IsSection(doc, p, first, worded, i)
  <2> DEFINE n == first + Pages + i - 1
             pages == {first + k - 1 : k \in Over(i)}
             text == IF worded THEN {<<first + k - 1, p>> : k \in Over(i)} ELSE {}
  <2>1. n \in DOMAIN doc /\ ~(n < first + Pages) /\ n - first - Pages + 1 = i /\ n \in Ids
    <3> HIDE DEF doc
    <3> QED
      BY <1>0, <1>1, <1>2, <1>3, MemoryBoundsAssumption DEF Ids
  <2>2. doc[n] = [kind |-> "section", live |-> TRUE, nav |-> TRUE, parent |-> SectionId(first, Sections[i].parent),
                  sources |-> pages, flag |-> FALSE, page |-> 0, text |-> text]
    BY <2>1 DEF Document, SectionId
  <2>3. doc[n].kind = "section"
    <3> HIDE DEF pages, text, doc
    <3> QED
      BY <2>2
  <2> QED
    BY <2>1, <2>2, <2>3 DEF IsSection
<1>6. ASSUME NEW n \in DOMAIN doc
      PROVE  (\E i \in 1 .. Pages : n = first + i - 1) \/ \E i \in 1 .. Len(Sections) : n = first + Pages + i - 1
  <2>1. n \in Nat /\ first <= n /\ n <= first + Pages + Len(Sections) - 1
    BY <1>1, <1>2, <1>3
  <2>2. CASE n < first + Pages
    <3>1. n - first + 1 \in 1 .. Pages /\ n = first + (n - first + 1) - 1
      BY <1>1, <1>2, <2>1, <2>2
    <3> QED
      BY <3>1
  <2>3. CASE ~(n < first + Pages)
    <3>1. n - first - Pages + 1 \in 1 .. Len(Sections) /\ n = first + Pages + (n - first - Pages + 1) - 1
      BY <1>1, <1>2, <2>1, <2>3
    <3> QED
      BY <3>1
  <2> QED
    BY <2>2, <2>3
<1> QED
  BY <1>4, <1>5, <1>6

LEMMA DocumentInShape ==
  ASSUME NEW p \in Engines, InShape(mem[p]), NEW worded \in BOOLEAN, Pages > 0,
         NextId(mem[p]) + Pages + Len(Sections) - 1 <= MaxId
  PROVE  InShape([mem[p] EXCEPT !.node = Joined(Document(p, NextId(mem[p]), worded), @)])
<1> DEFINE old == mem[p]
           first == NextId(old)
           doc == Document(p, first, worded)
           new == [old EXCEPT !.node = Joined(doc, @)]
<1>0. first + Pages + Len(Sections) - 1 <= MaxId
  OBVIOUS
<1>1. first \in Nat \ {0} /\ \A n \in DOMAIN old.node : n \in Nat /\ n < first
  BY FreshId, MemoryBoundsAssumption DEF InShape, WellFormed, Ids
<1>2. /\ Pages \in Nat /\ Len(Sections) \in Nat /\ DOMAIN Sections = 1 .. Len(Sections)
      /\ \A i \in 1 .. Len(Sections) : /\ Sections[i].first \in Nat \ {0} /\ Sections[i].last \in Nat
                                        /\ Sections[i].parent \in Nat /\ Sections[i].parent < i
                                        /\ Sections[i].last <= Pages
  BY SectionsTyped
<1>3. DOMAIN doc = first .. (first + Pages + Len(Sections) - 1)
  BY DEF Document
<1>4. WellFormed(new)
  BY DocumentAdded DEF InShape, Grows
<1>5. /\ new.dirty = old.dirty /\ DOMAIN new.node = DOMAIN doc \cup DOMAIN old.node
      /\ \A n \in DOMAIN doc : new.node[n] = doc[n]
      /\ \A n \in DOMAIN old.node : n \notin DOMAIN doc /\ new.node[n] = old.node[n]
  <2>1. \A n \in DOMAIN old.node : n \notin DOMAIN doc
    BY <1>1, <1>2, <1>3
  <2> HIDE DEF doc
  <2> QED
    BY <2>1 DEF Joined, InShape, WellFormed
<1>6. ASSUME NEW i \in 1 .. Pages
      PROVE  IsPage(doc, p, first, i)
  BY <1>0, <1>1, DocumentNodes
<1>7. ASSUME NEW i \in 1 .. Len(Sections)
      PROVE  IsSection(doc, p, first, worded, i)
  BY <1>0, <1>1, DocumentNodes
<1>8. ASSUME NEW n \in DOMAIN doc
      PROVE  (\E i \in 1 .. Pages : n = first + i - 1) \/ \E i \in 1 .. Len(Sections) : n = first + Pages + i - 1
  BY <1>0, <1>1, DocumentNodes
<1> HIDE DEF doc, first, new
<1>9. ASSUME NEW i \in 0 .. Len(Sections)
      PROVE  /\ SectionId(first, i) \in Ids \cup {NoNode}
             /\ SectionId(first, i) # NoNode => SectionId(first, i) \in DOMAIN new.node /\ new.node[SectionId(first, i)].kind = "section"
             /\ i # 0 => SectionId(first, i) = first + Pages + i - 1
  <2>1. CASE i = 0
    BY <2>1 DEF SectionId
  <2>2. CASE i \in 1 .. Len(Sections)
    <3>1. SectionId(first, i) = first + Pages + i - 1
      BY <1>2, <2>2 DEF SectionId
    <3> DEFINE n == first + Pages + i - 1
    <3>2. n \in Ids /\ n \in DOMAIN doc /\ doc[n].kind = "section"
      BY <1>7, <2>2 DEF IsSection
    <3> HIDE DEF n
    <3>3. n \in DOMAIN new.node /\ new.node[n].kind = "section"
      BY <1>5, <3>2
    <3> QED
      BY <2>2, <3>1, <3>2, <3>3 DEF n
  <2> QED
    BY <1>2, <2>1, <2>2
<1>10. ASSUME NEW i \in 1 .. Pages PROVE Fits(new, first + i - 1)
  <2> DEFINE n == first + i - 1
             parent == SectionId(first, Owner(i))
  <2>1. n \in Ids /\ n \in DOMAIN new.node /\ new.node[n] = [Source(p, n, parent) EXCEPT !.page = i]
    BY <1>5, <1>6 DEF IsPage
  <2>2. /\ parent \in Ids \cup {NoNode}
        /\ parent # NoNode => parent \in DOMAIN new.node /\ new.node[parent].kind = "section"
    BY <1>9, OwnerIsSection
  <2> HIDE DEF n, parent
  <2>3. /\ new.node[n] \in Nodes /\ new.node[n].kind = "raw" /\ new.node[n].parent = parent
    <3>1. <<n, p>> \in Texts
      BY <2>1 DEF Texts
    <3>2. i \in 0 .. Pages
      BY <1>2
    <3>3. new.node[n] = [kind |-> "raw", live |-> TRUE, nav |-> FALSE, parent |-> parent, sources |-> {},
                         text |-> {<<n, p>>}, flag |-> FALSE, page |-> i]
      BY <2>1 DEF Source
    <3> QED
      BY <2>2, <3>1, <3>2, <3>3 DEF Nodes
  <2>4. Fits(new, n)
    BY <2>2, <2>3 DEF Fits, Placed
  <2> QED
    BY <2>4 DEF n
<1>11. ASSUME NEW i \in 1 .. Len(Sections) PROVE Fits(new, first + Pages + i - 1)
  <2> DEFINE n == first + Pages + i - 1
             parent == SectionId(first, Sections[i].parent)
             pages == {first + k - 1 : k \in Over(i)}
             text == IF worded THEN {<<first + k - 1, p>> : k \in Over(i)} ELSE {}
  <2>1. /\ n \in Ids /\ n \in DOMAIN new.node
        /\ new.node[n] = [kind |-> "section", live |-> TRUE, nav |-> TRUE, parent |-> parent, sources |-> pages,
                          flag |-> FALSE, page |-> 0, text |-> text]
    BY <1>5, <1>7 DEF IsSection
  <2>2. Sections[i].parent \in 0 .. Len(Sections) /\ Sections[i].parent \in Nat /\ Sections[i].parent < i
    BY <1>2
  <2>3. /\ parent \in Ids \cup {NoNode}
        /\ parent # NoNode => parent \in DOMAIN new.node /\ new.node[parent].kind = "section" /\ parent < n
    BY <1>1, <1>2, <1>9, <2>2 DEF SectionId
  <2>4. \A k \in Over(i) : k \in 1 .. Pages
    BY <1>2 DEF Over
  <2>5. \A k \in Over(i) : /\ first + k - 1 \in Ids /\ first + k - 1 \in DOMAIN new.node
                           /\ new.node[first + k - 1].kind = "raw"
    <3> TAKE k \in Over(i)
    <3> DEFINE j == first + k - 1
    <3>1. j \in Ids /\ j \in DOMAIN doc /\ doc[j].kind = "raw"
      BY <1>6, <2>4 DEF IsPage
    <3> HIDE DEF j
    <3>2. j \in DOMAIN new.node /\ new.node[j].kind = "raw"
      BY <1>5, <3>1
    <3> QED
      BY <3>1, <3>2 DEF j
  <2>6. pages \in SUBSET Ids /\ \A k \in pages : k \in DOMAIN new.node /\ new.node[k].kind = "raw"
    BY <2>5 DEF pages
  <2>7. text \in SUBSET Texts
    BY <2>5 DEF text, Texts
  <2> HIDE DEF n, parent, pages, text
  <2>8. new.node[n] \in Nodes
    BY <1>2, <2>1, <2>3, <2>6, <2>7 DEF Nodes
  <2>9. 0 < Pages
    BY <1>2
  <2>10. Fits(new, n)
    BY <2>1, <2>3, <2>6, <2>8, <2>9 DEF Fits, Placed
  <2> QED
    BY <2>10 DEF n
<1>12. \A n \in DOMAIN doc : Fits(new, n)
  BY <1>8, <1>10, <1>11
<1>13. \A n \in DOMAIN old.node : old.node[n] \in Nodes
  BY DEF InShape, Fits
<1>14. new.dirty \subseteq DOMAIN new.node
  BY <1>5 DEF InShape
<1>15. InShape(new)
  <2> HIDE DEF old
  <2> QED
    BY <1>4, <1>5, <1>12, <1>13, <1>14, Grown DEF old
<1> QED
  BY <1>15 DEF new, first, doc

-----------------------------------------------------------------------------
(* Wordings.                                                                *)

\* What a section is worded from.
Inputs(m, n) ==
  {k \in KidSummaries(m, n) : m.node[k].sources \cap Live(m) # {}}
  \cup ((m.node[n].sources \ UNION {m.node[k].sources : k \in KidSummaries(m, n)}) \cap Live(m))

LEMMA SectionWords ==
  ASSUME NEW m, NEW n, NEW f, NEW x
  PROVE  x \in SectionText(m, n, f) <=> \E k \in Inputs(m, n) : x \in f[k]
<1> DEFINE A == {k \in KidSummaries(m, n) : m.node[k].sources \cap Live(m) # {}}
           B == (m.node[n].sources \ UNION {m.node[k].sources : k \in KidSummaries(m, n)}) \cap Live(m)
<1>1. SectionText(m, n, f) = UNION ({f[k] : k \in A} \cup {f[k] : k \in B})
  BY DEF SectionText
<1>2. Inputs(m, n) = A \cup B
  BY DEF Inputs
<1> HIDE DEF A, B
<1> QED
  BY <1>1, <1>2

LEMMA InputsAreBelow ==
  ASSUME NEW m, InShape(m), NEW n \in DOMAIN m.node, m.node[n].kind = "section"
  PROVE  /\ Inputs(m, n) \subseteq DOMAIN m.node
         /\ \A k \in Inputs(m, n) : k \in LiveKids(m, n) \/ m.node[k].kind = "raw"
  BY DEF Inputs, KidSummaries, Summaries, LiveKids, Live, InShape, Fits

\* Whatever is rewritten is worded from what is stored, a section from its inputs.
LEMMA RewordedText ==
  ASSUME NEW m, InShape(m), NEW todo \in SUBSET Summaries(m), NEW n \in DOMAIN m.node
  PROVE  /\ Reworded(m, todo)[n] \in SUBSET Texts
         /\ n \notin todo => \A x : x \in Reworded(m, todo)[n] <=> x \in m.node[n].text
         /\ n \in todo /\ m.node[n].kind = "section" =>
              \A x : x \in Reworded(m, todo)[n] <=> \E k \in Inputs(m, n) : x \in Reworded(m, todo)[k]
<1> DEFINE D == DOMAIN m.node
           Section(k) == m.node[k].kind = "section"
           given == [k \in D |-> IF k \notin todo \/ (~Section(k) /\ LiveKids(m, k) = {}) THEN m.node[k].text ELSE {}]
           others == [k \in D |-> IF k \notin todo THEN {} ELSE IF Section(k) THEN Inputs(m, k) ELSE LiveKids(m, k)]
           Word(f, k) == IF k \notin todo THEN m.node[k].text
                         ELSE IF Section(k) THEN SectionText(m, k, f)
                         ELSE IF LiveKids(m, k) = {} THEN m.node[k].text
                         ELSE UNION {f[j] : j \in LiveKids(m, k)}
           Step(f) == [k \in D |-> Word(f, k)]
           text == CHOOSE f : f = Step(f)
<1>0. \A k \in D : m.node[k].text \in SUBSET Texts /\ LiveKids(m, k) \subseteq D
  BY DEF InShape, Fits, Nodes, LiveKids, Live
<1>1. given \in Families(D, Texts) /\ others \in Families(D, D)
  BY <1>0, InputsAreBelow DEF Families
<1>2. ASSUME NEW f, NEW k \in D, NEW x
      PROVE  x \in Word(f, k) <=> x \in given[k] \/ \E j \in others[k] : x \in f[j]
  <2>1. CASE k \notin todo
    BY <2>1
  <2>2. CASE k \in todo /\ Section(k)
    BY <2>2, SectionWords
  <2>3. CASE k \in todo /\ ~Section(k)
    BY <2>3
  <2> QED
    BY <2>1, <2>2, <2>3
<1>3. \E f : f = Step(f)
  <2> HIDE DEF given, others, Word
  <2>1. PICK f \in Families(D, Texts) : SumOf(f, D, given, others)
    BY <1>1, LeastSum
  <2>2. ASSUME NEW k \in D PROVE f[k] = Word(f, k)
    <3>1. \A x : x \in f[k] <=> x \in Word(f, k)
      BY <1>2, <2>1 DEF SumOf
    <3> QED
      BY <3>1
  <2>3. f = [k \in D |-> f[k]]
    BY <2>1 DEF Families
  <2> QED
    BY <2>2, <2>3
<1>4. text = Step(text)
  BY <1>3
<1>5. SumOf(text, D, given, others)
  <2> HIDE DEF text, Word, given, others
  <2>1. \A k \in D : text[k] = Word(text, k)
    BY <1>4
  <2> QED
    BY <1>2, <2>1 DEF SumOf
<1>6. NoCircle(D, others)
  <2> SUFFICES ASSUME NEW S \in SUBSET D, S # {} PROVE \E k \in S : others[k] \cap S = {}
    BY DEF NoCircle
  <2>1. CASE \E k \in S : k \notin todo
    BY <2>1
  <2>2. CASE S \subseteq todo
    <3>1. PICK k \in S : LiveKids(m, k) \cap S = {}
      BY <2>2, DownEnds
    <3>2. \A j \in S : m.node[j].kind # "raw"
      BY <2>2 DEF Summaries
    <3>3. others[k] \cap S = {}
      BY <3>1, <3>2, InputsAreBelow
    <3> QED
      BY <3>3
  <2> QED
    BY <2>1, <2>2
<1>7. \A k \in D : \A x : x \in text[k] => x \in Texts
  <2> HIDE DEF text, given, others, D
  <2> QED
    BY <1>1, <1>5, <1>6, SumTyped
<1>8. Reworded(m, todo) = text
  BY DEF Reworded
<1> HIDE DEF text
<1>9. /\ n \notin todo => \A x : x \in text[n] <=> x \in m.node[n].text
      /\ n \in todo /\ Section(n) => \A x : x \in text[n] <=> \E k \in Inputs(m, n) : x \in text[k]
  BY <1>5 DEF SumOf
<1> QED
  BY <1>7, <1>8, <1>9

LEMMA RewrittenInShape ==
  ASSUME NEW m, InShape(m)
  PROVE  InShape(Rewritten(m))
<1> DEFINE todo == Affected(m, m.dirty)
           text == Reworded(m, todo)
           new == Rewritten(m)
<1>1. todo \in SUBSET Summaries(m)
  BY DEF Affected
<1>2. WellFormed(new)
  BY SummariesRewritten DEF InShape, Grows
<1>3. \A n \in DOMAIN m.node : text[n] \in SUBSET Texts
  BY <1>1, RewordedText
<1>4. DOMAIN new.node = DOMAIN m.node /\ new.dirty = {}
  BY DEF Rewritten
<1>5. ASSUME NEW n \in DOMAIN m.node
      PROVE  /\ new.node[n] \in Nodes
             /\ new.node[n].kind = m.node[n].kind /\ new.node[n].page = m.node[n].page
             /\ new.node[n].sources = m.node[n].sources /\ new.node[n].parent = m.node[n].parent
  <2>1. m.node[n] \in Nodes
    BY DEF InShape, Fits
  <2>2. new.node[n] = m.node[n] \/ new.node[n] = [m.node[n] EXCEPT !.text = text[n], !.flag = FALSE]
    BY DEF Rewritten
  <2> HIDE DEF new, text
  <2> QED
    BY <1>3, <2>1, <2>2 DEF Nodes
<1> HIDE DEF new
<1>6. InShape(new)
  BY <1>2, <1>4, <1>5, Grown
<1> QED
  BY <1>6 DEF new

\* The wordings of drafts are pieces of sources too.
Drafted(d) == \A n \in DOMAIN d.node : d.node[n].text \in SUBSET Texts

\* So is whatever a synchronisation stages, as no draft is worded from itself.
LEMMA StagedText ==
  ASSUME NEW m, InShape(m), NEW d, Drafted(d), NEW todo \in SUBSET DOMAIN d.node, ~Cyclic(d, todo), NEW n \in todo
  PROVE  /\ Staged(m, d, todo)[n] \in SUBSET Texts
         /\ Has(m, n) /\ m.node[n].kind = "section" =>
              \A x \in Staged(m, d, todo)[n] : \E k \in Inputs(m, n) : k \in Sources(m) => x \in m.node[k].text
<1> DEFINE D == DOMAIN m.node \cup DOMAIN d.node
           Section(k) == Has(m, k) /\ m.node[k].kind = "section"
           Later(k) == {j \in todo \ Sources(m) : <<k, j>> \in d.edge}
           Stored(f, k) == [j \in DOMAIN m.node |->
                              IF j \in todo \ Sources(m) /\ <<k, j>> \in d.edge THEN f[j] ELSE m.node[j].text]
           Own(k) == IF k \in DOMAIN d.node THEN d.node[k].text ELSE m.node[k].text
           given == [k \in D |-> IF k \notin todo THEN Own(k)
                                 ELSE IF Section(k) THEN UNION {m.node[j].text : j \in Inputs(m, k) \ Later(k)}
                                 ELSE {}]
           others == [k \in D |-> IF k \notin todo THEN {}
                                  ELSE IF Section(k) THEN Inputs(m, k) \cap Later(k)
                                  ELSE {c \in DraftKids(d, k) : d.node[c].live}]
           Word(f, k) == IF k \notin todo THEN IF k \in DOMAIN d.node THEN d.node[k].text ELSE m.node[k].text
                         ELSE IF Section(k) THEN SectionText(m, k, Stored(f, k))
                         ELSE UNION {f[j] : j \in {c \in DraftKids(d, k) : d.node[c].live}}
           Step(f) == [k \in D |-> Word(f, k)]
           text == CHOOSE f : f = Step(f)
<1>0. /\ \A k \in DOMAIN m.node : m.node[k].text \in SUBSET Texts
      /\ \A k \in DOMAIN d.node : d.node[k].text \in SUBSET Texts
      /\ \A k \in D : Own(k) \in SUBSET Texts /\ DraftKids(d, k) \subseteq D
      /\ \A k \in D : Section(k) => Inputs(m, k) \subseteq DOMAIN m.node
  <2>1. \A k \in DOMAIN m.node : m.node[k].text \in SUBSET Texts
    BY DEF InShape, Fits, Nodes
  <2>2. \A k \in D : Section(k) => Inputs(m, k) \subseteq DOMAIN m.node
    BY InputsAreBelow DEF Has
  <2> QED
    BY <2>1, <2>2 DEF Drafted, DraftKids
<1>1. given \in Families(D, Texts) /\ others \in Families(D, D)
  <2>1. ASSUME NEW k \in D PROVE given[k] \in SUBSET Texts /\ others[k] \in SUBSET D
    <3>1. CASE k \notin todo
      <4> HIDE DEF Own
      <4> QED
        BY <1>0, <3>1
    <3>2. CASE k \in todo /\ Section(k)
      <4>1. given[k] = UNION {m.node[j].text : j \in Inputs(m, k) \ Later(k)} /\ others[k] = Inputs(m, k) \cap Later(k)
        BY <3>2
      <4>2. \A j \in Inputs(m, k) : j \in DOMAIN m.node /\ m.node[j].text \in SUBSET Texts
        BY <1>0, <3>2
      <4> HIDE DEF given, others, Later
      <4> QED
        BY <4>1, <4>2
    <3>3. CASE k \in todo /\ ~Section(k)
      BY <1>0, <3>3
    <3> QED
      BY <3>1, <3>2, <3>3
  <2> QED
    BY <2>1 DEF Families
<1>2. ASSUME NEW f, NEW k \in D, NEW x
      PROVE  x \in Word(f, k) <=> x \in given[k] \/ \E j \in others[k] : x \in f[j]
  <2>1. CASE k \notin todo
    BY <2>1
  <2>2. CASE k \in todo /\ Section(k)
    <3>1. x \in Word(f, k) <=> \E j \in Inputs(m, k) : x \in Stored(f, k)[j]
      BY <2>2, SectionWords
    <3>2. \A j \in Inputs(m, k) : Stored(f, k)[j] = IF j \in Later(k) THEN f[j] ELSE m.node[j].text
      BY <1>0, <2>2
    <3>3. x \in given[k] <=> \E j \in Inputs(m, k) : j \notin Later(k) /\ x \in m.node[j].text
      BY <2>2
    <3>4. others[k] = Inputs(m, k) \cap Later(k)
      BY <2>2
    <3> HIDE DEF Word, given, others, Stored, Later
    <3> QED
      BY <3>1, <3>2, <3>3, <3>4
  <2>3. CASE k \in todo /\ ~Section(k)
    BY <2>3
  <2> QED
    BY <2>1, <2>2, <2>3
<1>3. \E f : f = Step(f)
  <2> HIDE DEF given, others, Word
  <2>1. PICK f \in Families(D, Texts) : SumOf(f, D, given, others)
    BY <1>1, LeastSum
  <2>2. ASSUME NEW k \in D PROVE f[k] = Word(f, k)
    <3>1. \A x : x \in f[k] <=> x \in Word(f, k)
      BY <1>2, <2>1 DEF SumOf
    <3> QED
      BY <3>1
  <2>3. f = [k \in D |-> f[k]]
    BY <2>1 DEF Families
  <2> QED
    BY <2>2, <2>3
<1>4. text = Step(text)
  BY <1>3
<1>5. SumOf(text, D, given, others)
  <2> HIDE DEF text, Word, given, others
  <2>1. \A k \in D : text[k] = Word(text, k)
    BY <1>4
  <2> QED
    BY <1>2, <2>1 DEF SumOf
<1>6. NoCircle(D, others)
  <2> SUFFICES ASSUME NEW S \in SUBSET D, S # {} PROVE \E k \in S : others[k] \cap S = {}
    BY DEF NoCircle
  <2>1. CASE \E k \in S : k \notin todo
    BY <2>1
  <2>2. CASE S \subseteq todo
    <3>1. PICK k \in S : \A j \in S : <<k, j>> \notin d.edge
      BY <2>2 DEF Cyclic
    <3>2. \A j \in others[k] : <<k, j>> \in d.edge
      BY DEF DraftKids
    <3> QED
      BY <3>1, <3>2
  <2> QED
    BY <2>1, <2>2
<1>7. \A k \in D : \A x : x \in text[k] => x \in Texts
  <2> HIDE DEF text, given, others, D
  <2> QED
    BY <1>1, <1>5, <1>6, SumTyped
<1>8. Staged(m, d, todo) = text
  BY DEF Staged
<1> HIDE DEF text
<1>9. ASSUME Section(n), NEW x \in text[n]
      PROVE  \E k \in Inputs(m, n) : k \in Sources(m) => x \in m.node[k].text
  <2>1. x \in given[n] \/ \E k \in others[n] : x \in text[k]
    BY <1>5 DEF SumOf
  <2>2. /\ given[n] = UNION {m.node[k].text : k \in Inputs(m, n) \ Later(n)}
        /\ others[n] = Inputs(m, n) \cap Later(n)
    BY <1>9
  <2>3. \A k \in Later(n) : k \notin Sources(m)
    OBVIOUS
  <2> HIDE DEF given, others, Later
  <2> QED
    BY <2>1, <2>2, <2>3
<1> QED
  BY <1>7, <1>8, <1>9

LEMMA SyncedInShape ==
  ASSUME NEW m, InShape(m), NEW d, DOMAIN d.node \subseteq Ids, NEW done \in SUBSET Ids, NEW text,
         \A n \in done : text[n] \in SUBSET Texts
  PROVE  InShape(Synced(m, d, done, text))
<1> DEFINE new == Synced(m, d, done, text)
<1>1. WellFormed(new)
  BY DraftsSynced DEF InShape, Grows
<1>2. DOMAIN new.node = DOMAIN m.node \cup done /\ new.dirty \subseteq DOMAIN m.node
  BY DEF Synced, InShape
<1>3. \A n : DraftKids(d, n) \in SUBSET Ids
  BY DEF DraftKids
<1>4. ASSUME NEW n \in DOMAIN m.node
      PROVE  /\ new.node[n] \in Nodes
             /\ new.node[n].kind = m.node[n].kind /\ new.node[n].page = m.node[n].page
             /\ m.node[n].kind = "section" => new.node[n].sources = m.node[n].sources
             /\ new.node[n].parent = m.node[n].parent
  <2> DEFINE old == m.node[n]
             sources == IF old.kind = "section" THEN old.sources ELSE DraftKids(d, n)
  <2>1. old \in Nodes /\ DOMAIN old = NodeFields
    BY DEF InShape, Fits, WellFormed
  <2>2. \/ new.node[n] = old
        \/ new.node[n] = [old EXCEPT !.nav = TRUE, !.sources = sources]
        \/ n \in done /\ new.node[n] = [old EXCEPT !.nav = TRUE, !.sources = sources, !.text = text[n], !.flag = FALSE]
    BY <2>1 DEF Synced, Has, NodeFields
  <2>3. sources \in SUBSET Ids /\ (old.kind = "section" => sources = old.sources)
    BY <1>3, <2>1 DEF Nodes
  <2> HIDE DEF new, old, sources
  <2>4. /\ new.node[n] \in Nodes
        /\ new.node[n].kind = old.kind /\ new.node[n].page = old.page /\ new.node[n].parent = old.parent
        /\ old.kind = "section" => new.node[n].sources = old.sources
    BY <2>1, <2>2, <2>3 DEF Nodes
  <2> QED
    BY <2>4 DEF old
<1>5. ASSUME NEW n \in done, n \notin DOMAIN m.node PROVE Fits(new, n)
  <2>1. new.node[n] = [kind |-> "summary", live |-> TRUE, nav |-> TRUE, parent |-> NoNode,
                       sources |-> DraftKids(d, n), text |-> text[n], flag |-> TRUE, page |-> 0]
    BY <1>5 DEF Synced
  <2> HIDE DEF new
  <2>2. new.node[n] \in Nodes
    BY <1>3, <2>1, DocumentAssumption DEF Nodes
  <2> QED
    BY <2>1, <2>2 DEF Fits, Placed
<1> HIDE DEF new
<1>6. InShape(new)
  <2>1. new.dirty \subseteq DOMAIN new.node
    BY <1>2
  <2> QED
    BY <1>1, <1>2, <1>4, <1>5, <2>1, Grown
<1> QED
  BY <1>6 DEF new

LEMMA BootstrapDrafted ==
  ASSUME NEW m, InShape(m)
  PROVE  Drafted(Bootstrap(m))
  BY DEF Bootstrap, Drafted, InShape, Fits, Nodes

LEMMA SoilDrafted ==
  ASSUME NEW d, DraftsFormed(d), Drafted(d), NEW marked
  PROVE  Drafted(Soil(d, marked))
  BY DEF Soil, Drafted, DraftsFormed, DraftFields

LEMMA MountedDrafted ==
  ASSUME NEW d, DraftsFormed(d), Drafted(d), d.last + 1 < MaxId, NEW p \in Engines, NEW accepted
  PROVE  Drafted(Mounted(d, d.last + 1, p, accepted))
<1> DEFINE n == d.last + 1
           leaf == [summary |-> FALSE, live |-> TRUE, text |-> {<<n, p>>}, dirty |-> FALSE]
           new == [summary |-> TRUE, live |-> TRUE, text |-> {}, dirty |-> TRUE]
<1>0. /\ DOMAIN leaf = DraftFields /\ DOMAIN new = DraftFields
      /\ leaf.text \in SUBSET Texts /\ new.text \in SUBSET Texts
  <2>1. n \in Ids
    BY MemoryBoundsAssumption DEF DraftsFormed, Ids
  <2> HIDE DEF n
  <2> QED
    BY <2>1 DEF DraftFields, Texts
<1>1. CASE accepted # {}
  <2> DEFINE wider == [node |-> Joined([k \in {n} |-> leaf], d.node), index |-> d.index, last |-> n,
                       edge |-> d.edge \cup {<<c, n>> : c \in accepted}]
  <2>1. DraftsFormed(wider) /\ Drafted(wider)
    <3> HIDE DEF leaf
    <3> QED
      BY <1>0, MemoryBoundsAssumption DEF DraftsFormed, Drafted, Joined
  <2>2. Mounted(d, n, p, accepted) = Soil(wider, accepted \cup UNION {CleanAbove(d, c) : c \in accepted})
    BY <1>1 DEF Mounted
  <2> HIDE DEF wider
  <2> QED
    BY <2>1, <2>2, SoilDrafted
<1>2. CASE accepted = {}
  <2> DEFINE wider == [node |-> Joined([k \in {n, n + 1} |-> IF k = n THEN leaf ELSE new], d.node),
                       edge |-> d.edge \cup {<<n + 1, n>>}, index |-> d.index \cup {n + 1}, last |-> n + 1]
  <2>1. Drafted(wider)
    <3> HIDE DEF leaf, new
    <3> QED
      BY <1>0 DEF Drafted, Joined
  <2>2. Mounted(d, n, p, accepted) = wider
    BY <1>2 DEF Mounted
  <2> QED
    BY <2>1, <2>2
<1> QED
  BY <1>1, <1>2

-----------------------------------------------------------------------------
(* Marks.                                                                   *)

\* No section of the document contains another one.
SideBySide == \A i \in DOMAIN Sections : Sections[i].parent = 0

Dead(m) == Sources(m) \ Live(m)

\* A source is worded by itself.  A section is worded by its own sources, those of the
\* sections below it are among its own, and unless it is marked none of its words is dead.
MarkedAt(m, n) ==
  /\ m.node[n].kind = "raw" => \A x \in m.node[n].text : x[1] = n
  /\ m.node[n].kind = "section" =>
       /\ \A x \in m.node[n].text : x[1] \in m.node[n].sources
       /\ m.node[n].parent # NoNode =>
            ~SideBySide /\ m.node[n].sources \subseteq m.node[m.node[n].parent].sources
       /\ m.node[n].live /\ n \notin m.dirty => \A x \in m.node[n].text : x[1] \notin Dead(m)

Marked(m) == \A n \in DOMAIN m.node : MarkedAt(m, n)

LEMMA MarkedGrown ==
  ASSUME NEW m, InShape(m), Marked(m), NEW new, DOMAIN m.node \subseteq DOMAIN new.node,
         \A n \in DOMAIN m.node :
           /\ new.node[n].kind = m.node[n].kind
           /\ m.node[n].kind = "raw" => new.node[n].text = m.node[n].text
           /\ m.node[n].kind = "section" =>
                /\ new.node[n].parent = m.node[n].parent /\ new.node[n].sources = m.node[n].sources
                /\ \A x \in new.node[n].text : x[1] \in m.node[n].sources
                /\ new.node[n].live /\ n \notin new.dirty => \A x \in new.node[n].text : x[1] \notin Dead(new),
         \A n \in DOMAIN new.node : n \in DOMAIN m.node \/ MarkedAt(new, n)
  PROVE  Marked(new)
<1> SUFFICES ASSUME NEW n \in DOMAIN m.node PROVE MarkedAt(new, n)
  BY DEF Marked
<1>1. MarkedAt(m, n) /\ Placed(m, n)
  BY DEF Marked, InShape, Fits
<1> QED
  BY <1>1 DEF MarkedAt, Placed

LEMMA Undisturbed ==
  ASSUME NEW m, InShape(m), Marked(m), NEW new, DOMAIN m.node \subseteq DOMAIN new.node, Dead(new) \subseteq Dead(m),
         \A n \in DOMAIN m.node :
           /\ new.node[n].kind = m.node[n].kind
           /\ m.node[n].kind = "raw" => new.node[n].text = m.node[n].text
           /\ m.node[n].kind = "section" =>
                /\ new.node[n].parent = m.node[n].parent /\ new.node[n].sources = m.node[n].sources
                /\ new.node[n].text = m.node[n].text
                /\ new.node[n].live => m.node[n].live
                /\ n \in m.dirty => n \in new.dirty,
         \A n \in DOMAIN new.node : n \in DOMAIN m.node \/ MarkedAt(new, n)
  PROVE  Marked(new)
<1>1. ASSUME NEW n \in DOMAIN m.node, m.node[n].kind = "section"
      PROVE  /\ \A x \in new.node[n].text : x[1] \in m.node[n].sources
             /\ new.node[n].live /\ n \notin new.dirty => \A x \in new.node[n].text : x[1] \notin Dead(new)
  BY <1>1 DEF Marked, MarkedAt
<1> QED
  BY <1>1, MarkedGrown

\* What _propagate_dirty changes are marks.
LEMMA OnlyMarks ==
  ASSUME NEW m, WellFormed(m), NEW n, NEW new, new = PropagateDirty(m, n)
  PROVE  /\ DOMAIN new.node = DOMAIN m.node /\ \A k \in m.dirty : k \in new.dirty
         /\ \A k \in DOMAIN m.node :
              /\ new.node[k].kind = m.node[k].kind /\ new.node[k].text = m.node[k].text
              /\ new.node[k].parent = m.node[k].parent /\ new.node[k].sources = m.node[k].sources
              /\ new.node[k].live = m.node[k].live
         /\ \A k \in Summaries(m) : m.node[k].kind = "section" /\ n \in m.node[k].sources => k \in new.dirty
<1>1. DOMAIN new.node = DOMAIN m.node /\ \A k \in m.dirty : k \in new.dirty
  BY DEF PropagateDirty
<1>2. ASSUME NEW k \in DOMAIN m.node
      PROVE  /\ new.node[k].kind = m.node[k].kind /\ new.node[k].text = m.node[k].text
             /\ new.node[k].parent = m.node[k].parent /\ new.node[k].sources = m.node[k].sources
             /\ new.node[k].live = m.node[k].live
  <2>1. DOMAIN m.node[k] = NodeFields
    BY DEF WellFormed
  <2>2. new.node[k] = m.node[k] \/ new.node[k] = [m.node[k] EXCEPT !.flag = TRUE]
    BY DEF PropagateDirty
  <2> QED
    BY <2>1, <2>2 DEF NodeFields
<1>3. \A k \in Summaries(m) : m.node[k].kind = "section" /\ n \in m.node[k].sources => k \in new.dirty
  BY DEF PropagateDirty
<1> QED
  BY <1>1, <1>2, <1>3

\* A source that is deleted leaves no section with its words unmarked.
LEMMA DeadMarked ==
  ASSUME NEW m, InShape(m), Marked(m), NEW n \in DOMAIN m.node
  PROVE  Marked(Tombstoned(m, n))
<1> DEFINE dead == [m EXCEPT !.node[n].live = FALSE]
           new == PropagateDirty(dead, n)
<1>1. DOMAIN dead.node = DOMAIN m.node /\ dead.dirty = m.dirty
  BY DEF InShape, WellFormed
<1>2. ASSUME NEW k \in DOMAIN m.node
      PROVE  /\ dead.node[k].kind = m.node[k].kind /\ dead.node[k].text = m.node[k].text
             /\ dead.node[k].parent = m.node[k].parent /\ dead.node[k].sources = m.node[k].sources
             /\ dead.node[k].live <=> m.node[k].live /\ k # n
  <2>1. DOMAIN m.node[k] = NodeFields /\ m.node[k].live \in BOOLEAN
    BY DEF InShape, WellFormed, Fits, Nodes
  <2>2. dead.node[k] = IF k = n THEN [m.node[k] EXCEPT !.live = FALSE] ELSE m.node[k]
    BY DEF InShape, WellFormed
  <2> HIDE DEF dead
  <2> QED
    BY <2>1, <2>2 DEF NodeFields
<1>3. WellFormed(dead)
  BY DEF InShape, WellFormed, NodeFields
<1> HIDE DEF dead
<1>4. /\ DOMAIN new.node = DOMAIN m.node /\ \A k \in m.dirty : k \in new.dirty
      /\ \A k \in DOMAIN m.node :
           /\ new.node[k].kind = m.node[k].kind /\ new.node[k].text = m.node[k].text
           /\ new.node[k].parent = m.node[k].parent /\ new.node[k].sources = m.node[k].sources
           /\ new.node[k].live <=> m.node[k].live /\ k # n
      /\ \A k \in Summaries(dead) : m.node[k].kind = "section" /\ n \in m.node[k].sources => k \in new.dirty
  <2>1. /\ DOMAIN new.node = DOMAIN dead.node /\ \A k \in dead.dirty : k \in new.dirty
        /\ \A k \in DOMAIN dead.node :
             /\ new.node[k].kind = dead.node[k].kind /\ new.node[k].text = dead.node[k].text
             /\ new.node[k].parent = dead.node[k].parent /\ new.node[k].sources = dead.node[k].sources
             /\ new.node[k].live = dead.node[k].live
        /\ \A k \in Summaries(dead) : dead.node[k].kind = "section" /\ n \in dead.node[k].sources => k \in new.dirty
    BY <1>3, OnlyMarks
  <2>2. \A k \in Summaries(dead) : k \in DOMAIN m.node
    BY <1>1 DEF Summaries, Live
  <2> HIDE DEF new
  <2> QED
    BY <1>1, <1>2, <2>1, <2>2
<1> HIDE DEF new
<1>5. \A k \in Dead(new) : k \in Dead(m) \/ k = n
  BY <1>4 DEF Dead, Sources, Live
<1>6. ASSUME NEW k \in DOMAIN m.node, m.node[k].kind = "section", new.node[k].live, k \notin new.dirty
      PROVE  \A x \in new.node[k].text : x[1] \notin Dead(new)
  <2>1. k \in Summaries(dead)
    BY <1>1, <1>2, <1>4, <1>6 DEF Summaries, Live
  <2>2. n \notin m.node[k].sources
    BY <1>4, <1>6, <2>1
  <2> QED
    BY <1>4, <1>5, <1>6, <2>2 DEF Marked, MarkedAt
<1>7. Marked(new)
  <2>1. \A k \in DOMAIN m.node : m.node[k].kind = "section" => \A x \in new.node[k].text : x[1] \in m.node[k].sources
    BY <1>4 DEF Marked, MarkedAt
  <2> QED
    BY <1>4, <1>6, <2>1, MarkedGrown
<1> QED
  BY <1>7 DEF Tombstoned, new, dead

LEMMA SourceMarked ==
  ASSUME NEW p \in Engines, InShape(mem[p]), Marked(mem[p]), NEW n \in Ids, n \notin DOMAIN mem[p].node, NEW parent
  PROVE  Marked(Added(p, n, parent))
<1> DEFINE old == mem[p]
           wide == [old EXCEPT !.node = Joined([k \in {n} |-> Source(p, k, parent)], @)]
           new == PropagateDirty(wide, n)
<1>1. /\ DOMAIN wide = {"node", "dirty"} /\ wide.dirty = old.dirty
      /\ DOMAIN wide.node = DOMAIN old.node \cup {n}
      /\ \A k \in DOMAIN old.node : wide.node[k] = old.node[k]
      /\ wide.node[n] = Source(p, n, parent)
  BY DEF InShape, WellFormed, Joined
<1> HIDE DEF wide
<1>2. /\ wide.node[n].kind = "raw" /\ wide.node[n].live /\ wide.node[n].text = {<<n, p>>}
      /\ DOMAIN wide.node[n] = NodeFields
  BY <1>1 DEF Source, NodeFields
<1>3. WellFormed(wide)
  BY <1>1, <1>2 DEF InShape, WellFormed
<1>4. /\ DOMAIN new.node = DOMAIN old.node \cup {n} /\ \A k \in old.dirty : k \in new.dirty
      /\ \A k \in DOMAIN wide.node :
           /\ new.node[k].kind = wide.node[k].kind /\ new.node[k].text = wide.node[k].text
           /\ new.node[k].parent = wide.node[k].parent /\ new.node[k].sources = wide.node[k].sources
           /\ new.node[k].live = wide.node[k].live
  BY <1>1, <1>3, OnlyMarks
<1> HIDE DEF new
<1>5. MarkedAt(new, n)
  BY <1>1, <1>2, <1>4 DEF MarkedAt
<1>6. Dead(new) \subseteq Dead(old)
  BY <1>1, <1>2, <1>4 DEF Dead, Sources, Live
<1>7. Marked(new)
  <2> HIDE DEF old
  <2> QED
    BY <1>1, <1>4, <1>5, <1>6, Undisturbed DEF old
<1> QED
  BY <1>7 DEF Added, new, wide

LEMMA InitialMarked ==
  ASSUME NEW p \in Engines, InShape(mem[p]), NEW n
  PROVE  Marked([mem[p] EXCEPT !.node = [k \in 1 .. n |-> Source(p, k, NoNode)]])
<1> DEFINE new == [mem[p] EXCEPT !.node = [k \in 1 .. n |-> Source(p, k, NoNode)]]
<1>1. DOMAIN new.node = 1 .. n /\ \A k \in 1 .. n : new.node[k] = Source(p, k, NoNode)
  BY DEF InShape, WellFormed
<1>2. \A k : Source(p, k, NoNode).kind = "raw" /\ Source(p, k, NoNode).text = {<<k, p>>}
  BY DEF Source
<1> HIDE DEF new
<1>3. Marked(new)
  BY <1>1, <1>2 DEF Marked, MarkedAt
<1> QED
  BY <1>3 DEF new

LEMMA SummaryMarked ==
  ASSUME NEW m, InShape(m), Marked(m), NextId(m) \in Ids, NEW kids \in SUBSET DOMAIN m.node,
         \A k \in kids : m.node[k].kind # "section",
         NEW wider, wider.dirty = m.dirty \ {NextId(m)},
         DOMAIN wider.node = DOMAIN m.node \cup {NextId(m)},
         \A k \in DOMAIN m.node :
           wider.node[k] = IF k \in kids THEN [m.node[k] EXCEPT !.parent = NextId(m)] ELSE m.node[k],
         wider.node[NextId(m)].kind = "summary"
  PROVE  Marked(wider)
<1> DEFINE n == NextId(m)
<1>1. n \notin DOMAIN m.node
  BY FreshId, MemoryBoundsAssumption DEF InShape, WellFormed, Ids
<1> HIDE DEF n
<1>2. ASSUME NEW k \in DOMAIN m.node
      PROVE  /\ wider.node[k].kind = m.node[k].kind /\ wider.node[k].text = m.node[k].text
             /\ wider.node[k].sources = m.node[k].sources /\ wider.node[k].live = m.node[k].live
             /\ m.node[k].kind = "section" => wider.node[k].parent = m.node[k].parent
  <2>1. DOMAIN m.node[k] = NodeFields
    BY DEF InShape, WellFormed
  <2>2. \/ wider.node[k] = m.node[k]
        \/ m.node[k].kind # "section" /\ wider.node[k] = [m.node[k] EXCEPT !.parent = NextId(m)]
    OBVIOUS
  <2> QED
    BY <2>1, <2>2 DEF NodeFields
<1>3. Dead(wider) \subseteq Dead(m)
  BY <1>1, <1>2 DEF Dead, Sources, Live, n
<1>4. MarkedAt(wider, n)
  BY DEF MarkedAt, n
<1>5. DOMAIN wider.node = DOMAIN m.node \cup {n} /\ \A k \in m.dirty : k \in DOMAIN m.node /\ k \in wider.dirty
  BY <1>1 DEF InShape, n
<1> QED
  BY <1>2, <1>3, <1>4, <1>5, Undisturbed

LEMMA DocumentMarked ==
  ASSUME NEW p \in Engines, InShape(mem[p]), Marked(mem[p]), NEW worded \in BOOLEAN,
         NextId(mem[p]) + Pages + Len(Sections) - 1 <= MaxId
  PROVE  Marked([mem[p] EXCEPT !.node = Joined(Document(p, NextId(mem[p]), worded), @)])
<1> DEFINE old == mem[p]
           first == NextId(old)
           doc == Document(p, first, worded)
           new == [old EXCEPT !.node = Joined(doc, @)]
<1>1. first \in Nat \ {0} /\ \A n \in DOMAIN old.node : n \in Nat /\ n < first
  BY FreshId, MemoryBoundsAssumption DEF InShape, WellFormed, Ids
<1>2. /\ Pages \in Nat /\ Len(Sections) \in Nat /\ DOMAIN Sections = 1 .. Len(Sections)
      /\ \A i \in 1 .. Len(Sections) :
           /\ Sections[i].first \in Nat \ {0} /\ Sections[i].last \in Nat /\ Sections[i].last <= Pages
           /\ Sections[i].parent \in Nat /\ Sections[i].parent < i
           /\ Sections[i].parent # 0 => Over(i) \subseteq Over(Sections[i].parent)
  BY SectionsTyped
<1>3. \A n \in DOMAIN doc : n \in Nat /\ first <= n
  BY <1>1, <1>2 DEF Document
<1>4. /\ new.dirty = old.dirty /\ DOMAIN new.node = DOMAIN doc \cup DOMAIN old.node
      /\ \A n \in DOMAIN doc : new.node[n] = doc[n]
      /\ \A n \in DOMAIN old.node : n \notin DOMAIN doc /\ new.node[n] = old.node[n]
  <2>1. \A n \in DOMAIN old.node : n \notin DOMAIN doc
    BY <1>1, <1>3
  <2> HIDE DEF doc
  <2> QED
    BY <2>1 DEF Joined, InShape, WellFormed
<1>5. /\ \A i \in 1 .. Pages : IsPage(doc, p, first, i)
      /\ \A i \in 1 .. Len(Sections) : IsSection(doc, p, first, worded, i)
      /\ \A n \in DOMAIN doc :
           (\E i \in 1 .. Pages : n = first + i - 1) \/ \E i \in 1 .. Len(Sections) : n = first + Pages + i - 1
  BY <1>1, DocumentNodes
<1> HIDE DEF doc, first, new
<1>6. ASSUME NEW i \in 1 .. Pages
      PROVE  LET n == first + i - 1 IN
             /\ n \in DOMAIN doc /\ doc[n].kind = "raw" /\ doc[n].live /\ doc[n].text = {<<n, p>>}
             /\ MarkedAt(new, n)
  <2> DEFINE n == first + i - 1
  <2>1. n \in DOMAIN doc /\ doc[n] = [Source(p, n, SectionId(first, Owner(i))) EXCEPT !.page = i]
    BY <1>5 DEF IsPage
  <2> HIDE DEF n
  <2>2. doc[n].kind = "raw" /\ doc[n].live /\ doc[n].text = {<<n, p>>}
    BY <2>1 DEF Source
  <2>3. MarkedAt(new, n)
    <3>1. new.node[n] = doc[n] /\ \A x \in {<<n, p>>} : x[1] = n
      BY <1>4, <2>1
    <3> QED
      BY <2>2, <3>1 DEF MarkedAt
  <2> QED
    BY <2>1, <2>2, <2>3 DEF n
<1>7. ASSUME NEW i \in 1 .. Len(Sections)
      PROVE  MarkedAt(new, first + Pages + i - 1) /\ doc[first + Pages + i - 1].kind = "section"
  <2> DEFINE n == first + Pages + i - 1
             above == Sections[i].parent
             pages == {first + k - 1 : k \in Over(i)}
             text == IF worded THEN {<<first + k - 1, p>> : k \in Over(i)} ELSE {}
  <2>1. /\ n \in DOMAIN doc /\ doc[n].kind = "section"
        /\ doc[n] = [kind |-> "section", live |-> TRUE, nav |-> TRUE, parent |-> SectionId(first, above),
                     sources |-> pages, flag |-> FALSE, page |-> 0, text |-> text]
    BY <1>5 DEF IsSection
  <2>2. doc[n].sources = pages /\ doc[n].text = text /\ doc[n].parent = SectionId(first, above)
    <3> HIDE DEF pages, text, above
    <3> QED
      BY <2>1
  <2>3. \A k \in Over(i) : k \in 1 .. Pages
    BY <1>2 DEF Over
  <2>4. \A x \in text : x[1] \in pages
    OBVIOUS
  <2>5. \A k \in pages : k \in DOMAIN doc /\ doc[k].live
    BY <1>6, <2>3
  <2>6. \A k \in pages : k \notin Dead(new)
    <3> HIDE DEF pages
    <3> QED
      BY <1>4, <2>5 DEF Dead, Live
  <2>7. ASSUME doc[n].parent # NoNode
        PROVE  ~SideBySide /\ doc[n].parent \in DOMAIN doc /\ pages \subseteq doc[doc[n].parent].sources
    <3>1. above # 0 /\ above \in 1 .. Len(Sections) /\ doc[n].parent = first + Pages + above - 1
      BY <1>2, <2>2, <2>7 DEF SectionId
    <3>2. ~SideBySide
      BY <1>2, <3>1 DEF SideBySide
    <3>3. Over(i) \subseteq Over(above)
      BY <1>2, <3>1
    <3> DEFINE up == first + Pages + above - 1
               wide == {first + k - 1 : k \in Over(above)}
               words == IF worded THEN {<<first + k - 1, p>> : k \in Over(above)} ELSE {}
    <3> HIDE DEF above
    <3>4. /\ up \in DOMAIN doc
          /\ doc[up] = [kind |-> "section", live |-> TRUE, nav |-> TRUE, parent |-> SectionId(first, Sections[above].parent),
                        sources |-> wide, flag |-> FALSE, page |-> 0, text |-> words]
      BY <1>5, <3>1 DEF IsSection
    <3>5. pages \subseteq wide
      BY <3>3
    <3> HIDE DEF pages, wide, words, up
    <3>6. doc[up].sources = wide
      BY <3>4
    <3> QED
      BY <3>1, <3>2, <3>4, <3>5, <3>6 DEF up
  <2> HIDE DEF n, pages, text, above
  <2>8. new.node[n] = doc[n] /\ (doc[n].parent \in DOMAIN doc => new.node[doc[n].parent] = doc[doc[n].parent])
    BY <1>4, <2>1
  <2>9. MarkedAt(new, n)
    BY <2>1, <2>2, <2>4, <2>6, <2>7, <2>8 DEF MarkedAt
  <2> QED
    BY <2>1, <2>9 DEF n
<1>8. \A n \in DOMAIN doc : MarkedAt(new, n) /\ (doc[n].kind = "raw" => doc[n].live)
  <2> TAKE n \in DOMAIN doc
  <2>1. CASE \E i \in 1 .. Pages : n = first + i - 1
    BY <1>6, <2>1
  <2>2. CASE \E i \in 1 .. Len(Sections) : n = first + Pages + i - 1
    BY <1>7, <2>2
  <2> QED
    BY <1>5, <2>1, <2>2
<1>9. Dead(new) \subseteq Dead(old)
  BY <1>4, <1>8 DEF Dead, Sources, Live
<1>10. Marked(new)
  <2> HIDE DEF old
  <2> QED
    BY <1>4, <1>8, <1>9, Undisturbed DEF old
<1> QED
  BY <1>10 DEF new, first, doc

\* A section that is rewritten is worded by sources that live, or by sections below it
\* that were rewritten before it or had nothing to be rewritten.
LEMMA InputsOfSection ==
  ASSUME NEW m, InShape(m), NEW n \in DOMAIN m.node, m.node[n].kind = "section", NEW k \in Inputs(m, n)
  PROVE  \/ k \in m.node[n].sources /\ k \in Live(m) /\ m.node[k].kind = "raw"
         \/ k \in Summaries(m) /\ k \in LiveKids(m, n) /\ m.node[k].kind = "section" /\ m.node[k].parent = n
<1>1. \/ k \in m.node[n].sources /\ k \in Live(m)
      \/ k \in LiveKids(m, n) /\ k \in Summaries(m)
  BY DEF Inputs, KidSummaries
<1>2. \A j \in m.node[n].sources : m.node[j].kind = "raw"
  BY DEF InShape, Fits
<1>3. ASSUME k \in LiveKids(m, n), k \in Summaries(m)
      PROVE  m.node[k].parent = n /\ m.node[k].kind = "section"
  <2>1. k \in DOMAIN m.node /\ m.node[k].parent = n /\ m.node[k].kind # "raw"
    BY <1>3 DEF LiveKids, Summaries, Live
  <2>2. n # NoNode /\ Fits(m, k)
    BY <2>1, MemoryBoundsAssumption DEF InShape, WellFormed, Ids, NoNode
  <2> QED
    BY <2>1, <2>2 DEF Fits, Placed, Nodes
<1> QED
  BY <1>1, <1>2, <1>3

LEMMA RewrittenMarked ==
  ASSUME NEW m, InShape(m), Marked(m)
  PROVE  Marked(Rewritten(m))
<1> DEFINE todo == Affected(m, m.dirty)
           text == Reworded(m, todo)
           done == {s \in todo : m.node[s].kind = "section" \/ LiveKids(m, s) # {}}
           new == Rewritten(m)
           Of(kind) == {n \in Summaries(m) : m.node[n].kind = kind}
<1>1. /\ todo \in SUBSET Summaries(m)
      /\ \A s \in Summaries(m) : s \in m.dirty => s \in todo
  <2>1. \A s \in Summaries(m) : s \in DOMAIN m.node
    BY DEF Summaries, Live
  <2> QED
    BY <2>1, ChainStays DEF Affected
<1> HIDE DEF todo
<1>2. ASSUME NEW n \in DOMAIN m.node
      PROVE  /\ n \notin todo => \A x : x \in text[n] <=> x \in m.node[n].text
             /\ n \in todo /\ m.node[n].kind = "section" =>
                  \A x : x \in text[n] <=> \E k \in Inputs(m, n) : x \in text[k]
  BY <1>1, RewordedText
<1> HIDE DEF text
\* The words of a section are its own, and alive.
<1> DEFINE Good(n) == \A x \in text[n] : x[1] \in m.node[n].sources /\ x[1] \notin Dead(m)
<1>3. \A n \in Of("section") : Good(n)
  <2> DEFINE Bad == {n \in Of("section") : ~Good(n)}
  <2> SUFFICES ASSUME Bad # {} PROVE FALSE
    OBVIOUS
  <2>1. Bad \subseteq Summaries(m)
    OBVIOUS
  <2>2. PICK n \in Bad : LiveKids(m, n) \cap Bad = {}
    <3> HIDE DEF Bad
    <3> QED
      BY <2>1, DownEnds
  <2>3. n \in DOMAIN m.node /\ m.node[n].kind = "section" /\ m.node[n].live /\ MarkedAt(m, n)
    BY DEF Summaries, Live, Marked
  <2>4. CASE n \notin todo
    <3>1. n \notin m.dirty
      BY <1>1, <2>4
    <3>2. Good(n)
      BY <1>2, <2>3, <2>4, <3>1 DEF MarkedAt
    <3> QED
      BY <3>2
  <2>5. CASE n \in todo
    <3>1. ASSUME NEW k \in Inputs(m, n), NEW x \in text[k]
          PROVE  x[1] \in m.node[n].sources /\ x[1] \notin Dead(m)
      <4>1. CASE k \in m.node[n].sources /\ k \in Live(m) /\ m.node[k].kind = "raw"
        <5>1. k \notin todo /\ k \in DOMAIN m.node
          BY <1>1, <4>1 DEF Summaries, Live
        <5>2. x[1] = k
          BY <1>2, <4>1, <5>1 DEF Marked, MarkedAt
        <5> QED
          BY <4>1, <5>2 DEF Dead
      <4>2. CASE k \in Summaries(m) /\ k \in LiveKids(m, n) /\ m.node[k].kind = "section" /\ m.node[k].parent = n
        <5>1. k \in Of("section") /\ k \notin Bad
          BY <2>2, <4>2
        <5>2. Good(k)
          BY <5>1
        <5>3. n # NoNode
          BY <2>3, MemoryBoundsAssumption DEF InShape, WellFormed, Ids, NoNode
        <5>4. k \in DOMAIN m.node /\ MarkedAt(m, k)
          BY <4>2 DEF Summaries, Live, Marked
        <5>5. m.node[k].sources \subseteq m.node[n].sources
          BY <4>2, <5>3, <5>4 DEF MarkedAt
        <5> QED
          BY <5>2, <5>5
      <4> QED
        BY <2>3, <4>1, <4>2, InputsOfSection
    <3>2. Good(n)
      BY <1>2, <2>3, <2>5, <3>1
    <3> QED
      BY <3>2
  <2> QED
    BY <2>4, <2>5
<1>4. ASSUME NEW n \in DOMAIN m.node
      PROVE  /\ new.node[n].kind = m.node[n].kind /\ new.node[n].live = m.node[n].live
             /\ new.node[n].parent = m.node[n].parent /\ new.node[n].sources = m.node[n].sources
             /\ new.node[n].text = IF n \in done THEN text[n] ELSE m.node[n].text
  <2>1. DOMAIN m.node[n] = NodeFields
    BY DEF InShape, WellFormed
  <2>2. new.node[n] = IF n \in done THEN [m.node[n] EXCEPT !.text = text[n], !.flag = FALSE] ELSE m.node[n]
    BY DEF Rewritten, text, todo
  <2> HIDE DEF new, done
  <2> QED
    BY <2>1, <2>2 DEF NodeFields
<1>5. DOMAIN new.node = DOMAIN m.node
  BY DEF Rewritten
<1>6. \A n \in done : n \in Summaries(m)
  BY <1>1
<1> HIDE DEF new
<1>7. \A k : k \in Dead(new) <=> k \in Dead(m)
  BY <1>4, <1>5 DEF Dead, Sources, Live
<1>8. ASSUME NEW n \in DOMAIN m.node, m.node[n].kind = "section"
      PROVE  /\ \A x \in new.node[n].text : x[1] \in m.node[n].sources
             /\ new.node[n].live => \A x \in new.node[n].text : x[1] \notin Dead(new)
  <2>1. CASE n \in done
    <3>1. n \in Of("section")
      BY <1>6, <1>8, <2>1
    <3> HIDE DEF done, Of
    <3> QED
      BY <1>3, <1>4, <1>7, <2>1, <3>1
  <2>2. CASE n \notin done
    <3>1. n \notin todo
      BY <1>8, <2>2
    <3>2. m.node[n].live => n \notin m.dirty
      BY <1>1, <1>8, <3>1 DEF Summaries, Live
    <3> HIDE DEF done
    <3> QED
      BY <1>4, <1>7, <1>8, <2>2, <3>2 DEF Marked, MarkedAt
  <2> QED
    BY <2>1, <2>2
<1>9. \A n \in DOMAIN m.node : m.node[n].kind = "raw" => new.node[n].text = m.node[n].text
  BY <1>4, <1>6 DEF Summaries
<1>10. Marked(new)
  BY <1>4, <1>5, <1>8, <1>9, MarkedGrown
<1> QED
  BY <1>10 DEF new

\* Side by side, every section the bridge rewords is worded by its own sources.
LEMMA SyncedMarked ==
  ASSUME NEW m, InShape(m), Marked(m), SideBySide, NEW d, NEW done, NEW text,
         \A n \in done : Has(m, n) /\ m.node[n].kind = "section" =>
           \A x \in text[n] : \E k \in Inputs(m, n) : k \in Sources(m) => x \in m.node[k].text
  PROVE  Marked(Synced(m, d, done, text))
<1> DEFINE new == Synced(m, d, done, text)
<1>1. /\ DOMAIN new.node = DOMAIN m.node \cup done
      /\ \A n : n \in new.dirty <=> n \in m.dirty /\ n \notin done
  BY DEF Synced
<1>2. ASSUME NEW n \in DOMAIN m.node
      PROVE  /\ new.node[n].kind = m.node[n].kind /\ new.node[n].live = m.node[n].live
             /\ new.node[n].parent = m.node[n].parent
             /\ m.node[n].kind = "raw" => new.node[n].text = m.node[n].text
             /\ m.node[n].kind = "section" =>
                  /\ new.node[n].sources = m.node[n].sources
                  /\ new.node[n].text = IF n \in done THEN text[n] ELSE m.node[n].text
  <2> DEFINE old == m.node[n]
             sources == IF old.kind = "section" THEN old.sources ELSE DraftKids(d, n)
  <2>1. DOMAIN old = NodeFields
    BY DEF InShape, WellFormed
  <2>2. \/ n \notin done /\ new.node[n] = old
        \/ n \in done /\ old.kind = "raw" /\ new.node[n] = [old EXCEPT !.nav = TRUE, !.sources = sources]
        \/ n \in done /\ old.kind # "raw"
           /\ new.node[n] = [old EXCEPT !.nav = TRUE, !.sources = sources, !.text = text[n], !.flag = FALSE]
    BY <2>1 DEF Synced, Has, NodeFields
  <2>3. old.kind = "section" => sources = old.sources
    OBVIOUS
  <2> HIDE DEF new, old, sources
  <2>4. /\ new.node[n].kind = old.kind /\ new.node[n].live = old.live /\ new.node[n].parent = old.parent
        /\ old.kind = "raw" => new.node[n].text = old.text
        /\ old.kind = "section" =>
             /\ new.node[n].sources = old.sources
             /\ new.node[n].text = IF n \in done THEN text[n] ELSE old.text
    BY <2>1, <2>2, <2>3 DEF NodeFields
  <2> QED
    BY <2>4 DEF old
<1>3. \A n \in done : n \notin DOMAIN m.node => new.node[n].kind = "summary" /\ new.node[n].live
  BY DEF Synced
<1> HIDE DEF new
<1>4. \A k : k \in Dead(new) <=> k \in Dead(m)
  BY <1>1, <1>2, <1>3 DEF Dead, Sources, Live
<1>5. ASSUME NEW n \in DOMAIN m.node, m.node[n].kind = "section", n \in done, NEW x \in text[n]
      PROVE  x[1] \in m.node[n].sources /\ x[1] \notin Dead(m)
  <2>1. PICK k \in Inputs(m, n) : k \in Sources(m) => x \in m.node[k].text
    BY <1>5 DEF Has
  <2>2. ~(k \in LiveKids(m, n) /\ m.node[k].kind = "section" /\ m.node[k].parent = n)
    <3>1. n # NoNode
      BY MemoryBoundsAssumption DEF InShape, WellFormed, Ids, NoNode
    <3> QED
      BY <3>1 DEF Marked, MarkedAt, LiveKids, Live
  <2>3. k \in m.node[n].sources /\ k \in Live(m) /\ m.node[k].kind = "raw"
    BY <1>5, <2>2, InputsOfSection
  <2>4. k \in DOMAIN m.node /\ k \in Sources(m)
    BY <2>3 DEF Live, Sources
  <2>5. x[1] = k
    BY <2>1, <2>3, <2>4 DEF Marked, MarkedAt
  <2> QED
    BY <2>3, <2>5 DEF Dead
<1>6. ASSUME NEW n \in DOMAIN m.node, m.node[n].kind = "section"
      PROVE  /\ \A x \in new.node[n].text : x[1] \in m.node[n].sources
             /\ new.node[n].live /\ n \notin new.dirty => \A x \in new.node[n].text : x[1] \notin Dead(new)
  <2>1. CASE n \in done
    BY <1>2, <1>4, <1>5, <1>6, <2>1
  <2>2. CASE n \notin done
    BY <1>1, <1>2, <1>4, <1>6, <2>2 DEF Marked, MarkedAt
  <2> QED
    BY <2>1, <2>2
<1>7. \A n \in done : n \in DOMAIN m.node \/ MarkedAt(new, n)
  BY <1>3 DEF MarkedAt
<1>8. Marked(new)
  BY <1>1, <1>2, <1>6, <1>7, MarkedGrown
<1> QED
  BY <1>8 DEF new

-----------------------------------------------------------------------------
(* What is stored, and what processes hold.                                 *)

\* Where no section contains another one, or no process has a bridge.
Separate == SideBySide \/ Bridged = {}

Sound(m) == InShape(m) /\ (Separate => Marked(m))

ObjectsSound ==
  /\ store.rev \in 0 .. MaxRevision /\ Sound(store.mem)
  /\ \A p \in Engines : Sound(mem[p])
  /\ unsaved \in [Engines -> 0 .. MaxUnsaved]

DraftsInShape == \A p \in Engines : Drafted(mm[p])

LEMMA EmptySound == Sound(EmptyMemory)
  BY EmptyIsWellFormed DEF Sound, InShape, Marked, EmptyMemory

LEMMA SaveSound ==
  ASSUME MemoryInv, ObjectsSound, NEW p \in Engines, NEW m, Sound(m), Save(p, m) \/ SaveFails(p, m)
  PROVE  ObjectsSound'
<1>0. DOMAIN mem = Engines /\ store.rev \in Nat /\ MaxRevision \in Nat /\ MaxUnsaved \in Nat
  BY MemoryBoundsAssumption DEF MemoryInv, ObjectsInv
<1>1. CASE Save(p, m)
  <2>1. /\ store'.rev = store.rev + 1 /\ store.rev < MaxRevision /\ store'.mem = m
        /\ \A q \in Engines : mem'[q] = IF q = p THEN m ELSE mem[q]
        /\ unsaved' \in [Engines -> 0 .. MaxUnsaved]
    BY <1>0, <1>1 DEF Save, ObjectsSound
  <2> QED
    BY <1>0, <2>1 DEF ObjectsSound
<1>2. CASE SaveFails(p, m)
  <2>1. /\ store' = store
        /\ \A q \in Engines : mem'[q] = IF q = p THEN m ELSE mem[q]
        /\ unsaved' \in [Engines -> 0 .. MaxUnsaved]
    BY <1>0, <1>2 DEF SaveFails, ObjectsSound
  <2> QED
    BY <2>1 DEF ObjectsSound
<1> QED
  BY <1>1, <1>2

LEMMA LoadSound ==
  ASSUME MemoryInv, ObjectsSound, NEW p \in Engines, Load(p) \/ Crash(p)
  PROVE  ObjectsSound'
<1>0. DOMAIN mem = Engines /\ MaxUnsaved \in Nat
  BY MemoryBoundsAssumption DEF MemoryInv, ObjectsInv
<1>1. /\ store' = store
      /\ \A q \in Engines : mem'[q] = mem[q] \/ mem'[q] = store.mem \/ mem'[q] = EmptyMemory
      /\ unsaved' \in [Engines -> 0 .. MaxUnsaved]
  BY <1>0 DEF Load, Crash, ObjectsSound
<1> QED
  BY <1>1, EmptySound DEF ObjectsSound

LEMMA EngineSound ==
  ASSUME MemoryInv, ObjectsSound, NEW p \in Engines, EngineStep(p) \/ \E n \in Live(mem[p]) : Tombstone(p, n)
  PROVE  ObjectsSound'
<1>0. InShape(mem[p]) /\ WellFormed(mem[p]) /\ (Separate => Marked(mem[p]))
  BY DEF ObjectsSound, Sound, InShape
<1> USE DEF Persist, Transaction
<1>1. ASSUME NEW discard \in BOOLEAN, Refresh(p, discard) PROVE ObjectsSound'
  BY <1>1, LoadSound DEF Refresh
<1>2. ASSUME NEW parent \in Mounts(mem[p]), AddNode(p, parent) PROVE ObjectsSound'
  <2>1. NextId(mem[p]) \in Ids /\ NextId(mem[p]) \notin DOMAIN mem[p].node
    BY <1>0, <1>2, FreshId, MemoryBoundsAssumption DEF AddNode, WellFormed, Ids
  <2>2. Sound(Added(p, NextId(mem[p]), parent))
    BY <1>0, <1>2, <2>1, SourceInShape, SourceMarked DEF AddNode, Sound
  <2> QED
    BY <1>2, <2>2, SaveSound DEF AddNode
<1>3. ASSUME NEW n \in Ids, BuildInitial(p, n) PROVE ObjectsSound'
  <2>1. Sound([mem[p] EXCEPT !.node = [k \in 1 .. n |-> Source(p, k, NoNode)]])
    BY <1>0, <1>3, InitialInShape, InitialMarked DEF BuildInitial, Sound
  <2> QED
    BY <1>3, <2>1, SaveSound DEF BuildInitial
<1>4. ASSUME NEW kids \in SUBSET DOMAIN mem[p].node, GenerateSummary(p, kids) PROVE ObjectsSound'
  <2> DEFINE m == mem[p]
             n == NextId(m)
             new == [kind |-> "summary", live |-> TRUE, nav |-> TRUE, parent |-> NoNode, sources |-> {},
                     text |-> UNION {m.node[k].text : k \in kids}, flag |-> FALSE, page |-> 0]
             moved == [k \in DOMAIN m.node |-> IF k \in kids THEN [m.node[k] EXCEPT !.parent = n] ELSE m.node[k]]
             wider == [node |-> Joined([k \in {n} |-> new], moved), dirty |-> m.dirty \ {n}]
  <2>1. n \in Ids /\ Persist(p, wider) /\ \A k \in kids : m.node[k].kind # "section"
    BY <1>4 DEF GenerateSummary
  <2>2. DOMAIN new = NodeFields
    BY DEF NodeFields
  <2>3. n \notin DOMAIN m.node
    BY <1>0, <2>1, FreshId, MemoryBoundsAssumption DEF WellFormed, Ids
  <2>4. /\ WellFormed(wider) /\ wider.dirty = m.dirty \ {n} /\ DOMAIN wider.node = DOMAIN m.node \cup {n}
        /\ \A k \in DOMAIN m.node : wider.node[k] = IF k \in kids THEN [m.node[k] EXCEPT !.parent = n] ELSE m.node[k]
        /\ wider.node[n] = new
    <3> HIDE DEF new
    <3>1. WellFormed(wider)
      BY <1>0, <2>1, <2>2, SummaryAdded DEF Grows
    <3> QED
      BY <2>3, <3>1 DEF Joined
  <2> HIDE DEF wider
  <2>5. InShape(wider)
    BY <1>0, <2>1, <2>4, SummaryInShape
  <2>6. Separate => Marked(wider)
    <3>1. new.kind = "summary"
      OBVIOUS
    <3> HIDE DEF new
    <3> QED
      BY <1>0, <2>1, <2>4, <3>1, SummaryMarked
  <2> QED
    BY <2>1, <2>5, <2>6, SaveSound DEF Sound
<1>5. ASSUME NEW worded \in BOOLEAN, ImportTree(p, worded) PROVE ObjectsSound'
  <2> DEFINE new == [mem[p] EXCEPT !.node = Joined(Document(p, NextId(mem[p]), worded), @)]
  <2>1. Sound(new)
    BY <1>0, <1>5, DocumentInShape, DocumentMarked DEF ImportTree, Sound
  <2> QED
    BY <1>5, <2>1, SaveSound DEF ImportTree
<1>6. ASSUME Recalculate(p) PROVE ObjectsSound'
  BY <1>0, <1>6, RewrittenInShape, RewrittenMarked, SaveSound DEF Recalculate, Sound
<1>7. ASSUME NEW n \in Live(mem[p]), Tombstone(p, n) PROVE ObjectsSound'
  BY <1>0, <1>7, DeadInShape, DeadMarked, SaveSound DEF Tombstone, Live, Sound
<1> QED
  BY <1>1, <1>2, <1>3, <1>4, <1>5, <1>6, <1>7 DEF EngineStep

LEMMA BridgeSound ==
  ASSUME MemoryInv, DraftsInv, ObjectsSound, DraftsInShape, NEW p \in Engines, BridgeStep(p)
  PROVE  ObjectsSound' /\ DraftsInShape'
<1>0. /\ InShape(mem[p]) /\ WellFormed(mem[p]) /\ (Separate => Marked(mem[p]))
      /\ DraftsFormed(mm[p]) /\ Drafted(mm[p]) /\ DOMAIN mm = Engines
  BY DEF ObjectsSound, Sound, DraftsInShape, DraftsInv, InShape
<1> USE DEF Persist, Transaction
<1>1. ASSUME NEW accepted, NEW parent, Inject(p, accepted, parent) PROVE ObjectsSound' /\ DraftsInShape'
  <2> DEFINE n == mm[p].last + 1
  <2>1. n < MaxId /\ mm' = [mm EXCEPT ![p] = Mounted(@, n, p, accepted)]
    BY <1>1 DEF Inject
  <2>2. DraftsInShape'
    <3>1. \A q \in Engines : mm'[q] = IF q = p THEN Mounted(mm[p], n, p, accepted) ELSE mm[q]
      BY <1>0, <2>1
    <3> QED
      BY <1>0, <2>1, <3>1, MountedDrafted DEF DraftsInShape
  <2>3. CASE Has(mem[p], n)
    <3>1. UNCHANGED memoryVars
      BY <1>1, <2>3 DEF Inject
    <3> QED
      BY <2>2, <3>1 DEF memoryVars, engine, ObjectsSound
  <2>4. CASE ~Has(mem[p], n)
    <3>1. parent \in Mounts(mem[p]) /\ Persist(p, Added(p, n, parent))
      BY <1>1, <2>4 DEF Inject
    <3>2. n \in Ids /\ n \notin DOMAIN mem[p].node
      BY <1>0, <2>1, <2>4, MemoryBoundsAssumption DEF Has, Ids, DraftsFormed
    <3>3. Sound(Added(p, n, parent))
      BY <1>0, <3>1, <3>2, SourceInShape, SourceMarked DEF Sound
    <3> QED
      BY <2>2, <3>1, <3>3, SaveSound
  <2> QED
    BY <2>3, <2>4
<1>2. ASSUME SyncDirtySummaries(p) PROVE ObjectsSound' /\ DraftsInShape'
  <2> DEFINE d == mm[p]
             todo == ToSync(p)
             text == Staged(mem[p], d, todo)
             done == {n \in todo : text[n] # {} \/ (Has(mem[p], n) /\ mem[p].node[n].kind = "section")}
             new == Synced(mem[p], d, done, text)
  <2>1. Save(p, new) /\ ~Cyclic(d, todo) /\ p \in Bridged
    BY <1>2 DEF SyncDirtySummaries
  <2>2. mm' = [mm EXCEPT
            ![p].node = [n \in DOMAIN mm[p].node |->
               IF n \in done THEN [mm[p].node[n] EXCEPT !.text = text[n], !.dirty = FALSE] ELSE mm[p].node[n]],
            ![p].index = @ \cup done]
    BY <1>2 DEF SyncDirtySummaries
  <2>3. todo \in SUBSET DOMAIN d.node /\ DOMAIN d.node \subseteq Ids
    BY <1>0, MemoryBoundsAssumption DEF ToSync, LiveDrafts, DraftSummaries, DraftsFormed, Ids
  <2> HIDE DEF todo
  <2>4. \A n \in todo :
          /\ text[n] \in SUBSET Texts
          /\ Has(mem[p], n) /\ mem[p].node[n].kind = "section" =>
               \A x \in text[n] : \E k \in Inputs(mem[p], n) : k \in Sources(mem[p]) => x \in mem[p].node[k].text
    BY <1>0, <2>1, <2>3, StagedText
  <2>5. done \in SUBSET Ids /\ done \subseteq todo /\ \A n \in done : text[n] \in SUBSET Texts
    BY <2>3, <2>4
  <2> HIDE DEF text, done
  <2>6. ObjectsSound'
    <3>1. InShape(new)
      BY <1>0, <2>3, <2>5, SyncedInShape
    <3>2. Separate => Marked(new)
      BY <1>0, <2>1, <2>4, <2>5, SyncedMarked DEF Separate
    <3> HIDE DEF new
    <3> QED
      BY <2>1, <3>1, <3>2, SaveSound DEF Sound
  <2>7. ASSUME NEW q \in Engines PROVE Drafted(mm'[q])
    <3>1. CASE q # p
      <4>1. mm'[q] = mm[q]
        BY <1>0, <2>2, <3>1
      <4> QED
        BY <4>1 DEF DraftsInShape
    <3>2. CASE q = p
      <4>1. DOMAIN mm'[p].node = DOMAIN mm[p].node
        BY <1>0, <2>2 DEF DraftsFormed
      <4>2. \A n \in DOMAIN mm[p].node : mm'[p].node[n].text = IF n \in done THEN text[n] ELSE mm[p].node[n].text
        BY <1>0, <2>2 DEF DraftsFormed, DraftFields
      <4> QED
        BY <1>0, <2>5, <3>2, <4>1, <4>2 DEF Drafted
    <3> QED
      BY <3>1, <3>2
  <2> QED
    BY <2>6, <2>7 DEF DraftsInShape
<1>3. ASSUME NEW n \in DOMAIN mm[p].node, TombstoneKnowledge(p, n) PROVE ObjectsSound' /\ DraftsInShape'
  <2> DEFINE d == mm[p]
             dead == [d EXCEPT !.node[n].live = FALSE]
             marked == {q \in DOMAIN d.node : <<q, n>> \in d.edge}
             told == mm' = [mm EXCEPT ![p] = Soil(dead, marked)]
  <2>1. \/ /\ n \in Live(mem[p])
           /\ \/ Save(p, Tombstoned(mem[p], n)) /\ told
              \/ SaveFails(p, Tombstoned(mem[p], n)) /\ UNCHANGED mm
        \/ told /\ UNCHANGED memoryVars
    BY <1>3 DEF TombstoneKnowledge
  <2>2. DraftsFormed(dead) /\ Drafted(dead)
    BY <1>0 DEF DraftsFormed, Drafted, DraftFields
  <2>3. told => DraftsInShape'
    <3> HIDE DEF dead, marked
    <3>1. Drafted(Soil(dead, marked))
      BY <2>2, SoilDrafted
    <3> QED
      BY <1>0, <3>1 DEF DraftsInShape
  <2>4. UNCHANGED mm => DraftsInShape'
    BY DEF DraftsInShape
  <2>5. n \in Live(mem[p]) => Sound(Tombstoned(mem[p], n))
    BY <1>0, DeadInShape, DeadMarked DEF Live, Sound
  <2>6. UNCHANGED memoryVars => ObjectsSound'
    BY DEF memoryVars, engine, ObjectsSound
  <2> HIDE DEF told
  <2> QED
    BY <2>1, <2>3, <2>4, <2>5, <2>6, SaveSound
<1> QED
  BY <1>1, <1>2, <1>3 DEF BridgeStep

SoundInv == ObjectsSound /\ DraftsInShape

LEMMA SoundStarts == BridgeInit => SoundInv
<1> SUFFICES ASSUME BridgeInit PROVE SoundInv
  OBVIOUS
<1>1. ObjectsSound
  BY EmptySound, MemoryBoundsAssumption DEF BridgeInit, MemoryInit, ObjectsSound
<1>2. DraftsInShape
  BY DEF BridgeInit, DraftsInShape, Drafted, NoDrafts
<1> QED
  BY <1>1, <1>2 DEF SoundInv

LEMMA SoundNext ==
  ASSUME BridgeInv, SoundInv, [Next]_bridgeVars
  PROVE  SoundInv'
<1>0. MemoryInv /\ DraftsInv /\ DOMAIN mm = Engines /\ ObjectsSound /\ DraftsInShape
  BY DEF BridgeInv, DraftsInv, SoundInv
<1> SUFFICES ObjectsSound' /\ DraftsInShape'
  BY DEF SoundInv
<1>1. ASSUME NEW p \in Engines, BridgeOpen(p) PROVE ObjectsSound' /\ DraftsInShape'
  <2>1. Open(p) /\ \A q \in Engines : mm'[q] = IF q # p THEN mm[q] ELSE IF p \in Bridged THEN Bootstrap(store.mem) ELSE NoDrafts
    BY <1>0, <1>1 DEF BridgeOpen
  <2>2. Drafted(Bootstrap(store.mem)) /\ Drafted(NoDrafts)
    BY <1>0, BootstrapDrafted DEF ObjectsSound, Sound, Drafted, NoDrafts
  <2>3. DraftsInShape'
    BY <1>0, <2>1, <2>2 DEF DraftsInShape
  <2> QED
    BY <1>0, <2>1, <2>3, LoadSound DEF Open
<1>2. ASSUME NEW p \in Engines, BridgeCrash(p) PROVE ObjectsSound' /\ DraftsInShape'
  <2>1. Crash(p) /\ \A q \in Engines : mm'[q] = mm[q] \/ mm'[q] = NoDrafts
    BY <1>0, <1>2 DEF BridgeCrash
  <2>2. DraftsInShape'
    BY <1>0, <2>1 DEF DraftsInShape, Drafted, NoDrafts
  <2> QED
    BY <1>0, <2>1, <2>2, LoadSound
<1>3. ASSUME NEW p \in Engines, BridgeStep(p) PROVE ObjectsSound' /\ DraftsInShape'
  BY <1>0, <1>3, BridgeSound
<1>4. ASSUME NEW p \in Engines, UNCHANGED mm, EngineStep(p) \/ \E n \in Live(mem[p]) : Tombstone(p, n)
      PROVE  ObjectsSound' /\ DraftsInShape'
  BY <1>0, <1>4, EngineSound DEF DraftsInShape
<1>5. CASE UNCHANGED bridgeVars
  BY <1>0, <1>5 DEF bridgeVars, memoryVars, engine, ObjectsSound, DraftsInShape
<1> QED
  BY <1>1, <1>2, <1>3, <1>4, <1>5 DEF Next

LEMMA SoundInvariant == Spec => []SoundInv
  BY SoundStarts, SoundNext, BridgeInvariant, PTL DEF Spec

\* Whatever processes with and without bridges do, what is stored and what they hold is
\* a well-formed memory, and no process claims a revision that was never saved.
THEOREM MemoryTyped == Spec => []MemoryTypeOK
<1>1. BridgeInv /\ SoundInv => MemoryTypeOK
  <2> SUFFICES ASSUME BridgeInv, SoundInv PROVE MemoryTypeOK
    OBVIOUS
  <2>1. \A m : Sound(m) => Memories(m)
    BY DEF InShape, Fits, Memories, WellFormed, Sound
  <2>2. \A p \in Engines : base[p] \in 0 .. store.rev
    BY DEF BridgeInv, MemoryInv, ObjectsInv
  <2> QED
    BY <2>1, <2>2 DEF BridgeInv, MemoryInv, ObjectsInv, SoundInv, ObjectsSound, MemoryTypeOK
<1> QED
  BY <1>1, BridgeInvariant, SoundInvariant, PTL

\* "Deleting an article cascades to the summaries": where sections lie side by side, or no
\* process has a bridge, a live section that still words a deleted page is marked, for
\* whichever process deleted it and however its pages were moved and its text rewritten.
THEOREM DeletionsReachSections ==
  ASSUME SideBySide \/ Bridged = {}
  PROVE  Spec => []DeletedPageMarked
<1>1. BridgeInv /\ SoundInv => DeletedPageMarked
  <2> SUFFICES ASSUME BridgeInv, SoundInv,
                      NEW m \in {store.mem} \cup {mem[p] : p \in open}, NEW s \in Summaries(m),
                      m.node[s].kind = "section", m.node[s].text \cap DeletedText(m) # {}
               PROVE  s \in m.dirty
    BY DEF DeletedPageMarked
  <2>1. Marked(m) /\ InShape(m)
    BY DEF BridgeInv, MemoryInv, ObjectsInv, SoundInv, ObjectsSound, Sound, Separate
  <2>2. PICK x \in m.node[s].text : \E n \in Dead(m) : x \in m.node[n].text
    BY DEF DeletedText, Dead
  <2>3. s \in DOMAIN m.node /\ m.node[s].live /\ \A n \in Dead(m) : n \in DOMAIN m.node /\ m.node[n].kind = "raw"
    BY DEF Summaries, Live, Dead, Sources
  <2> QED
    BY <2>1, <2>2, <2>3 DEF Marked, MarkedAt
<1> QED
  BY <1>1, BridgeInvariant, SoundInvariant, PTL

-----------------------------------------------------------------------------
(* Readings.                                                                *)

\* Sizes of finite sets.
LEMMA UpTo ==
  ASSUME NEW n \in Nat
  PROVE  IsFiniteSet(1 .. n) /\ Cardinality(1 .. n) = n
<1>1. IsFiniteSet(1 .. n) /\ Cardinality(1 .. n) = IF 1 > n THEN 0 ELSE n - 1 + 1
  BY FS_Interval
<1> QED
  BY <1>1

LEMMA Apart ==
  ASSUME NEW A, IsFiniteSet(A), NEW B, IsFiniteSet(B), A \cap B = {}
  PROVE  IsFiniteSet(A \cup B) /\ Cardinality(A \cup B) = Cardinality(A) + Cardinality(B)
<1> DEFINE a == Cardinality(A)
           b == Cardinality(B)
           c == Cardinality(A \cap B)
           d == Cardinality(A \cup B)
<1>1. IsFiniteSet(A \cup B) /\ d = a + b - c
  BY FS_Union
<1>2. a \in Nat /\ b \in Nat /\ c = 0
  BY FS_CardinalityType, FS_EmptySet
<1> HIDE DEF a, b, c, d
<1>3. d = a + b
  BY <1>1, <1>2
<1> QED
  BY <1>1, <1>3 DEF a, b, d

\* The tokens of some sources, each one apart: their number is what Tokens sums up, and
\* that of a union adds up.
TokensOf(S) == UNION {{n} \X (1 .. PageTokens[n]) : n \in S}

LEMMA TokensSplit ==
  ASSUME NEW A \in SUBSET Ids, NEW B \in SUBSET Ids, A \cap B = {}
  PROVE  /\ IsFiniteSet(TokensOf(A)) /\ Cardinality(TokensOf(A)) \in Nat
         /\ Cardinality(TokensOf(A \cup B)) = Cardinality(TokensOf(A)) + Cardinality(TokensOf(B))
<1>1. \A S \in SUBSET Ids : IsFiniteSet(TokensOf(S))
  <2> TAKE S \in SUBSET Ids
  <2>1. IsFiniteSet(S)
    <3>1. IsFiniteSet(1 .. MaxId)
      BY MemoryBoundsAssumption, FS_Interval
    <3> QED
      BY <3>1, FS_Subset DEF Ids
  <2> DEFINE Of(n) == {n} \X (1 .. PageTokens[n])
             Parts == {Of(n) : n \in S}
  <2>2. \A n \in S : IsFiniteSet(Of(n))
    <3> TAKE n \in S
    <3>1. PageTokens[n] \in Nat
      BY NavigationAssumption
    <3>2. IsFiniteSet({n}) /\ IsFiniteSet(1 .. PageTokens[n])
      BY <3>1, UpTo, FS_Singleton
    <3> QED
      BY <3>2, FS_Product
  <2>3. IsFiniteSet(Parts)
    <3> DEFINE f == [n \in S |-> Of(n)]
    <3>1. f \in Surjection(S, Parts)
      <4> HIDE DEF Of
      <4> QED
        BY DEF Surjection
    <3> HIDE DEF f, Parts
    <3> QED
      BY <2>1, <3>1, FS_Surjection
  <2>4. IsFiniteSet(UNION Parts)
    <3>1. \A T \in Parts : IsFiniteSet(T)
      BY <2>2
    <3> HIDE DEF Parts
    <3> QED
      BY <2>3, <3>1, FS_UNION
  <2> QED
    BY <2>4 DEF TokensOf
<1>2. TokensOf(A \cup B) = TokensOf(A) \cup TokensOf(B) /\ TokensOf(A) \cap TokensOf(B) = {}
  BY DEF TokensOf
<1>3. IsFiniteSet(TokensOf(A)) /\ IsFiniteSet(TokensOf(B)) /\ Cardinality(TokensOf(A)) \in Nat
  BY <1>1, FS_CardinalityType
<1>4. Cardinality(TokensOf(A) \cup TokensOf(B)) = Cardinality(TokensOf(A)) + Cardinality(TokensOf(B))
  BY <1>2, <1>3, Apart
<1>5. Cardinality(TokensOf(A \cup B)) = Cardinality(TokensOf(A) \cup TokensOf(B))
  BY <1>2, Zenon
<1> QED
  BY <1>3, <1>4, <1>5, Zenon

LEMMA TokensOfOne ==
  ASSUME NEW n \in Ids
  PROVE  Cardinality(TokensOf({n})) = PageTokens[n]
<1>1. PageTokens[n] \in Nat /\ TokensOf({n}) = {n} \X (1 .. PageTokens[n])
  BY NavigationAssumption DEF TokensOf
<1>2. IsFiniteSet({n}) /\ Cardinality({n}) = 1 
  BY FS_Singleton
<1>3. IsFiniteSet(1 .. PageTokens[n]) /\ Cardinality(1 .. PageTokens[n]) = PageTokens[n]
  BY <1>1, UpTo
<1>4. Cardinality({n} \X (1 .. PageTokens[n])) = Cardinality({n}) * Cardinality(1 .. PageTokens[n])
  BY <1>2, <1>3, FS_Product
<1>5. 1 * PageTokens[n] = PageTokens[n]
  BY <1>1
<1> QED
  BY <1>1, <1>2, <1>3, <1>4, <1>5

LEMMA TokensCounted ==
  ASSUME NEW S \in SUBSET Ids
  PROVE  Tokens(S) = Cardinality(TokensOf(S))
<1> DEFINE Sum(f, s) == IF s = {} THEN 0 ELSE LET x == CHOOSE x \in s : TRUE IN PageTokens[x] + f[s \ {x}]
           Step(f) == [s \in SUBSET S |-> Sum(f, s)]
           iter == CHOOSE f : f = Step(f)
           count == [s \in SUBSET S |-> Cardinality(TokensOf(s))]
<1>1. ASSUME NEW s \in SUBSET S, s # {}
      PROVE  \A x \in s : Cardinality(TokensOf(s)) = PageTokens[x] + Cardinality(TokensOf(s \ {x}))
  <2> TAKE x \in s
  <2> x \in Ids
    OBVIOUS
  <2>1. Cardinality(TokensOf({x} \cup (s \ {x}))) = Cardinality(TokensOf({x})) + Cardinality(TokensOf(s \ {x}))
    BY TokensSplit
  <2>2. {x} \cup (s \ {x}) = s
    OBVIOUS
  <2> QED
    BY <2>1, <2>2, TokensOfOne
<1>2. Cardinality(TokensOf({})) = 0
  BY FS_EmptySet DEF TokensOf
<1>3. count = Step(count)
  <2>1. ASSUME NEW s \in SUBSET S PROVE count[s] = Sum(count, s)
    BY <1>1, <1>2
  <2> HIDE DEF Sum
  <2> QED
    BY <2>1
<1>4. iter = Step(iter)
  <2> HIDE DEF count, Sum
  <2> QED
    BY <1>3
<1>5. \A s \in SUBSET S : iter[s] = Sum(iter, s)
  <2> HIDE DEF iter, Sum
  <2> QED
    BY <1>4
<1> HIDE DEF iter
<1>6. \A s \in SUBSET S : iter[s] = Cardinality(TokensOf(s))
  <2> DEFINE Bad == {s \in SUBSET S : iter[s] # Cardinality(TokensOf(s))}
             sizes == {Cardinality(s) : s \in Bad}
  <2> SUFFICES ASSUME Bad # {} PROVE FALSE
    OBVIOUS
  <2>1. \A s \in SUBSET S : IsFiniteSet(s) /\ Cardinality(s) \in Nat
    <3>1. IsFiniteSet(1 .. MaxId)
      BY MemoryBoundsAssumption, FS_Interval
    <3>2. \A s \in SUBSET S : s \in SUBSET (1 .. MaxId)
      BY DEF Ids
    <3> QED
      BY <3>1, <3>2, FS_Subset, FS_CardinalityType
  <2>2. sizes \in SUBSET Nat /\ sizes # {}
    BY <2>1
  <2>3. PICK s \in Bad : \A size \in sizes : Cardinality(s) <= size
    BY <2>2, Smallest
  <2>4. s # {}
    BY <1>2, <1>5
  <2> DEFINE x == CHOOSE x \in s : TRUE
  <2>5. x \in s
    BY <2>4
  <2>6. iter[s] = PageTokens[x] + iter[s \ {x}]
    BY <1>5, <2>4
  <2> HIDE DEF x
  <2>7. Cardinality(s \ {x}) = Cardinality(s) - 1
    BY <2>1, <2>5, FS_RemoveElement
  <2>8. s \ {x} \notin Bad
    <3> SUFFICES ASSUME s \ {x} \in Bad PROVE FALSE
      OBVIOUS
    <3>1. Cardinality(s \ {x}) \in sizes
      OBVIOUS
    <3>2. Cardinality(s) <= Cardinality(s \ {x})
      BY <2>3, <3>1
    <3>3. Cardinality(s) \in Nat
      BY <2>1
    <3> HIDE DEF Bad, sizes
    <3> QED
      BY <2>7, <3>2, <3>3
  <2>9. iter[s \ {x}] = Cardinality(TokensOf(s \ {x}))
    BY <2>8
  <2> QED
    BY <1>1, <2>4, <2>5, <2>6, <2>9
<1>8. Tokens(S) = iter[S]
  BY DEF Tokens, MapThenSumSet, MapThenFoldSet, iter
<1> QED
  BY <1>6, <1>8

LEMMA TokensAdded ==
  ASSUME NEW S \in SUBSET Ids, NEW T \in SUBSET Ids
  PROVE  /\ Tokens(S) \in Nat /\ Tokens({}) = 0
         /\ Tokens(S \cup T) = Tokens(S) + Tokens(T \ S)
<1>1. /\ Tokens(S) = Cardinality(TokensOf(S)) /\ Tokens(T \ S) = Cardinality(TokensOf(T \ S))
      /\ Tokens(S \cup (T \ S)) = Cardinality(TokensOf(S \cup (T \ S)))
      /\ Tokens({}) = Cardinality(TokensOf({}))
  BY TokensCounted
<1>2. /\ Cardinality(TokensOf(S)) \in Nat
      /\ Cardinality(TokensOf(S \cup (T \ S))) = Cardinality(TokensOf(S)) + Cardinality(TokensOf(T \ S))
  BY TokensSplit
<1>3. Cardinality(TokensOf({})) = 0
  BY FS_EmptySet DEF TokensOf
<1>4. S \cup (T \ S) = S \cup T
  OBVIOUS
<1> QED
  BY <1>1, <1>2, <1>3, <1>4

\* An agent's reading of a memory as it stands after some turns: original texts within
\* the budget, and their tokens counted.
AgentReading(m) ==
  {r \in [mode : {"agent"}, status : {"reading", "empty", "complete"},
          hits : SUBSET (Live(m) \cap Sources(m)), tokens : Nat] :
     /\ Cardinality(r.hits) <= MaxPages /\ r.tokens = Tokens(r.hits) /\ r.tokens <= MaxTokens
     /\ r.status = "complete" => r.hits # {}}

\* Whatever is found in a memory, by page or by vector, is an original text.
LEMMA HitsAreSources ==
  ASSUME NEW m, InShape(m)
  PROVE  /\ PageNodes(m) \subseteq Live(m) \cap Sources(m)
         /\ \A pages : ReadPages(m, pages) \subseteq Live(m) \cap Sources(m)
         /\ \A hits \in VectorHits(m) : hits \subseteq Live(m) \cap Sources(m)
<1>1. PageNodes(m) \subseteq Live(m) \cap Sources(m)
  BY DEF PageNodes, Live, Sources, InShape, Fits
<1>2. \A n : Evidence(m, n) \subseteq Live(m) \cap Sources(m)
  BY DEF Evidence, Live, Sources
<1>3. \A hits \in VectorHits(m) : hits \subseteq Live(m) \cap Sources(m)
  <2> TAKE hits \in VectorHits(m)
  <2>1. PICK some \in SUBSET {Evidence(m, n) : n \in Recalled(m)} : hits = UNION some
    BY DEF VectorHits
  <2>2. \A part \in some : part \subseteq Live(m) \cap Sources(m)
    BY <1>2
  <2> QED
    BY <2>1, <2>2
<1> QED
  BY <1>1, <1>3 DEF ReadPages

\* A memory has finitely many nodes.
LEMMA FiniteMemory ==
  ASSUME NEW m, InShape(m), NEW S \in SUBSET (Live(m) \cap Sources(m))
  PROVE  S \in SUBSET Ids /\ IsFiniteSet(S) /\ Cardinality(S) \in Nat
<1>1. S \in SUBSET Ids
  BY DEF InShape, WellFormed, Live, Sources
<1>2. IsFiniteSet(Ids)
  BY MemoryBoundsAssumption, UpTo DEF Ids
<1> QED
  BY <1>1, <1>2, FS_Subset, FS_CardinalityType

\* A batch is accepted within the budget, or not at all.
LEMMA AcceptSound ==
  ASSUME NEW m, InShape(m), NEW r \in AgentReading(m),
         NEW batch \in SUBSET (Live(m) \cap Sources(m))
  PROVE  Accept(r, batch) \in AgentReading(m)
<1> DEFINE new == batch \ r.hits
<1>1. /\ r.hits \in SUBSET (Live(m) \cap Sources(m)) /\ r.tokens = Tokens(r.hits)
      /\ DOMAIN r = {"mode", "status", "hits", "tokens"}
      /\ r = [mode |-> r.mode, status |-> r.status, hits |-> r.hits, tokens |-> r.tokens]
      /\ r.mode = "agent" /\ r.status \in {"reading", "empty", "complete"}
  BY DEF AgentReading
<1>2. /\ r.hits \in SUBSET Ids /\ IsFiniteSet(r.hits) /\ Cardinality(r.hits) \in Nat
      /\ new \in SUBSET Ids /\ IsFiniteSet(new) /\ Cardinality(new) \in Nat
      /\ batch \in SUBSET Ids
  BY <1>1, FiniteMemory
<1>3. r.hits \cup new = r.hits \cup batch /\ r.hits \cap new = {}
  OBVIOUS
<1>4. Cardinality(r.hits \cup batch) = Cardinality(r.hits) + Cardinality(new)
  <2>1. Cardinality(r.hits \cup new) = Cardinality(r.hits) + Cardinality(new)
    BY <1>2, <1>3, Apart
  <2> QED
    BY <1>3, <2>1, Zenon
<1>5. Tokens(r.hits \cup batch) = r.tokens + Tokens(new) /\ Tokens(r.hits \cup batch) \in Nat
  <2>1. r.hits \cup batch \in SUBSET Ids
    BY <1>2
  <2> QED
    BY <1>1, <1>2, <2>1, TokensAdded
<1>6. CASE ~Admits(r, batch)
  BY <1>6 DEF Accept
<1>7. CASE Admits(r, batch)
  <2> DEFINE more == Accept(r, batch)
  <2>1. /\ more = [mode |-> "agent", status |-> r.status, hits |-> r.hits \cup batch,
                   tokens |-> r.tokens + Tokens(new)]
    BY <1>1, <1>7 DEF Accept
  <2>2. Cardinality(r.hits) + Cardinality(new) <= MaxPages /\ r.tokens + Tokens(new) <= MaxTokens
    BY <1>7 DEF Admits
  <2> HIDE DEF new, more
  <2>3. /\ more.mode = "agent" /\ more.status = r.status /\ more.hits = r.hits \cup batch
        /\ more.tokens = r.tokens + Tokens(new)
    BY <2>1
  <2>4. more \in [mode : {"agent"}, status : {"reading", "empty", "complete"},
                  hits : SUBSET (Live(m) \cap Sources(m)), tokens : Nat]
    BY <1>1, <1>5, <2>1
  <2>5. r.status = "complete" => more.hits # {}
    BY <2>3 DEF AgentReading
  <2>6. more \in AgentReading(m)
    BY <1>4, <1>5, <2>2, <2>3, <2>4, <2>5 DEF AgentReading
  <2> QED
    BY <2>6 DEF more
<1> QED
  BY <1>6, <1>7

\* A reading starts within the budget, and every turn keeps it.
LEMMA NothingReadYet ==
  ASSUME NEW m
  PROVE  NothingRead \in AgentReading(m)
<1>1. Tokens({}) = 0 /\ Cardinality({}) = 0
  BY TokensAdded, FS_EmptySet
<1>2. MaxPages \in Nat /\ MaxTokens \in Nat
  BY NavigationAssumption
<1> QED
  BY <1>1, <1>2 DEF AgentReading, NothingRead

LEMMA TurnSound ==
  ASSUME NEW m, InShape(m), NEW r \in AgentReading(m)
  PROVE  Turn(m, r) \subseteq AgentReading(m)
<1>1. [r EXCEPT !.status = IF r.hits = {} THEN "empty" ELSE "complete"] \in AgentReading(m)
  BY DEF AgentReading
<1>2. \A batch \in SUBSET (Live(m) \cap Sources(m)) : Accept(r, batch) \in AgentReading(m)
  BY AcceptSound
<1> QED
  BY <1>1, <1>2, HitsAreSources DEF Turn

\* So whatever the model asks for, turn after turn.
LEMMA AgentReadingsSound ==
  ASSUME NEW m, InShape(m), NEW read \in AgentReadings(m)
  PROVE  \E r \in AgentReading(m) : read = IF r.status = "reading" THEN [r EXCEPT !.status = "turn_budget_exhausted"] ELSE r
<1> DEFINE U == AgentReading(m)
           D == 0 .. MaxTurns
           Taken(r) == IF r.status = "reading" THEN Turn(m, r) ELSE {r}
           leads == [r \in U |-> Taken(r)]
           given == [k \in D |-> IF k = 0 THEN {NothingRead} ELSE {}]
           others == [k \in D |-> IF k = 0 THEN {} ELSE {k - 1}]
           After(f, k) == IF k = 0 THEN {NothingRead} ELSE UNION {Taken(r) : r \in f[k - 1]}
           Step(f) == [k \in D |-> After(f, k)]
           after == CHOOSE f : f = Step(f)
<1>0. MaxTurns \in Nat /\ \A k \in D : k \in Nat /\ (k # 0 => k - 1 \in D)
  BY NavigationAssumption
<1>1. given \in Families(D, U) /\ others \in Families(D, D) /\ leads \in Families(U, U)
  <2>1. \A r \in U : Taken(r) \subseteq U
    BY TurnSound
  <2> HIDE DEF U, Taken
  <2> QED
    BY <1>0, <2>1, NothingReadYet DEF Families, U
<1>2. \E f : f = Step(f)
  <2>1. PICK f \in Families(D, U) : UnionOf(f, D, given, others, leads)
    <3> HIDE DEF U, D, given, others, leads
    <3> QED
      BY <1>1, LeastUnion
  <2>2. ASSUME NEW k \in D PROVE f[k] = After(f, k)
    <3>1. \A j \in D : \A r \in f[j] : r \in U /\ leads[r] = Taken(r)
      <4> HIDE DEF U, D, Taken
      <4> QED
        BY <2>1 DEF Families
    <3>2. \A x : x \in f[k] <=> x \in given[k] \/ \E j \in others[k] : \E r \in f[j] : x \in leads[r]
      <4> HIDE DEF U, D, given, others, leads
      <4> QED
        BY <2>1 DEF UnionOf
    <3>3. CASE k = 0
      BY <3>2, <3>3
    <3>4. CASE k # 0
      <4> HIDE DEF leads, U, Taken
      <4>1. \A x : x \in f[k] <=> \E r \in f[k - 1] : x \in Taken(r)
        BY <1>0, <3>1, <3>2, <3>4
      <4> QED
        BY <3>4, <4>1
    <3> QED
      BY <3>3, <3>4
  <2>3. f = [k \in D |-> f[k]]
    BY <2>1 DEF Families
  <2> HIDE DEF After, D
  <2> QED
    BY <2>2, <2>3
<1>3. \A k \in D : after[k] = After(after, k)
  <2>1. after = Step(after)
    <3> HIDE DEF After, D
    <3> QED
      BY <1>2
  <2> HIDE DEF after, After, D
  <2> QED
    BY <2>1
<1> HIDE DEF after
<1>4. \A k \in D : after[k] \subseteq U
  <2> DEFINE Bad == {k \in D : ~(after[k] \subseteq U)}
  <2> SUFFICES ASSUME Bad # {} PROVE FALSE
    OBVIOUS
  <2>1. PICK k \in Bad : \A j \in Bad : k <= j
    <3>1. Bad \in SUBSET Nat
      OBVIOUS
    <3> QED
      BY <3>1, Smallest
  <2>2. CASE k = 0
    <3>1. after[k] = {NothingRead}
      BY <1>3, <2>2
    <3> HIDE DEF U
    <3>2. after[k] \subseteq U
      BY <3>1, NothingReadYet DEF U
    <3> QED
      BY <3>2, <2>1
  <2>3. CASE k # 0
    <3>1. k - 1 \in D /\ k - 1 \notin Bad
      BY <1>0, <2>1, <2>3
    <3>2. \A r \in after[k - 1] : Taken(r) \subseteq U
      BY <3>1, TurnSound
    <3>3. after[k] = UNION {Taken(r) : r \in after[k - 1]}
      BY <1>3, <2>3
    <3> HIDE DEF Taken, U
    <3>4. after[k] \subseteq U
      BY <3>2, <3>3
    <3> QED
      BY <3>4, <2>1
  <2> QED
    BY <2>2, <2>3
<1>5. MaxTurns \in D
  BY <1>0
<1>6. AgentReadings(m) = {IF r.status = "reading" THEN [r EXCEPT !.status = "turn_budget_exhausted"] ELSE r : r \in after[MaxTurns]}
  BY DEF AgentReadings, after
<1> HIDE DEF U, D
<1> QED
  BY <1>4, <1>5, <1>6 DEF U

LEMMA SoundOnceRead ==
  ASSUME NEW m, InShape(m), NEW read \in AgentReadings(m)
  PROVE  SoundReading(m, read)
<1>1. PICK r \in AgentReading(m) : read = IF r.status = "reading" THEN [r EXCEPT !.status = "turn_budget_exhausted"] ELSE r
  BY AgentReadingsSound
<1>2. /\ read.hits = r.hits /\ read.mode = "agent"
      /\ read.status = "complete" => r.status = "complete"
  BY <1>1 DEF AgentReading
<1>3. /\ r.hits \subseteq Live(m) \cap Sources(m) /\ Cardinality(r.hits) <= MaxPages
      /\ Tokens(r.hits) <= MaxTokens /\ (r.status = "complete" => r.hits # {})
  BY DEF AgentReading
<1> QED
  BY <1>2, <1>3 DEF SoundReading, Citations

\* A small document is read as a whole.
LEMMA FlatReadingSound ==
  ASSUME NEW m, InShape(m), Listed(m), SmallDocument(m)
  PROVE  SoundReading(m, [Accept(NothingRead, PageNodes(m)) EXCEPT !.mode = "flat", !.status = "complete"])
<1> DEFINE pages == PageNodes(m)
           all == Accept(NothingRead, pages)
           read == [all EXCEPT !.mode = "flat", !.status = "complete"]
<1>1. pages = Live(m) \cap Sources(m) /\ Cardinality(pages) = Pages /\ Admits(NothingRead, pages)
  BY DEF SmallDocument
<1>2. all \in AgentReading(m) /\ all.hits = pages
  <2>1. pages \in SUBSET (Live(m) \cap Sources(m))
    BY <1>1
  <2>2. all \in AgentReading(m)
    BY <2>1, NothingReadYet, AcceptSound
  <2>3. all.hits = pages
    BY <1>1 DEF Accept, NothingRead
  <2> QED
    BY <2>2, <2>3
<1>3. Pages > 0
  <2>1. \A n \in DOMAIN m.node :
          /\ m.node[n].page \in 0 .. Pages
          /\ m.node[n].kind = "section" => Pages > 0
    BY DEF InShape, Fits, Nodes
  <2>2. Pages \in Nat
    BY DocumentAssumption
  <2> QED
    BY <2>1, <2>2 DEF Listed, LiveSections, PageNodes, Live
<1>4. pages # {}
  BY <1>1, <1>3, FS_EmptySet
<1> HIDE DEF all, pages
<1>5. /\ read.hits = pages /\ read.mode = "flat"
      /\ Cardinality(pages) <= MaxPages /\ Tokens(pages) <= MaxTokens
  BY <1>2 DEF AgentReading
<1> HIDE DEF read
<1>6. SoundReading(m, read)
  BY <1>1, <1>4, <1>5 DEF SoundReading, Citations
<1> QED
  BY <1>6 DEF read, all, pages

LEMMA ReadingsSound ==
  ASSUME NEW m, InShape(m), NEW r \in QuestionReadings(m) \cup WorkerReadings(m)
  PROVE  SoundReading(m, r)
<1>1. PICK navigation : r \in Readings(m, navigation)
  BY DEF QuestionReadings, WorkerReadings
<1>2. CASE navigation = "vector" \/ ~Listed(m)
  <2>1. PICK hits \in VectorHits(m) :
          r = [mode |-> "vector", status |-> "vector_baseline", hits |-> hits, tokens |-> 0]
    BY <1>1, <1>2 DEF Readings
  <2>2. r.hits = hits /\ r.mode = "vector" /\ r.status = "vector_baseline"
    BY <2>1
  <2>3. hits \subseteq Live(m) \cap Sources(m)
    BY HitsAreSources
  <2> QED
    BY <2>2, <2>3 DEF SoundReading, Citations
<1>3. CASE ~(navigation = "vector" \/ ~Listed(m)) /\ navigation = "auto" /\ SmallDocument(m)
  <2>1. r = [Accept(NothingRead, PageNodes(m)) EXCEPT !.mode = "flat", !.status = "complete"]
    BY <1>1, <1>3 DEF Readings
  <2> QED
    BY <1>3, <2>1, FlatReadingSound
<1>4. CASE ~(navigation = "vector" \/ ~Listed(m)) /\ ~(navigation = "auto" /\ SmallDocument(m))
  <2>1. r \in AgentReadings(m)
    BY <1>1, <1>4 DEF Readings
  <2> QED
    BY <2>1, SoundOnceRead
<1> QED
  BY <1>2, <1>3, <1>4

\* "Retrieval returns the original text": in every memory that processes and bridges can
\* leave behind, whatever is found, read and cited is stored, undeleted and original, and
\* no order of turns passes the budget of pages and tokens.
THEOREM MemoryReadable == Spec => []MemoryIsReadable
<1>1. SoundInv => ReadingsAreSound
  BY ReadingsSound DEF SoundInv, ObjectsSound, Sound, ReadingsAreSound
<1> QED
  BY <1>1, MemoryTyped, SoundInvariant, PTL DEF MemoryIsReadable
=============================================================================
