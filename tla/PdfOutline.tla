----------------------------- MODULE PdfOutline -----------------------------
(***************************************************************************)
(* build_pdf_tree (dataset/document_index.py): the sections of a PDF, made *)
(* from its bookmarks and from the headings found in its layout.           *)
(*                                                                         *)
(* A heading is a record of its physical page, its level and its title;    *)
(* which lines of the layout are headings (size, numbering, repetition) is *)
(* left to whoever gives them.  A tree is a sequence of sections, each     *)
(* after its parent; the first is the root, which stands for the document. *)
(***************************************************************************)
EXTENDS Naturals, FiniteSets, FiniteSetsExt, Sequences, SequencesExt

\* The page and level checks on bookmarks; one bad bookmark discards them all.
Bookmarks(toc, pageCount) ==
  LET before(i) == IF i = 1 THEN [page |-> 1, level |-> 0] ELSE toc[i - 1]
      fits(i) == /\ toc[i].page \in before(i).page .. pageCount
                 /\ toc[i].level \in 1 .. before(i).level + 1
  IN IF \A i \in DOMAIN toc : fits(i) THEN toc ELSE << >>

\* insert: each entry goes under the nearest one before it of a lower level, or under
\* the section they are all inserted in (0).
Under(entries, i) == Max({j \in 1 .. i - 1 : entries[j].level < entries[i].level} \cup {0})

\* close: a section ends before its next sibling starts, the last one where its parent ends.
LastPage(entries, last) ==
  LET next(i) == {j \in DOMAIN entries : j > i /\ Under(entries, j) = Under(entries, i)}
      end[i \in 0 .. Len(entries)] ==
        IF i = 0 THEN last
        ELSE IF next(i) = {} THEN end[Under(entries, i)]
        ELSE Max({entries[i].page, entries[Min(next(i))].page - 1})
  IN end

\* The sections of the entries inserted under section parent, which ends on page last;
\* the first of them becomes section number first.
Inserted(entries, parent, last, first) ==
  [i \in DOMAIN entries |->
    [first  |-> entries[i].page,
     last   |-> LastPage(entries, last)[i],
     parent |-> IF Under(entries, i) = 0 THEN parent ELSE first + Under(entries, i) - 1]]

\* The section a detected heading belongs to: the shortest bookmark over its page.
OwnerOf(tree, page) ==
  LET span(i) == tree[i].last - tree[i].first
      over == {i \in DOMAIN tree : i > 1 /\ page \in tree[i].first .. tree[i].last}
      shortest == {i \in over : \A j \in over : span(i) <= span(j)}
  IN IF over = {} THEN 1 ELSE Min(shortest)

HasSections(tree, i) == \E j \in DOMAIN tree : tree[j].parent = i

\* build_pdf_tree: bookmarks first.  A detected heading that is not a bookmark of its
\* page fills a section without bookmarks of its own, and is given up otherwise.
PdfTree(pageCount, toc, headings) ==
  LET marks == Bookmarks(toc, pageCount)
      frame == <<[first |-> 1, last |-> pageCount, parent |-> 0]>> \o Inserted(marks, 1, pageCount, 2)
      known(h) == \E i \in DOMAIN marks : marks[i].page = h.page /\ marks[i].title = h.title
      fills(h, owner) == ~known(h) /\ OwnerOf(frame, h.page) = owner /\ ~HasSections(frame, owner)
      filled[k \in 0 .. Len(frame)] ==
        IF k = 0 THEN frame
        ELSE LET detected == SelectSeq(headings, LAMBDA h : fills(h, k))
             IN filled[k - 1] \o Inserted(detected, k, frame[k].last, Len(filled[k - 1]) + 1)
  IN filled[Len(frame)]

\* Section.valid_range: build_pdf_tree raises when its own tree does not pass.
ValidTree(tree) ==
  \A i \in DOMAIN tree :
    /\ tree[i].first <= tree[i].last
    /\ tree[i].parent # 0 =>
         /\ tree[tree[i].parent].first <= tree[i].first
         /\ tree[i].last <= tree[tree[i].parent].last

\* The pages below a section that none of its subsections covers.
OwnPages(tree, i) ==
  (tree[i].first .. tree[i].last) \
    UNION {tree[j].first .. tree[j].last : j \in {k \in DOMAIN tree : tree[k].parent = i}}

\* diagnose_cost: what finding a page costs at worst, by walking the tree; routing is
\* the price of one level.
TreePages(tree, routing) ==
  LET cost[i \in DOMAIN tree] ==
        LET kids == {j \in DOMAIN tree : tree[j].parent = i}
        IN IF kids = {} THEN tree[i].last - tree[i].first + 1
           ELSE routing + Max({Cardinality(OwnPages(tree, i))} \cup {cost[j] : j \in kids})
  IN cost

-----------------------------------------------------------------------------
(* Checked for every outline of up to MaxEntries bookmarks and one heading. *)

CONSTANTS OutlinePages, MaxEntries

Entries == [page : 1 .. OutlinePages, level : 1 .. 3, title : {"mark"}]
Outlines == UNION {[1 .. n -> Entries] : n \in 0 .. MaxEntries}
Detected == {<< >>} \cup {<<h>> : h \in [page : 1 .. OutlinePages, level : 1 .. 3, title : {"mark", "heading"}]}

Around(marks) ==
  LET up[i \in 0 .. Len(marks)] == IF i = 0 THEN {} ELSE {Under(marks, i)} \cup up[Under(marks, i)]
  IN [i \in DOMAIN marks |-> up[i] \ {0}]

\* A bookmark on the page where the next sibling of a section around it starts: that
\* section has been ended one page earlier.
OnTheSeam(marks) ==
  \E i \in DOMAIN marks : \E up \in Around(marks)[i], j \in (i + 1) .. Len(marks) :
    /\ Under(marks, j) = Under(marks, up)
    /\ marks[j].page = marks[i].page
    /\ marks[up].page < marks[i].page

\* Every outline whose sections nest properly becomes a tree that validates, in which
\* every bookmark is a section and no page of the document is lost.  The one kind that
\* raises instead, with bookmarks that pass all checks, is OnTheSeam.
ASSUME OutlinesBecomeTrees ==
  \A toc \in Outlines, headings \in Detected :
    LET tree  == PdfTree(OutlinePages, toc, headings)
        marks == Bookmarks(toc, OutlinePages)
    IN /\ ValidTree(tree) <=> ~OnTheSeam(marks)
       /\ Len(tree) >= 1 + Len(marks)
       /\ ValidTree(tree) => \A page \in 1 .. OutlinePages :
            \E i \in DOMAIN tree : page \in OwnPages(tree, i)
=============================================================================
