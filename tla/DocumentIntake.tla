--------------------------- MODULE DocumentIntake ---------------------------
(***************************************************************************)
(* What happens to material before it is in the project's memory:          *)
(* dataset/material_routing.py (with the rules of material_rules.json),    *)
(* import_document of dataset/pdf_intake.py, and the cache of vector       *)
(* indexes a snapshot is restored with (dataset/index_cache.py).           *)
(*                                                                         *)
(* A PDF is the number of its pages, the pages without readable text, and  *)
(* what an optional inspector says of it.  Opening it can fail (encrypted, *)
(* no pages, the inspector counts other pages); such a call raises and     *)
(* imports nothing, as does one whose outline is refused (PdfOutline).     *)
(***************************************************************************)
EXTENDS Naturals, FiniteSets, FiniteSetsExt, Sequences, SequencesExt

CONSTANTS
  ShortDocument,    \* page_count up to which the rules call a document short
  \* Bounds of the inputs the operators are checked for:
  LongestDocument,  \* pages
  CacheEntries, CacheBytes,   \* max_entries and max_bytes
  Snapshots,        \* keys of the cache: an artifact has the size of its key
  MaxRequests

-----------------------------------------------------------------------------
(* Routing.                                                                 *)

Kinds == {"auto", "normative", "case", "reference", "derived", "unknown"}

Facts == [kind : Kinds, derived : BOOLEAN, lawSchema : BOOLEAN, structured : BOOLEAN,
          pageCount : 0 .. LongestDocument, needsOcr : BOOLEAN, complexLayout : BOOLEAN]

Normative(f) == f.kind = "normative" \/ (f.kind = "auto" /\ f.lawSchema)
Elaborate(f) == f.needsOcr \/ f.complexLayout \/ (~f.structured /\ f.pageCount > ShortDocument)

\* route_material: the first rule that matches decides.
Route(f) ==
  IF f.kind = "derived" \/ f.derived THEN "archive"
  ELSE IF Normative(f) \/ f.kind = "case" THEN IF Elaborate(f) THEN "deep" ELSE "light"
  ELSE IF f.kind = "reference" THEN "light"
  ELSE "deferred"

Unread(kind) ==
  [kind |-> kind, derived |-> FALSE, lawSchema |-> FALSE, structured |-> FALSE, pageCount |-> 0,
   needsOcr |-> FALSE, complexLayout |-> FALSE]

\* route_record: a line of a corpus that has the fields of a law is structured text.
RecordPath(kind, derived, law) ==
  Route([Unread(kind) EXCEPT !.derived = derived, !.lawSchema = law, !.structured = law])

-----------------------------------------------------------------------------
(* PDFs.                                                                    *)

Inspections(n) == [ocr : SUBSET (1 .. n), complexLayout : BOOLEAN, encodingIssues : BOOLEAN]
Pdfs == UNION {[pages : {n}, unreadable : SUBSET (1 .. n), inspected : Inspections(n)] :
               n \in 1 .. LongestDocument}

\* The pages that need more than their native text; a warning that names no page is
\* about all of them.
PagesForOcr(pdf) ==
  LET named == pdf.unreadable \cup pdf.inspected.ocr
  IN IF named = {} /\ pdf.inspected.encodingIssues THEN 1 .. pdf.pages ELSE named

\* import_document: what is excluded is not even opened, what cannot be read completely
\* waits, and only a long document gets sections.
Intake(kind, pdf) ==
  LET path == Route([Unread(kind) EXCEPT !.pageCount = pdf.pages, !.needsOcr = PagesForOcr(pdf) # {},
                                         !.complexLayout = pdf.inspected.complexLayout])
      pending == PagesForOcr(pdf) # {} \/ (path = "deep" /\ pdf.inspected.complexLayout)
  IN IF Route(Unread(kind)) \in {"archive", "deferred"} THEN Route(Unread(kind))
     ELSE IF pending THEN "pending_extraction"
     ELSE IF path = "deep" THEN "imported_with_sections" ELSE "imported_flat"

-----------------------------------------------------------------------------
(* The index cache of a process; get_or_build holds its lock throughout.    *)

Bytes(keys) == FoldSeq(+, 0, keys)

\* The oldest entries go until there is room.
Evicted(keys, size) ==
  LET fits == {i \in 0 .. Len(keys) :
                LET kept == SubSeq(keys, i + 1, Len(keys)) IN
                Len(kept) < CacheEntries /\ Bytes(kept) + size <= CacheBytes}
  IN SubSeq(keys, Min(fits) + 1, Len(keys))

\* get_or_build: a hit becomes the youngest entry; an artifact that is too large for
\* the cache is used but not kept.
GetOrBuild(keys, key) ==
  IF key \in ToSet(keys) THEN Append(SelectSeq(keys, LAMBDA k : k # key), key)
  ELSE IF key > CacheBytes THEN keys
  ELSE Append(Evicted(keys, key), key)

CacheAfter(requests) == FoldLeft(GetOrBuild, << >>, requests)

-----------------------------------------------------------------------------
(* Checked for every input within the bounds.                               *)

\* Nothing generated becomes original evidence, whatever else is known of it.
ASSUME DerivedStaysOut ==
  \A f \in Facts : f.kind = "derived" \/ f.derived => Route(f) = "archive"

\* A document is imported with every page of it readable or not at all, and a person
\* must have said what kind of document it is.
ASSUME ImportedIsReadable ==
  \A kind \in Kinds, pdf \in Pdfs :
    Intake(kind, pdf) \in {"imported_flat", "imported_with_sections"} =>
      /\ pdf.unreadable = {} /\ pdf.inspected.ocr = {} /\ ~pdf.inspected.encodingIssues
      /\ kind \in {"normative", "case", "reference"}
      /\ pdf.inspected.complexLayout => kind = "reference"

\* The cache keeps its bounds, holds nothing twice, and the last artifact that fits is
\* there for the next start of the same snapshot.
ASSUME CacheIsBounded ==
  \A requests \in UNION {[1 .. n -> Snapshots] : n \in 1 .. MaxRequests} :
    LET keys == CacheAfter(requests) IN
    /\ Len(keys) <= CacheEntries /\ Bytes(keys) <= CacheBytes
    /\ IsInjective(keys)
    /\ Last(requests) <= CacheBytes => Last(keys) = Last(requests)
=============================================================================
