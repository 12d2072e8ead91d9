-------------------------- MODULE MCProjectMemory --------------------------
(* The memory, how it is read, what comes before it (DocumentIntake,          *)
(* PdfOutline) and after (CausalEvidence), and the constants a cfg cannot     *)
(* write.                                                                     *)
EXTENDS MemoryBridge, DocumentReading, DocumentIntake, PdfOutline, CausalEvidence

\* A PDF of one page without bookmarks or headings: one section, the document.
MCFlat == PdfTree(1, << >>, << >>)

\* Three sources need one token more than any two of them may.
MCPageTokens == [n \in 1 .. MaxId |-> n]
=============================================================================
