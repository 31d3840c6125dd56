--------------------------- MODULE MCReceiptFiles ---------------------------
EXTENDS ReceiptFiles
CONSTANTS s1, a1, a2
TheSubmissions == {s1}
TheAttachments == {a1, a2}
=============================================================================
