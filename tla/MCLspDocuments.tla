---------------------------- MODULE MCLspDocuments ----------------------------
\* One document, two texts that parse and one that does not, parses p1 to p3.
EXTENDS LspDocuments
==============================================================================
