--------------------------- MODULE MCDocumentStore ---------------------------
(***************************************************************************)
(* Instances of DocumentStore for TLC.                                     *)
(***************************************************************************)
EXTENDS DocumentStore

\* The failures after which an upload still cleans up: none takes the answer
\* of a write away from it, and its compensation goes through.
UploadFailures == {"find", "write", "insert", "get"}

\* The answer of the statement that removes a row.
LostDelete == {"row"}

NoCall == {}

\* Only the answer of the insert goes missing.
LostInsert == {"insert"}

=============================================================================
