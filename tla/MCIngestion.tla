----------------------------- MODULE MCIngestion -----------------------------
(***************************************************************************)
(* Instances of Ingestion for TLC.                                         *)
(***************************************************************************)
EXTENDS Ingestion, TLC

MCChunk == {"intro", "market", "team"}

\* A new release splits the same bytes differently: one chunk survives, one
\* disappears, one is new.  The release after it finds no text at all.
Releases == <<{"intro", "market"}, {"market", "team"}, {}>>
MCChunksOf == [b \in 1..MaxBoot |-> Releases[b]]

StoreCalls == {"find", "write", "insert", "compensate", "get", "object", "row"}
RequestCalls == {"claim", "active", "latest"}

\* Every awaited call of a run, of a request and of the document store.
EveryCall == TaskRunning \cup RequestCalls \cup StoreCalls

\* Calls of a run whose failure it records: one on each resource, before and
\* after it has written anything.
RunFailures == {"download", "extract", "embedding", "stale"}

\* Those, and all of the store's.
RecordedFailures == InsideTry \cup StoreCalls

\* The calls of a delete, and the removal of unrecorded bytes.
DeleteFailures == {"object", "row", "compensate"}

\* The writes of the store, whose answers may be lost.
StoreWrites == {"write", "insert", "object", "row"}

NoCall == {}

Symmetry == Permutations(Job) \cup Permutations(Request)

=============================================================================
