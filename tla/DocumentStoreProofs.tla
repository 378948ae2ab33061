------------------------- MODULE DocumentStoreProofs -------------------------
(***************************************************************************)
(* Theorems about DocumentStore, for every set of documents, contents and  *)
(* calls, every choice of the calls that may fail and every number of      *)
(* restarts.  The lemmas on types serve Ingestion too, whose actions       *)
(* include those of the store.                                             *)
(***************************************************************************)
EXTENDS DocumentStore, TLAPS

-----------------------------------------------------------------------------
(* Types.  StoreTypeOK alone is not inductive: a call writes to the        *)
(* document it carries, so it must carry one by the time it does.          *)

\* Whatever is past its first step knows its document.
StoreCallsBound ==
  /\ \A u \in Uploader : uploads[u].pc \in {"write", "insert", "compensate"} =>
       uploads[u].document \in Document
  /\ \A x \in Deleter : deletes[x].pc \in DeleteInFlight =>
       deletes[x].document \in Document

StoreInv == StoreTypeOK /\ StoreCallsBound

LEMMA UploadFields ==
  ASSUME uploads \in [Uploader -> [pc : UploadPc, content : Content \cup {NoContent},
                                   document : Document \cup {NoDocument}]],
         NEW u \in Uploader, NEW p \in UploadPc, NEW c \in Content
  PROVE  [uploads EXCEPT ![u].pc = p, ![u].content = c]
           \in [Uploader -> [pc : UploadPc, content : Content \cup {NoContent},
                             document : Document \cup {NoDocument}]]
OBVIOUS

LEMMA DeleteFields ==
  ASSUME deletes \in [Deleter -> [pc : DeletePc, document : Document \cup {NoDocument}]],
         NEW x \in Deleter, NEW p \in DeletePc, NEW d \in Document
  PROVE  [deletes EXCEPT ![x].pc = p, ![x].document = d]
           \in [Deleter -> [pc : DeletePc, document : Document \cup {NoDocument}]]
OBVIOUS

LEMMA UploadTypes ==
  ASSUME StoreInv, NEW u \in Uploader, UploadStep(u)
  PROVE  StoreInv'
<1>. USE DEF StoreInv, StoreTypeOK, StoreCallsBound, DeleteInFlight
<1>1. ASSUME NEW c \in Content, BeginUpload(u, c) PROVE StoreInv'
  <2>1. PICK p \in {"find", "rejected"} :
          uploads' = [uploads EXCEPT ![u].pc = p, ![u].content = c]
    BY <1>1 DEF BeginUpload
  <2>2. uploads' \in [Uploader -> [pc : UploadPc, content : Content \cup {NoContent},
                                   document : Document \cup {NoDocument}]]
    <3>1. p \in UploadPc
      BY DEF UploadPc
    <3>2. QED
      BY <2>1, <3>1, UploadFields
  <2>3. /\ uploads'[u].pc = p
        /\ \A v \in Uploader \ {u} : uploads'[v] = uploads[v]
    BY <2>1
  <2>4. StoreCallsBound'
    BY <1>1, <2>3 DEF BeginUpload
  <2>5. StoreTypeOK'
    BY <1>1, <2>2 DEF BeginUpload
  <2>6. QED
    BY <2>4, <2>5
<1>2. ASSUME FindByChecksum(u) PROVE StoreInv'
  BY <1>2 DEF FindByChecksum, UploadPc
<1>3. ASSUME WriteObject(u) PROVE StoreInv'
  <2>1. PICK p \in {"insert", "error"} : uploads' = [uploads EXCEPT ![u].pc = p]
    BY <1>3 DEF WriteObject
  <2>2. uploads' \in [Uploader -> [pc : UploadPc, content : Content \cup {NoContent},
                                   document : Document \cup {NoDocument}]]
    BY <2>1 DEF UploadPc
  <2>3. uploads[u].document \in Document /\ objects' \subseteq Document
    BY <1>3 DEF WriteObject
  <2>4. QED
    BY <1>3, <2>1, <2>2, <2>3 DEF WriteObject
<1>4. ASSUME CreateRow(u) PROVE StoreInv'
  BY <1>4 DEF CreateRow, UploadPc, DocumentStatus
<1>5. ASSUME Compensate(u) PROVE StoreInv'
  BY <1>5 DEF Compensate, UploadPc
<1>6. QED
  BY <1>1, <1>2, <1>3, <1>4, <1>5 DEF UploadStep

LEMMA DeleteTypes ==
  ASSUME StoreInv, NEW x \in Deleter, DeleteStep(x)
  PROVE  StoreInv'
<1>. USE DEF StoreInv, StoreTypeOK, StoreCallsBound, DeleteInFlight
<1>1. ASSUME NEW d \in Document, BeginDelete(x, d) PROVE StoreInv'
  <2>1. PICK p \in {"error", "object", "not_found"} :
          deletes' = [deletes EXCEPT ![x].pc = p, ![x].document = d]
    BY <1>1 DEF BeginDelete
  <2>2. deletes' \in [Deleter -> [pc : DeletePc, document : Document \cup {NoDocument}]]
    <3>1. p \in DeletePc
      BY DEF DeletePc
    <3>2. QED
      BY <2>1, <3>1, DeleteFields
  <2>3. /\ deletes'[x].pc = p
        /\ deletes'[x].document = d
        /\ \A y \in Deleter \ {x} : deletes'[y] = deletes[y]
    BY <2>1
  <2>4. StoreCallsBound'
    BY <1>1, <2>3 DEF BeginDelete
  <2>5. StoreTypeOK'
    BY <1>1, <2>2 DEF BeginDelete
  <2>6. QED
    BY <2>4, <2>5
<1>2. ASSUME RemoveObject(x) PROVE StoreInv'
  <2>1. PICK p \in {"row", "error"} : deletes' = [deletes EXCEPT ![x].pc = p]
    BY <1>2 DEF RemoveObject, AfterObject
  <2>2. deletes' \in [Deleter -> [pc : DeletePc, document : Document \cup {NoDocument}]]
    BY <2>1 DEF DeletePc
  <2>3. objects' \subseteq Document
    BY <1>2 DEF RemoveObject
  <2>4. QED
    BY <1>2, <2>1, <2>2, <2>3 DEF RemoveObject
<1>3. ASSUME RemoveRow(x) PROVE StoreInv'
  <2>1. PICK p \in {"deleted", "not_found", "error"} :
          deletes' = [deletes EXCEPT ![x].pc = p]
    BY <1>3 DEF RemoveRow
  <2>2. deletes' \in [Deleter -> [pc : DeletePc, document : Document \cup {NoDocument}]]
    BY <2>1 DEF DeletePc
  <2>3. status' \in [Document -> DocumentStatus \cup {"absent"}]
    BY <1>3 DEF RemoveRow, RowRemoved
  <2>4. QED
    BY <1>3, <2>1, <2>2, <2>3 DEF RemoveRow
<1>4. QED
  BY <1>1, <1>2, <1>3 DEF DeleteStep

LEMMA CrashTypes ==
  ASSUME StoreInv, CrashStore
  PROVE  StoreInv'
<1>. USE DEF StoreInv, StoreTypeOK, StoreCallsBound, DeleteInFlight, CrashStore
<1>1. uploads' \in [Uploader -> [pc : UploadPc, content : Content \cup {NoContent},
                                 document : Document \cup {NoDocument}]]
  BY DEF UploadPc
<1>2. deletes' \in [Deleter -> [pc : DeletePc, document : Document \cup {NoDocument}]]
  BY DEF DeletePc
<1>3. boot' \in 1..MaxBoot
  BY StoreAssumption DEF StoreAssumption
<1>4. QED
  BY <1>1, <1>2, <1>3 DEF UploadInFlight
LEMMA StoreInvUnchanged ==
  StoreInv /\ UNCHANGED storeVars => StoreInv'
BY DEF StoreInv, StoreTypeOK, StoreCallsBound, storeVars
LEMMA StoreTypesInit == StoreInit => StoreInv
<1>. SUFFICES ASSUME StoreInit PROVE StoreInv
  OBVIOUS
<1>1. Accepted \subseteq Content /\ Stored \subseteq Document /\ 1 \in 1..MaxBoot
  BY StoreAssumption DEF StoreAssumption
<1>2. QED
  BY <1>1 DEF StoreInit, StoreInv, StoreTypeOK, StoreCallsBound, NewUpload, NewDelete,
              UploadPc, DeletePc, DeleteInFlight, DocumentStatus

LEMMA StoreTypesStep == StoreInv /\ [StoreNext]_storeVars => StoreInv'
BY UploadTypes, DeleteTypes, CrashTypes, StoreInvUnchanged DEF StoreNext

\* The two stores and the calls on them keep their types.
THEOREM StoreTypeCorrect == StoreSpec => []StoreTypeOK
<1>1. StoreInv => StoreTypeOK
  BY DEF StoreInv
<1>2. QED
  BY <1>1, StoreTypesInit, StoreTypesStep, PTL DEF StoreSpec

-----------------------------------------------------------------------------
(* Unique content: only CreateRow records a document, under the constraint. *)

LEMMA UniqueStep ==
  ASSUME StoreInv, UniqueContent, [StoreNext]_storeVars
  PROVE  UniqueContent'
<1>. USE DEF UniqueContent, Recorded
<1>1. ASSUME NEW u \in Uploader, CreateRow(u) PROVE UniqueContent'
  <2>1. uploads[u].document \in Document
    BY <1>1 DEF CreateRow, StoreInv, StoreCallsBound
  <2>2. CASE UNCHANGED <<status, checksum>>
    BY <2>2
  <2>3. CASE /\ ContentIsFree(uploads[u].content)
             /\ status' = [status EXCEPT ![uploads[u].document] = "uploaded"]
             /\ checksum' = [checksum EXCEPT ![uploads[u].document] = uploads[u].content]
    <3>1. \A e \in Document : e # uploads[u].document =>
            status'[e] = status[e] /\ checksum'[e] = checksum[e]
      BY <2>3 DEF StoreInv, StoreTypeOK
    <3>2. checksum'[uploads[u].document] = uploads[u].content
      BY <2>1, <2>3 DEF StoreInv, StoreTypeOK
    <3>3. \A e \in Document : Recorded(e) => checksum[e] # uploads[u].content
      BY <2>3 DEF ContentIsFree
    <3>4. QED
      BY <3>1, <3>2, <3>3
  <2>4. QED
    BY <1>1, <2>2, <2>3 DEF CreateRow
<1>2. ASSUME NEW x \in Deleter, RemoveRow(x) PROVE UniqueContent'
  <2>1. checksum' = checksum /\ \A d \in Document : Recorded(d)' => Recorded(d)
    BY <1>2 DEF RemoveRow, RowRemoved, StoreInv, StoreTypeOK
  <2>2. QED
    BY <2>1
<1>3. CASE UNCHANGED <<status, checksum>>
  BY <1>3
<1>4. QED
  BY <1>1, <1>2, <1>3 DEF StoreNext, UploadStep, DeleteStep, BeginUpload, FindByChecksum,
     WriteObject, Compensate, BeginDelete, RemoveObject, CrashStore, storeVars

\* Two uploads of the same content never end as two rows, however they and the
\* deletes interleave and whatever fails: the constraint decides the race the
\* lookup lets through.
THEOREM ContentIsUnique == StoreSpec => []UniqueContent
<1>1. StoreInit => UniqueContent
  BY DEF StoreInit, UniqueContent, Recorded
<1>2. StoreInv /\ UniqueContent /\ [StoreNext]_storeVars => UniqueContent'
  BY UniqueStep
<1>3. QED
  BY <1>1, <1>2, StoreTypesInit, StoreTypesStep, PTL DEF StoreSpec

-----------------------------------------------------------------------------
(* Whose a document is.  No two uploads carry the same id, and until an     *)
(* upload has asked for its row nobody else touches its document: a delete  *)
(* goes on only for a document that is recorded.                            *)

CallsCarry ==
  /\ \A u \in Uploader :
       uploads[u].pc \in {"idle", "find"} => uploads[u].document = NoDocument
  /\ \A x \in Deleter : deletes[x].pc = "idle" => deletes[x].document = NoDocument

IdsAreMinted ==
  /\ \A u \in Uploader : uploads[u].document \in minted \cup {NoDocument}
  /\ \A x \in Deleter : deletes[x].document \in minted \cup {NoDocument}
  /\ \A d \in Document : Recorded(d) \/ d \in objects => d \in minted

IdsAreOwned ==
  \A u, v \in Uploader : uploads[u].document = uploads[v].document =>
    u = v \/ uploads[u].document = NoDocument

WritingIsNew ==
  \A u \in Uploader :
    /\ uploads[u].pc \in {"write", "insert"} =>
         /\ ~Recorded(uploads[u].document)
         /\ \A x \in Deleter : deletes[x].pc \in DeleteInFlight =>
              deletes[x].document # uploads[u].document
    /\ uploads[u].pc = "write" => uploads[u].document \notin objects

OwnInv == StoreInv /\ CallsCarry /\ IdsAreMinted /\ IdsAreOwned /\ WritingIsNew

LEMMA OwnInit == StoreInit => OwnInv
<1>1. StoreInit => CallsCarry /\ IdsAreMinted /\ IdsAreOwned /\ WritingIsNew
  BY DEF StoreInit, CallsCarry, IdsAreMinted, IdsAreOwned, WritingIsNew, Recorded,
         NewUpload, NewDelete, DeleteInFlight
<1>2. QED
  BY <1>1, StoreTypesInit DEF OwnInv

\* An upload that keeps its document and does not enter write or insert, in a
\* step that records nothing and adds no object, disturbs none of this.
LEMMA OwnUploadMoves ==
  ASSUME OwnInv, StoreInv', NEW u \in Uploader,
         \A v \in Uploader \ {u} : uploads'[v] = uploads[v],
         uploads'[u].document = uploads[u].document,
         uploads'[u].pc \notin {"idle", "write", "insert"},
         uploads'[u].pc = "find" => uploads[u].pc = "idle",
         \A d \in Document : Recorded(d)' => Recorded(d) \/ d = uploads[u].document,
         uploads[u].pc = "insert" \/ \A d \in Document : Recorded(d)' => Recorded(d),
         objects' \subseteq objects, UNCHANGED <<minted, deletes>>
  PROVE  OwnInv'
<1>. USE StoreAssumption DEF StoreAssumption
<1>1. CallsCarry'
  BY DEF OwnInv, CallsCarry
<1>2. \A v \in Uploader : uploads'[v].document = uploads[v].document
  OBVIOUS
<1>3. IdsAreMinted'
  BY <1>2 DEF OwnInv, IdsAreMinted
<1>4. IdsAreOwned'
  BY <1>2 DEF OwnInv, IdsAreOwned
<1>5. WritingIsNew'
  <2>1. SUFFICES ASSUME NEW v \in Uploader, uploads'[v].pc \in {"write", "insert"}
                 PROVE  /\ ~Recorded(uploads[v].document)'
                        /\ \A x \in Deleter : deletes[x].pc \in DeleteInFlight =>
                             deletes[x].document # uploads[v].document
                        /\ uploads[v].pc = "write" => uploads[v].document \notin objects
    BY <1>2 DEF WritingIsNew
  <2>2. v # u /\ uploads'[v] = uploads[v] /\ uploads[v].document \in Document
    BY <2>1 DEF OwnInv, StoreInv, StoreCallsBound
  <2>3. uploads[v].document # uploads[u].document
    BY <2>2 DEF OwnInv, IdsAreOwned
  <2>4. QED
    BY <2>1, <2>2, <2>3 DEF OwnInv, WritingIsNew, Recorded
<1>6. QED
  BY <1>1, <1>3, <1>4, <1>5 DEF OwnInv

LEMMA OwnFind ==
  ASSUME OwnInv, StoreInv', NEW u \in Uploader, FindByChecksum(u)
  PROVE  OwnInv'
<1>. USE StoreAssumption DEF StoreAssumption
<1>1. CASE \E p \in {"error", "duplicate"} :
             uploads' = [uploads EXCEPT ![u].pc = p] /\ minted' = minted
  <2>1. PICK p \in {"error", "duplicate"} :
          uploads' = [uploads EXCEPT ![u].pc = p] /\ minted' = minted
    BY <1>1
  <2>2. /\ uploads'[u].pc = p /\ uploads'[u].document = uploads[u].document
        /\ \A v \in Uploader \ {u} : uploads'[v] = uploads[v]
    BY <2>1 DEF OwnInv, StoreInv, StoreTypeOK
  <2>3. QED
    BY <2>1, <2>2, OwnUploadMoves DEF FindByChecksum, Recorded
<1>2. CASE \E d \in Document \ minted :
             /\ uploads' = [uploads EXCEPT ![u].pc = "write", ![u].document = d]
             /\ minted' = minted \cup {d}
  <2>1. PICK d \in Document \ minted :
             /\ uploads' = [uploads EXCEPT ![u].pc = "write", ![u].document = d]
             /\ minted' = minted \cup {d}
    BY <1>2
  <2>2. /\ uploads'[u].pc = "write" /\ uploads'[u].document = d
        /\ \A v \in Uploader \ {u} : uploads'[v] = uploads[v]
    BY <2>1 DEF OwnInv, StoreInv, StoreTypeOK
  <2>3. UNCHANGED <<status, objects, deletes>>
    BY DEF FindByChecksum
  <2>4. CallsCarry'
    BY <2>2, <2>3 DEF OwnInv, CallsCarry
  <2>5. IdsAreMinted'
    <3>1. \A v \in Uploader : uploads'[v].document \in minted' \cup {NoDocument}
      <4>1. minted \subseteq minted' /\ d \in minted'
        BY <2>1
      <4>2. TAKE v \in Uploader
      <4>3. CASE v = u
        BY <2>2, <4>1, <4>3
      <4>4. CASE v # u
        <5>1. uploads'[v] = uploads[v]
          BY <2>2, <4>4
        <5>2. uploads[v].document \in minted \cup {NoDocument}
          BY DEF OwnInv, IdsAreMinted
        <5>3. QED
          BY <4>1, <5>1, <5>2
      <4>5. QED
        BY <4>3, <4>4
    <3>2. \A x \in Deleter : deletes'[x].document \in minted' \cup {NoDocument}
      BY <2>1, <2>3 DEF OwnInv, IdsAreMinted
    <3>3. \A e \in Document : (Recorded(e) \/ e \in objects)' => e \in minted'
      BY <2>1, <2>3 DEF OwnInv, IdsAreMinted, Recorded
    <3>4. QED
      BY <3>1, <3>2, <3>3 DEF IdsAreMinted
  <2>6. \A v \in Uploader \ {u} : uploads[v].document # d
    BY <2>1 DEF OwnInv, IdsAreMinted
  <2>7. IdsAreOwned'
    BY <2>2, <2>6 DEF OwnInv, IdsAreOwned
  <2>8. /\ ~Recorded(d) /\ d \notin objects
        /\ \A x \in Deleter : deletes[x].document # d
    BY <2>1 DEF OwnInv, IdsAreMinted
  <2>9. WritingIsNew'
    BY <2>2, <2>3, <2>8 DEF OwnInv, WritingIsNew, Recorded
  <2>10. QED
    BY <2>4, <2>5, <2>7, <2>9 DEF OwnInv
<1>3. QED
  BY <1>1, <1>2 DEF FindByChecksum

LEMMA OwnUpload ==
  ASSUME OwnInv, StoreInv', NEW u \in Uploader, UploadStep(u)
  PROVE  OwnInv'
<1>. USE StoreAssumption DEF StoreAssumption
<1>1. ASSUME NEW c \in Content, BeginUpload(u, c) PROVE OwnInv'
  <2>1. PICK p \in {"find", "rejected"} :
          uploads' = [uploads EXCEPT ![u].pc = p, ![u].content = c]
    BY <1>1 DEF BeginUpload
  <2>2. /\ uploads'[u].pc = p /\ uploads'[u].document = uploads[u].document
        /\ \A v \in Uploader \ {u} : uploads'[v] = uploads[v]
    BY <2>1 DEF OwnInv, StoreInv, StoreTypeOK
  <2>3. QED
    BY <1>1, <2>1, <2>2, OwnUploadMoves DEF BeginUpload, Recorded
<1>2. ASSUME FindByChecksum(u) PROVE OwnInv'
  BY <1>2, OwnFind
<1>3. ASSUME WriteObject(u) PROVE OwnInv'
  <2>1. PICK p \in {"insert", "error"} : uploads' = [uploads EXCEPT ![u].pc = p]
    BY <1>3 DEF WriteObject
  <2>2. /\ uploads[u].pc = "write"
        /\ uploads'[u].pc = p /\ uploads'[u].document = uploads[u].document
        /\ \A v \in Uploader \ {u} : uploads'[v] = uploads[v]
    BY <1>3, <2>1 DEF OwnInv, StoreInv, StoreTypeOK, WriteObject
  <2>3. /\ objects' \subseteq objects \cup {uploads[u].document}
        /\ UNCHANGED <<status, minted, deletes>>
    BY <1>3 DEF WriteObject
  <2>4. \A v \in Uploader : uploads'[v].document = uploads[v].document
    BY <2>2
  <2>5. CallsCarry'
    BY <2>2, <2>3 DEF OwnInv, CallsCarry
  <2>6. IdsAreMinted'
    BY <2>3, <2>4 DEF OwnInv, IdsAreMinted, Recorded
  <2>7. IdsAreOwned'
    BY <2>4 DEF OwnInv, IdsAreOwned
  <2>8. ASSUME NEW v \in Uploader, uploads'[v].pc = "write"
        PROVE  uploads'[v].document \notin objects'
    <3>1. v # u /\ uploads[v].pc = "write" /\ uploads[v].document \in Document
      BY <2>2, <2>8 DEF OwnInv, StoreInv, StoreCallsBound
    <3>2. uploads[v].document # uploads[u].document
      BY <3>1 DEF OwnInv, IdsAreOwned
    <3>3. QED
      BY <2>3, <2>4, <3>1, <3>2 DEF OwnInv, WritingIsNew
  <2>9. WritingIsNew'
    BY <2>2, <2>3, <2>4, <2>8 DEF OwnInv, WritingIsNew, Recorded
  <2>10. QED
    BY <2>5, <2>6, <2>7, <2>9 DEF OwnInv
<1>4. ASSUME CreateRow(u) PROVE OwnInv'
  <2>1. PICK p \in {"created", "compensate"} : uploads' = [uploads EXCEPT ![u].pc = p]
    BY <1>4 DEF CreateRow
  <2>2. /\ uploads[u].pc = "insert"
        /\ uploads'[u].pc = p /\ uploads'[u].document = uploads[u].document
        /\ \A v \in Uploader \ {u} : uploads'[v] = uploads[v]
    BY <1>4, <2>1 DEF OwnInv, StoreInv, StoreTypeOK, CreateRow
  <2>3. \A d \in Document : Recorded(d)' => Recorded(d) \/ d = uploads[u].document
    BY <1>4 DEF OwnInv, StoreInv, StoreTypeOK, CreateRow, Recorded
  <2>4. QED
    BY <1>4, <2>2, <2>3, OwnUploadMoves DEF CreateRow
<1>5. ASSUME Compensate(u) PROVE OwnInv'
  <2>1. /\ uploads'[u].pc = "error" /\ uploads'[u].document = uploads[u].document
        /\ \A v \in Uploader \ {u} : uploads'[v] = uploads[v]
    BY <1>5 DEF OwnInv, StoreInv, StoreTypeOK, Compensate
  <2>2. objects' \subseteq objects /\ UNCHANGED <<status, minted, deletes>>
    BY <1>5 DEF Compensate
  <2>3. QED
    BY <2>1, <2>2, OwnUploadMoves DEF Recorded
<1>6. QED
  BY <1>1, <1>2, <1>3, <1>4, <1>5 DEF UploadStep

LEMMA OwnDelete ==
  ASSUME OwnInv, StoreInv', NEW x \in Deleter, DeleteStep(x)
  PROVE  OwnInv'
<1>. USE StoreAssumption DEF StoreAssumption
<1>1. ASSUME NEW d \in Document, BeginDelete(x, d) PROVE OwnInv'
  <2>1. PICK p \in {"error", "object", "not_found"} :
          /\ deletes' = [deletes EXCEPT ![x].pc = p, ![x].document = d]
          /\ p = "object" => Recorded(d)
    BY <1>1 DEF BeginDelete
  <2>2. /\ deletes'[x].pc = p /\ deletes'[x].document = d
        /\ \A y \in Deleter \ {x} : deletes'[y] = deletes[y]
    BY <2>1 DEF OwnInv, StoreInv, StoreTypeOK
  <2>3. d \in minted /\ UNCHANGED <<status, objects, minted, uploads>>
    BY <1>1 DEF BeginDelete
  <2>4. CallsCarry'
    BY <2>2, <2>3 DEF OwnInv, CallsCarry
  <2>5. IdsAreMinted' /\ IdsAreOwned'
    BY <2>2, <2>3 DEF OwnInv, IdsAreMinted, IdsAreOwned, Recorded
  <2>6. WritingIsNew'
    <3>1. ASSUME NEW u \in Uploader, uploads[u].pc \in {"write", "insert"},
                 NEW y \in Deleter, deletes'[y].pc \in DeleteInFlight
          PROVE  deletes'[y].document # uploads[u].document
      <4>1. ~Recorded(uploads[u].document)
        BY <3>1 DEF OwnInv, WritingIsNew
      <4>2. CASE y = x
        BY <2>1, <2>2, <3>1, <4>1, <4>2 DEF DeleteInFlight
      <4>3. CASE y # x
        BY <2>2, <3>1, <4>3 DEF OwnInv, WritingIsNew
      <4>4. QED
        BY <4>2, <4>3
    <3>2. QED
      BY <2>3, <3>1 DEF OwnInv, WritingIsNew, Recorded
  <2>7. QED
    BY <2>4, <2>5, <2>6 DEF OwnInv
<1>2. ASSUME RemoveObject(x) \/ RemoveRow(x) PROVE OwnInv'
  <2>1. PICK p \in {"row", "error", "deleted", "not_found"} :
          deletes' = [deletes EXCEPT ![x].pc = p]
    BY <1>2 DEF RemoveObject, AfterObject, RemoveRow
  <2>2. /\ deletes[x].pc \in DeleteInFlight
        /\ deletes'[x].pc = p /\ deletes'[x].document = deletes[x].document
        /\ \A y \in Deleter \ {x} : deletes'[y] = deletes[y]
    BY <1>2, <2>1 DEF OwnInv, StoreInv, StoreTypeOK, RemoveObject, RemoveRow, DeleteInFlight
  <2>3. /\ objects' \subseteq objects
        /\ \A d \in Document : Recorded(d)' => Recorded(d)
        /\ UNCHANGED <<minted, uploads>>
    BY <1>2 DEF OwnInv, StoreInv, StoreTypeOK, RemoveObject, RemoveRow, RowRemoved, Recorded
  <2>4. CallsCarry'
    BY <2>2, <2>3 DEF OwnInv, CallsCarry
  <2>5. IdsAreMinted' /\ IdsAreOwned'
    BY <2>2, <2>3 DEF OwnInv, IdsAreMinted, IdsAreOwned
  <2>6. WritingIsNew'
    <3>1. \A y \in Deleter : deletes'[y].pc \in DeleteInFlight =>
            /\ deletes[y].pc \in DeleteInFlight
            /\ deletes'[y].document = deletes[y].document
      BY <2>2
    <3>2. \A u \in Uploader : uploads[u].pc \in {"write", "insert"} =>
            uploads[u].document \in Document
      BY DEF OwnInv, StoreInv, StoreCallsBound
    <3>3. QED
      BY <2>3, <3>1, <3>2 DEF OwnInv, WritingIsNew
  <2>7. QED
    BY <2>4, <2>5, <2>6 DEF OwnInv
<1>3. QED
  BY <1>1, <1>2 DEF DeleteStep

\* What a restart does to the calls: those in flight are lost.
LEMMA CrashEffect ==
  ASSUME StoreInv, CrashStore
  PROVE  /\ UNCHANGED <<status, checksum, objects, minted>>
         /\ \A u \in Uploader :
              /\ uploads'[u].document = uploads[u].document
              /\ uploads'[u].pc = IF uploads[u].pc \in UploadInFlight
                                  THEN "lost" ELSE uploads[u].pc
         /\ \A x \in Deleter :
              /\ deletes'[x].document = deletes[x].document
              /\ deletes'[x].pc = IF deletes[x].pc \in DeleteInFlight
                                  THEN "lost" ELSE deletes[x].pc
BY DEF CrashStore, StoreInv, StoreTypeOK

LEMMA OwnStep == OwnInv /\ [StoreNext]_storeVars => OwnInv'
<1>. SUFFICES ASSUME OwnInv, [StoreNext]_storeVars PROVE OwnInv'
  OBVIOUS
<1>1. StoreInv'
  BY StoreTypesStep DEF OwnInv
<1>2. CASE CrashStore
  <2>. USE CrashEffect DEF UploadInFlight, DeleteInFlight
  <2>1. CallsCarry'
    BY <1>2 DEF OwnInv, CallsCarry
  <2>2. IdsAreMinted' /\ IdsAreOwned'
    BY <1>2 DEF OwnInv, IdsAreMinted, IdsAreOwned, Recorded
  <2>3. WritingIsNew'
    BY <1>2 DEF OwnInv, WritingIsNew, Recorded
  <2>4. QED
    BY <1>1, <2>1, <2>2, <2>3 DEF OwnInv
<1>3. CASE UNCHANGED storeVars
  BY <1>1, <1>3 DEF OwnInv, CallsCarry, IdsAreMinted, IdsAreOwned, WritingIsNew, Recorded,
                    storeVars
<1>4. QED
  BY <1>1, <1>2, <1>3, OwnUpload, OwnDelete DEF StoreNext

-----------------------------------------------------------------------------
(* Orphans.  Which uploads may leave bytes without a row depends on what    *)
(* can fail; the argument does not.  Bytes without a row, and bytes still   *)
(* there when a delete is about to remove their row, belong to an upload    *)
(* that ended, or will end, in one of the given ways.                       *)

LeftBehind(d, ways) ==
  \E u \in Uploader : uploads[u].document = d /\ uploads[u].pc \in ways

Accounted(ways) ==
  /\ \A d \in objects : ~Recorded(d) => LeftBehind(d, ways)
  /\ \A x \in Deleter : deletes[x].pc = "row" =>
       deletes[x].document \notin objects \/ LeftBehind(deletes[x].document, ways)

\* The ways an upload may leave its bytes when compensation works, and always.
Unfinished == {"insert", "compensate", "lost"}
NotCompleted == Unfinished \cup {"error"}

StorageAnswers == "write" \notin MayLose /\ "compensate" \notin MayRefuse

\* What holds of ways in both cases.
Leaves(ways) ==
  \/ ways = NotCompleted
  \/ ways = Unfinished /\ StorageAnswers

\* An upload that carries no document leaves the bytes of the others alone.
LEMMA LeftElsewhere ==
  ASSUME NEW ways, NEW u \in Uploader,
         \A v \in Uploader \ {u} : uploads'[v] = uploads[v],
         NEW d, LeftBehind(d, ways), uploads[u].document # d
  PROVE  LeftBehind(d, ways)'
BY DEF LeftBehind

LEMMA AccountedUpload ==
  ASSUME NEW ways, Leaves(ways), OwnInv, Accounted(ways),
         NEW u \in Uploader, UploadStep(u)
  PROVE  Accounted(ways)'
<1>. USE StoreAssumption DEF StoreAssumption
<1>1. objects \subseteq Document
  BY DEF OwnInv, StoreInv, StoreTypeOK
<1>2. ASSUME (\E c \in Content : BeginUpload(u, c)) \/ FindByChecksum(u)
      PROVE  Accounted(ways)'
  <2>1. uploads[u].document = NoDocument
    BY <1>2 DEF OwnInv, CallsCarry, BeginUpload, FindByChecksum
  <2>2. \A v \in Uploader \ {u} : uploads'[v] = uploads[v]
    BY <1>2 DEF OwnInv, StoreInv, StoreTypeOK, BeginUpload, FindByChecksum
  <2>3. UNCHANGED <<status, objects, deletes>>
    BY <1>2 DEF BeginUpload, FindByChecksum
  <2>4. \A d \in Document : LeftBehind(d, ways) => LeftBehind(d, ways)'
    BY <2>1, <2>2, LeftElsewhere
  <2>5. \A x \in Deleter : deletes[x].pc = "row" => deletes[x].document \in Document
    BY DEF OwnInv, StoreInv, StoreCallsBound, DeleteInFlight
  <2>6. QED
    BY <1>1, <2>3, <2>4, <2>5 DEF Accounted, Recorded
<1>3. ASSUME WriteObject(u) PROVE Accounted(ways)'
  <2>1. /\ uploads[u].pc = "write"
        /\ uploads'[u].document = uploads[u].document
        /\ \A v \in Uploader \ {u} : uploads'[v] = uploads[v]
        /\ UNCHANGED <<status, deletes>>
    BY <1>3 DEF OwnInv, StoreInv, StoreTypeOK, WriteObject
  <2>2. \/ objects' = objects
        \/ objects' = objects \cup {uploads[u].document} /\ uploads'[u].pc \in ways
    BY <1>3, <2>1 DEF WriteObject, Answers, TookEffect, Leaves, NotCompleted, Unfinished,
       StorageAnswers, OwnInv, StoreInv, StoreTypeOK
  <2>3. \A d : LeftBehind(d, ways) => LeftBehind(d, ways)'
    <3>1. "write" \notin ways
      BY DEF Leaves, NotCompleted, Unfinished
    <3>2. QED
      BY <2>1, <3>1 DEF LeftBehind
  <2>4. uploads'[u].pc \in ways => LeftBehind(uploads[u].document, ways)'
    BY <2>1 DEF LeftBehind
  <2>5. \A x \in Deleter : deletes[x].pc = "row" =>
          deletes[x].document # uploads[u].document
    BY <2>1 DEF OwnInv, WritingIsNew, DeleteInFlight
  <2>6. QED
    BY <2>1, <2>2, <2>3, <2>4, <2>5 DEF Accounted, Recorded
<1>4. ASSUME CreateRow(u) PROVE Accounted(ways)'
  <2>1. /\ uploads[u].pc = "insert"
        /\ uploads'[u].document = uploads[u].document
        /\ \A v \in Uploader \ {u} : uploads'[v] = uploads[v]
        /\ UNCHANGED <<objects, deletes>>
    BY <1>4 DEF OwnInv, StoreInv, StoreTypeOK, CreateRow
  <2>2. uploads[u].document \in Document
    BY <2>1 DEF OwnInv, StoreInv, StoreCallsBound
  <2>3. \/ uploads'[u].pc = "created" /\ Recorded(uploads[u].document)'
        \/ uploads'[u].pc = "compensate"
    BY <1>4, <2>2 DEF CreateRow, Answers, TookEffect, Recorded, OwnInv, StoreInv, StoreTypeOK
  <2>4. \A d \in Document : Recorded(d) => Recorded(d)'
    BY <1>4, <2>2 DEF CreateRow, Recorded, OwnInv, StoreInv, StoreTypeOK
  <2>5. \A d : LeftBehind(d, ways) =>
          LeftBehind(d, ways)' \/ d = uploads[u].document
    BY <2>1, LeftElsewhere
  <2>6. uploads'[u].pc = "compensate" => LeftBehind(uploads[u].document, ways)'
    BY <2>1 DEF LeftBehind, Leaves, NotCompleted, Unfinished
  <2>7. \A x \in Deleter : deletes[x].pc = "row" =>
          deletes[x].document # uploads[u].document
    BY <2>1 DEF OwnInv, WritingIsNew, DeleteInFlight
  <2>8. QED
    BY <1>1, <2>1, <2>3, <2>4, <2>5, <2>6, <2>7 DEF Accounted
<1>5. ASSUME Compensate(u) PROVE Accounted(ways)'
  <2>1. /\ uploads'[u].pc = "error"
        /\ uploads'[u].document = uploads[u].document
        /\ \A v \in Uploader \ {u} : uploads'[v] = uploads[v]
        /\ objects' \subseteq objects
        /\ UNCHANGED <<status, deletes>>
    BY <1>5 DEF OwnInv, StoreInv, StoreTypeOK, Compensate
  <2>2. "error" \in ways \/ uploads[u].document \notin objects'
    BY <1>5 DEF Compensate, Answers, TookEffect, Leaves, NotCompleted, StorageAnswers
  <2>3. \A d \in objects' : LeftBehind(d, ways) => LeftBehind(d, ways)'
    <3>1. SUFFICES ASSUME NEW d \in objects', LeftBehind(d, ways)
                   PROVE  LeftBehind(d, ways)'
      OBVIOUS
    <3>2. CASE uploads[u].document = d
      BY <2>1, <2>2, <3>2 DEF LeftBehind
    <3>3. CASE uploads[u].document # d
      BY <2>1, <3>1, <3>3, LeftElsewhere
    <3>4. QED
      BY <3>2, <3>3
  <2>4. QED
    BY <2>1, <2>3 DEF Accounted, Recorded
<1>6. QED
  BY <1>2, <1>3, <1>4, <1>5 DEF UploadStep

LEMMA AccountedDelete ==
  ASSUME NEW ways, OwnInv, Accounted(ways), NEW x \in Deleter, DeleteStep(x)
  PROVE  Accounted(ways)'
<1>1. uploads' = uploads
  BY DEF DeleteStep, BeginDelete, RemoveObject, RemoveRow
<1>2. \A d : LeftBehind(d, ways)' <=> LeftBehind(d, ways)
  BY <1>1 DEF LeftBehind
<1>3. ASSUME NEW d \in Document, BeginDelete(x, d) PROVE Accounted(ways)'
  <2>1. /\ deletes'[x].pc # "row"
        /\ \A y \in Deleter \ {x} : deletes'[y] = deletes[y]
        /\ UNCHANGED <<status, objects>>
    BY <1>3 DEF BeginDelete, OwnInv, StoreInv, StoreTypeOK
  <2>2. QED
    BY <1>2, <2>1 DEF Accounted, Recorded
<1>4. ASSUME RemoveObject(x) PROVE Accounted(ways)'
  <2>1. /\ deletes'[x].document = deletes[x].document
        /\ \A y \in Deleter \ {x} : deletes'[y] = deletes[y]
        /\ objects' \subseteq objects
        /\ status' = status
    BY <1>4 DEF RemoveObject, OwnInv, StoreInv, StoreTypeOK
  <2>2. deletes'[x].pc = "row" => deletes[x].document \notin objects'
    BY <1>4 DEF RemoveObject, AfterObject, AbsentObject, TookEffect, OwnInv, StoreInv,
       StoreTypeOK
  <2>3. QED
    BY <1>2, <2>1, <2>2 DEF Accounted, Recorded
<1>5. ASSUME RemoveRow(x) PROVE Accounted(ways)'
  <2>1. /\ deletes[x].pc = "row" /\ deletes'[x].pc # "row"
        /\ \A y \in Deleter \ {x} : deletes'[y] = deletes[y]
        /\ objects' = objects
        /\ \A d \in Document \ {deletes[x].document} : status'[d] = status[d]
    BY <1>5 DEF RemoveRow, RowRemoved, OwnInv, StoreInv, StoreTypeOK
  <2>2. objects \subseteq Document
    BY DEF OwnInv, StoreInv, StoreTypeOK
  <2>3. QED
    BY <1>2, <2>1, <2>2 DEF Accounted, Recorded
<1>6. QED
  BY <1>3, <1>4, <1>5 DEF DeleteStep

LEMMA AccountedStep ==
  ASSUME NEW ways, Leaves(ways), OwnInv, Accounted(ways), [StoreNext]_storeVars
  PROVE  Accounted(ways)'
<1>1. CASE CrashStore
  <2>1. /\ "lost" \in ways
        /\ ways \cap UploadInFlight \subseteq {"insert", "compensate"}
    BY DEF Leaves, NotCompleted, Unfinished, UploadInFlight
  <2>2. \A d : LeftBehind(d, ways) => LeftBehind(d, ways)'
    BY <1>1, <2>1, CrashEffect DEF LeftBehind, OwnInv
  <2>3. \A x \in Deleter : deletes'[x].pc # "row"
    BY <1>1, CrashEffect DEF OwnInv, DeleteInFlight
  <2>4. QED
    BY <1>1, <2>2, <2>3, CrashEffect DEF Accounted, Recorded, OwnInv
<1>2. CASE UNCHANGED storeVars
  BY <1>2 DEF Accounted, LeftBehind, Recorded, storeVars
<1>3. ASSUME NEW u \in Uploader, UploadStep(u) PROVE Accounted(ways)'
  BY <1>3, AccountedUpload
<1>4. ASSUME NEW x \in Deleter, DeleteStep(x) PROVE Accounted(ways)'
  BY <1>4, AccountedDelete
<1>5. QED
  BY <1>1, <1>2, <1>3, <1>4 DEF StoreNext

LEMMA AccountedInit == ASSUME NEW ways PROVE StoreInit => Accounted(ways)
BY StoreAssumption DEF StoreAssumption, StoreInit, Accounted, Recorded, NewDelete

\* Whatever fails or restarts, bytes that no row records are those of an upload
\* that did not complete: a delete never leaves any.
THEOREM DeletesNeverOrphan == StoreSpec => []RemovalNeverOrphans
<1>1. Leaves(NotCompleted)
  BY DEF Leaves
<1>2. OwnInv /\ Accounted(NotCompleted) => RemovalNeverOrphans
  BY DEF Accounted, LeftBehind, RemovalNeverOrphans, NotCompleted, Unfinished
<1>3. OwnInv /\ Accounted(NotCompleted) /\ [StoreNext]_storeVars => Accounted(NotCompleted)'
  BY <1>1, AccountedStep
<1>4. StoreInit => Accounted(NotCompleted)
  BY AccountedInit
<1>5. QED
  BY <1>2, <1>3, <1>4, OwnInit, OwnStep, PTL DEF StoreSpec

\* When the bucket never loses the answer to a write and never refuses to take
\* an object back, only uploads under way, or cut by a restart, have bytes
\* without a row.
THEOREM CompensationIsEnough == StorageAnswers => (StoreSpec => []NoOrphanBytes)
<1>. SUFFICES ASSUME StorageAnswers PROVE StoreSpec => []NoOrphanBytes
  OBVIOUS
<1>1. Leaves(Unfinished)
  BY DEF Leaves
<1>2. OwnInv /\ Accounted(Unfinished) => NoOrphanBytes
  BY DEF Accounted, LeftBehind, NoOrphanBytes, Unfinished
<1>3. OwnInv /\ Accounted(Unfinished) /\ [StoreNext]_storeVars => Accounted(Unfinished)'
  BY <1>1, AccountedStep
<1>4. StoreInit => Accounted(Unfinished)
  BY AccountedInit
<1>5. QED
  BY <1>2, <1>3, <1>4, OwnInit, OwnStep, PTL DEF StoreSpec

-----------------------------------------------------------------------------
(* Rows keep their bytes, as long as no answer to an insert is lost: then   *)
(* the handler that compensates is right that there is no row.              *)

InsertAnswers == "insert" \notin MayLose

Aimed(d) == \E x \in Deleter : deletes[x].document = d

BytesInv ==
  /\ CompensatesOnlyWithoutRow
  /\ RowHasBytes
  /\ \A u \in Uploader : uploads[u].pc = "insert" =>
       uploads[u].document \in objects \/ Aimed(uploads[u].document)

\* A delete goes for a document once and for all.
LEMMA AimedStays ==
  ASSUME OwnInv, [StoreNext]_storeVars, NEW d \in Document, Aimed(d)
  PROVE  Aimed(d)'
<1>. USE StoreAssumption DEF StoreAssumption
<1>1. PICK x \in Deleter : deletes[x].document = d
  BY DEF Aimed
<1>2. deletes[x].pc # "idle"
  BY <1>1 DEF OwnInv, CallsCarry
<1>3. deletes'[x].document = d
  <2>1. ASSUME NEW y \in Deleter, DeleteStep(y) PROVE deletes'[x].document = d
    <3>1. CASE y = x
      BY <1>1, <1>2, <2>1, <3>1 DEF DeleteStep, BeginDelete, RemoveObject, RemoveRow, OwnInv,
         StoreInv, StoreTypeOK
    <3>2. CASE y # x
      BY <1>1, <2>1, <3>2 DEF DeleteStep, BeginDelete, RemoveObject, RemoveRow, OwnInv,
         StoreInv, StoreTypeOK
    <3>3. QED
      BY <3>1, <3>2
  <2>2. CASE CrashStore
    BY <1>1, <2>2, CrashEffect DEF OwnInv
  <2>3. CASE deletes' = deletes
    BY <1>1, <2>3
  <2>4. QED
    BY <2>1, <2>2, <2>3 DEF StoreNext, UploadStep, BeginUpload, FindByChecksum, WriteObject,
       CreateRow, Compensate, storeVars
<1>4. QED
  BY <1>3 DEF Aimed

LEMMA BytesUpload ==
  ASSUME InsertAnswers, OwnInv, BytesInv, [StoreNext]_storeVars,
         NEW u \in Uploader, UploadStep(u)
  PROVE  BytesInv'
<1>. USE StoreAssumption DEF StoreAssumption
<1>0. /\ deletes' = deletes
      /\ \A d : Aimed(d)' <=> Aimed(d)
  BY DEF UploadStep, BeginUpload, FindByChecksum, WriteObject, CreateRow, Compensate, Aimed
<1>1. ASSUME (\E c \in Content : BeginUpload(u, c)) \/ FindByChecksum(u)
      PROVE  BytesInv'
  <2>1. /\ uploads'[u].pc \notin {"insert", "compensate"}
        /\ \A v \in Uploader \ {u} : uploads'[v] = uploads[v]
        /\ UNCHANGED <<status, objects>>
    <3>1. ASSUME NEW c \in Content, BeginUpload(u, c)
          PROVE  uploads'[u].pc \in {"find", "rejected"}
      <4>1. PICK p \in {"find", "rejected"} :
              uploads' = [uploads EXCEPT ![u].pc = p, ![u].content = c]
        BY <3>1 DEF BeginUpload
      <4>2. QED
        BY <4>1 DEF OwnInv, StoreInv, StoreTypeOK
    <3>2. ASSUME FindByChecksum(u)
          PROVE  uploads'[u].pc \in {"error", "duplicate", "write"}
      BY <3>2 DEF OwnInv, StoreInv, StoreTypeOK, FindByChecksum
    <3>3. \A v \in Uploader \ {u} : uploads'[v] = uploads[v]
      BY <1>1 DEF OwnInv, StoreInv, StoreTypeOK, BeginUpload, FindByChecksum
    <3>4. UNCHANGED <<status, objects>>
      BY <1>1 DEF BeginUpload, FindByChecksum
    <3>5. QED
      BY <1>1, <3>1, <3>2, <3>3, <3>4
  <2>2. QED
    BY <1>0, <2>1 DEF BytesInv, CompensatesOnlyWithoutRow, RowHasBytes, Recorded
<1>2. ASSUME WriteObject(u) PROVE BytesInv'
  <2>1. /\ uploads'[u].pc \in {"insert", "error"}
        /\ uploads'[u].document = uploads[u].document
        /\ uploads'[u].pc = "insert" => uploads[u].document \in objects'
        /\ \A v \in Uploader \ {u} : uploads'[v] = uploads[v]
        /\ objects \subseteq objects'
        /\ status' = status
    BY <1>2 DEF OwnInv, StoreInv, StoreTypeOK, WriteObject, TookEffect
  <2>2. QED
    BY <1>0, <2>1 DEF BytesInv, CompensatesOnlyWithoutRow, RowHasBytes, Recorded
<1>3. ASSUME CreateRow(u) PROVE BytesInv'
  <2>1. /\ uploads[u].pc = "insert"
        /\ uploads'[u].pc \in {"created", "compensate"}
        /\ uploads'[u].document = uploads[u].document
        /\ \A v \in Uploader \ {u} : uploads'[v] = uploads[v]
        /\ objects' = objects
    BY <1>3 DEF OwnInv, StoreInv, StoreTypeOK, CreateRow
  <2>2. /\ uploads[u].document \in Document
        /\ ~Recorded(uploads[u].document)
        /\ uploads[u].document \in objects \/ Aimed(uploads[u].document)
    BY <2>1 DEF OwnInv, WritingIsNew, BytesInv, StoreInv, StoreCallsBound
  <2>3. /\ uploads'[u].pc = "compensate" => status' = status
        /\ \A d \in Document : d # uploads[u].document => status'[d] = status[d]
    BY <1>3 DEF OwnInv, StoreInv, StoreTypeOK, CreateRow, Answers, TookEffect, InsertAnswers
  <2>4. CompensatesOnlyWithoutRow'
    <3>1. SUFFICES ASSUME NEW v \in Uploader, uploads'[v].pc = "compensate"
                   PROVE  status'[uploads'[v].document] = "absent"
      BY DEF CompensatesOnlyWithoutRow, Recorded
    <3>2. CASE v = u
      BY <2>1, <2>2, <2>3, <3>1, <3>2 DEF Recorded
    <3>3. CASE v # u
      <4>1. uploads'[v] = uploads[v] /\ uploads[v].document \in Document
        BY <2>1, <3>1, <3>3 DEF OwnInv, StoreInv, StoreCallsBound
      <4>2. uploads[v].document # uploads[u].document
        BY <2>2, <3>3, <4>1 DEF OwnInv, IdsAreOwned
      <4>3. QED
        BY <2>3, <3>1, <4>1, <4>2 DEF BytesInv, CompensatesOnlyWithoutRow, Recorded
    <3>4. QED
      BY <3>2, <3>3
  <2>5. RowHasBytes'
    BY <1>0, <2>1, <2>2, <2>3 DEF BytesInv, RowHasBytes, Recorded, Aimed
  <2>6. QED
    BY <1>0, <2>1, <2>4, <2>5 DEF BytesInv
<1>4. ASSUME Compensate(u) PROVE BytesInv'
  <2>1. /\ uploads[u].pc = "compensate"
        /\ uploads'[u].pc = "error"
        /\ \A v \in Uploader \ {u} : uploads'[v] = uploads[v]
        /\ \A d \in objects : d = uploads[u].document \/ d \in objects'
        /\ status' = status
    BY <1>4 DEF OwnInv, StoreInv, StoreTypeOK, Compensate
  <2>2. ~Recorded(uploads[u].document) /\ uploads[u].document \in Document
    BY <2>1 DEF BytesInv, CompensatesOnlyWithoutRow, OwnInv, StoreInv, StoreCallsBound
  <2>3. \A v \in Uploader : uploads'[v].pc = "insert" =>
          /\ uploads[v].pc = "insert" /\ uploads'[v] = uploads[v]
          /\ uploads[v].document # uploads[u].document
    BY <2>1, <2>2 DEF OwnInv, IdsAreOwned
  <2>4. QED
    BY <1>0, <2>1, <2>2, <2>3 DEF BytesInv, CompensatesOnlyWithoutRow, RowHasBytes, Recorded
<1>5. QED
  BY <1>1, <1>2, <1>3, <1>4 DEF UploadStep

LEMMA BytesDelete ==
  ASSUME OwnInv, BytesInv, [StoreNext]_storeVars, NEW x \in Deleter, DeleteStep(x)
  PROVE  BytesInv'
<1>. USE StoreAssumption DEF StoreAssumption
<1>1. /\ uploads' = uploads
      /\ \A d \in Document : Recorded(d)' => Recorded(d)
  BY DEF DeleteStep, BeginDelete, RemoveObject, RemoveRow, RowRemoved, OwnInv, StoreInv,
     StoreTypeOK, Recorded
<1>2. \A d \in Document : Aimed(d) => Aimed(d)'
  BY AimedStays
<1>3. \A d \in objects : d \in objects' \/ Aimed(d)
  BY DEF DeleteStep, BeginDelete, RemoveObject, RemoveRow, Aimed
<1>4. \A u \in Uploader : uploads[u].pc \in {"insert", "compensate"} =>
        uploads[u].document \in Document
  BY DEF OwnInv, StoreInv, StoreCallsBound
<1>5. RowHasBytes'
  <2>1. \A d \in Document : Recorded(d) => d \in objects \/ Aimed(d)
    BY DEF BytesInv, RowHasBytes, Aimed
  <2>2. \A d \in Document : Recorded(d)' => d \in objects' \/ Aimed(d)'
    BY <1>1, <1>2, <1>3, <2>1
  <2>3. QED
    BY <2>2 DEF RowHasBytes, Aimed
<1>6. CompensatesOnlyWithoutRow'
  BY <1>1, <1>4 DEF BytesInv, CompensatesOnlyWithoutRow
<1>7. QED
  BY <1>1, <1>2, <1>3, <1>4, <1>5, <1>6 DEF BytesInv

LEMMA BytesStep ==
  InsertAnswers /\ OwnInv /\ BytesInv /\ [StoreNext]_storeVars => BytesInv'
<1>. SUFFICES ASSUME InsertAnswers, OwnInv, BytesInv, [StoreNext]_storeVars PROVE BytesInv'
  OBVIOUS
<1>1. ASSUME NEW u \in Uploader, UploadStep(u) PROVE BytesInv'
  BY <1>1, BytesUpload
<1>2. ASSUME NEW x \in Deleter, DeleteStep(x) PROVE BytesInv'
  BY <1>2, BytesDelete
<1>3. CASE CrashStore
  <2>1. /\ UNCHANGED <<status, objects>>
        /\ \A u \in Uploader : uploads'[u].pc \notin {"insert", "compensate"}
        /\ \A x \in Deleter : deletes'[x].document = deletes[x].document
    BY <1>3, CrashEffect DEF OwnInv, UploadInFlight
  <2>2. QED
    BY <2>1 DEF BytesInv, CompensatesOnlyWithoutRow, RowHasBytes, Recorded
<1>4. CASE UNCHANGED storeVars
  BY <1>4 DEF BytesInv, CompensatesOnlyWithoutRow, RowHasBytes, Recorded, Aimed, storeVars
<1>5. QED
  BY <1>1, <1>2, <1>3, <1>4 DEF StoreNext

LEMMA BytesInit == StoreInit => BytesInv
BY StoreAssumption DEF StoreAssumption, StoreInit, BytesInv, CompensatesOnlyWithoutRow,
   RowHasBytes, Recorded, NewUpload

\* As long as no answer to an insert is lost, an upload compensates only for a
\* row that was not written.
THEOREM CompensationIsRight == InsertAnswers => (StoreSpec => []CompensatesOnlyWithoutRow)
<1>. SUFFICES ASSUME InsertAnswers PROVE StoreSpec => []CompensatesOnlyWithoutRow
  OBVIOUS
<1>1. BytesInv => CompensatesOnlyWithoutRow
  BY DEF BytesInv
<1>2. OwnInv /\ BytesInv /\ [StoreNext]_storeVars => BytesInv'
  BY BytesStep
<1>3. QED
  BY <1>1, <1>2, BytesInit, OwnInit, OwnStep, PTL DEF StoreSpec

\* And the bytes of a recorded document disappear only once a delete of that
\* document was begun.
THEOREM RowsKeepBytes == InsertAnswers => (StoreSpec => []RowHasBytes)
<1>. SUFFICES ASSUME InsertAnswers PROVE StoreSpec => []RowHasBytes
  OBVIOUS
<1>1. BytesInv => RowHasBytes
  BY DEF BytesInv
<1>2. OwnInv /\ BytesInv /\ [StoreNext]_storeVars => BytesInv'
  BY BytesStep
<1>3. QED
  BY <1>1, <1>2, BytesInit, OwnInit, OwnStep, PTL DEF StoreSpec
=============================================================================
