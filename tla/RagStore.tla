-------------------------------- MODULE RagStore --------------------------------
(***************************************************************************)
(* The knowledge base of the chat: the vectors PineconeService keeps in a  *)
(* Pinecone index and the rows PineconeBackupService keeps beside them,    *)
(* under requests that index, delete and search documents.                 *)
(*                                                                         *)
(* A vector's id is the hash of source and content, so a document has one  *)
(* vector however often it is indexed; every indexing adds a row.  Each    *)
(* call of Pinecone, of the embedding API or of the database may fail.     *)
(***************************************************************************)
EXTENDS Integers, Sequences, SequencesExt

CONSTANTS
  Readers,   \* requests under way at a time
  Docs,      \* documents: a source with a content
  BatchSize, \* documents embedded at a time
  MaxDocs,   \* bound on documents of a request
  MaxRows,   \* bound on rows of the indexings table
  NoDoc      \* not a document

ASSUME RagAssumption ==
  /\ BatchSize \in Nat \ {0}
  /\ MaxDocs \in Nat
  /\ MaxRows \in Nat
  /\ NoDoc \notin Docs

VARIABLES
  vectors,  \* documents in the index
  rows,     \* rows[n]: the document of indexing n; gone ones are NoDoc
  rag,      \* rag[q]: what request q awaits
  suspect   \* history: documents a failure, a read that missed its vector, a
            \* duplicate or an overlap touched

ragVars == <<vectors, rows, rag, suspect>>

MaxAttempts == 3

Quiet == [stage |-> "idle", docs |-> {}]
RagRequest ==
  {Quiet}
  \cup [stage : {"reach", "embed", "verify", "backup"}, docs : SUBSET Docs,
        list : Seq(Docs), done : 0 .. MaxDocs]
  \cup [stage : {"destroy", "fetch", "delete"}, docs : SUBSET Docs, row : 1 .. MaxRows]
  \cup [stage : {"search"}, docs : {{}}, attempt : 1 .. MaxAttempts]

RagTypeOK ==
  /\ vectors \subseteq Docs
  /\ rows \in Seq(Docs \cup {NoDoc}) /\ Len(rows) \leq MaxRows
  /\ rag \in [Readers -> RagRequest]
  /\ suspect \subseteq Docs

RagInit ==
  /\ vectors = {}
  /\ rows = <<>>
  /\ rag = [q \in Readers |-> Quiet]
  /\ suspect = {}

-----------------------------------------------------------------------------
Backed == {rows[n] : n \in DOMAIN rows} \ {NoDoc}
UnderWay == UNION {rag[q].docs : q \in Readers}

Goes(q, r) == rag' = [rag EXCEPT ![q] = r]
At(q, stage) == Goes(q, [rag[q] EXCEPT !.stage = stage])
Done(q) == Goes(q, Quiet)

Repeated(list) == {d \in ToSet(list) : \E i, j \in DOMAIN list : i # j /\ list[i] = d /\ list[j] = d}

-----------------------------------------------------------------------------
(* POST /indexing *)

\* An empty body or no list is answered 400.
IndexDocuments(q, list) ==
  /\ rag[q] = Quiet
  /\ list # <<>>
  /\ Goes(q, [stage |-> "reach", docs |-> ToSet(list), list |-> list, done |-> 0])
  /\ suspect' = suspect \cup Repeated(list)
                  \cup (ToSet(list) \cap (vectors \cup Backed \cup UnderWay))
  /\ UNCHANGED <<vectors, rows>>

\* getIndex: the configured index, or the only one there is.
ReachIndex(q) ==
  /\ rag[q].stage = "reach"
  /\ At(q, "embed")
  /\ UNCHANGED <<vectors, rows, suspect>>

Batch(r) == {r.list[i] : i \in {j \in DOMAIN r.list : j > r.done /\ j \leq r.done + BatchSize}}

\* One batch is embedded and its vectors are written.
EmbedBatch(q) ==
  /\ rag[q].stage = "embed"
  /\ vectors' = vectors \cup Batch(rag[q])
  /\ At(q, "verify")
  /\ UNCHANGED <<rows, suspect>>

\* The first vector of the batch is read back; what is found is only logged.
VerifyBatch(q) ==
  LET r == rag[q] IN
  /\ r.stage = "verify"
  /\ IF r.done + BatchSize < Len(r.list)
     THEN Goes(q, [r EXCEPT !.stage = "embed", !.done = @ + BatchSize])
     ELSE At(q, "backup")
  /\ UNCHANGED <<vectors, rows, suspect>>

SaveIndexingBackup(q) ==
  /\ rag[q].stage = "backup"
  /\ Len(rows) + Len(rag[q].list) \leq MaxRows
  /\ rows' = rows \o rag[q].list
  /\ Done(q)
  /\ UNCHANGED <<vectors, suspect>>

-----------------------------------------------------------------------------
(* DELETE /indexing/:indexingId *)

\* findByPk finds the row; without one the answer is 404.
FindIndexing(q, n) ==
  /\ rag[q] = Quiet
  /\ n \in DOMAIN rows /\ rows[n] # NoDoc
  /\ Goes(q, [stage |-> "destroy", docs |-> {rows[n]}, row |-> n])
  /\ suspect' = suspect \cup ({rows[n]} \cap UnderWay)
  /\ UNCHANGED <<vectors, rows>>

\* Mutant: the row is kept until its vector is gone, and stays.
KeepIndexing(q) ==
  /\ rag[q].stage = "destroy"
  /\ At(q, "fetch")
  /\ UNCHANGED <<vectors, rows, suspect>>

DestroyIndexing(q) ==
  /\ rag[q].stage = "destroy"
  /\ rows' = [rows EXCEPT ![rag[q].row] = NoDoc]
  /\ At(q, "fetch")
  /\ UNCHANGED <<vectors, suspect>>

\* No vector is found, as the index may be read behind its writes: the answer is
\* 404, with the row gone.
FetchVector(q) ==
  /\ rag[q].stage = "fetch"
  /\ \/ /\ rag[q].docs \subseteq vectors
        /\ At(q, "delete")
        /\ UNCHANGED suspect
     \/ /\ Done(q)
        /\ suspect' = suspect \cup (rag[q].docs \cap vectors)
  /\ UNCHANGED <<vectors, rows>>

DeleteVector(q) ==
  /\ rag[q].stage = "delete"
  /\ vectors' = vectors \ rag[q].docs
  /\ Done(q)
  /\ UNCHANGED <<rows, suspect>>

-----------------------------------------------------------------------------
(* Search *)

Search(q) ==
  /\ rag[q] = Quiet
  /\ Goes(q, [stage |-> "search", docs |-> {}, attempt |-> 1])
  /\ UNCHANGED <<vectors, rows, suspect>>

\* A bad gateway is tried again after a pause.
SearchAgain(q) ==
  /\ rag[q].stage = "search"
  /\ rag[q].attempt < MaxAttempts
  /\ Goes(q, [rag[q] EXCEPT !.attempt = @ + 1])
  /\ UNCHANGED <<vectors, rows, suspect>>

\* With matches, with none after a failure, or with the error of the service.
SearchEnds(q) ==
  /\ rag[q].stage = "search"
  /\ Done(q)
  /\ UNCHANGED <<vectors, rows, suspect>>

\* A call fails and so does the request; what it wrote stays.
CallFails(q) ==
  /\ rag[q].stage \notin {"idle", "search"}
  /\ Done(q)
  /\ suspect' = suspect \cup rag[q].docs
  /\ UNCHANGED <<vectors, rows>>

-----------------------------------------------------------------------------
RagNext ==
  \E q \in Readers :
    \/ \E list \in BoundedSeq(Docs, MaxDocs) : IndexDocuments(q, list)
    \/ ReachIndex(q) \/ EmbedBatch(q) \/ VerifyBatch(q) \/ SaveIndexingBackup(q)
    \/ \E n \in 1 .. MaxRows : FindIndexing(q, n)
    \/ DestroyIndexing(q) \/ FetchVector(q) \/ DeleteVector(q)
    \/ Search(q) \/ SearchAgain(q) \/ SearchEnds(q) \/ CallFails(q)

RagSpec == RagInit /\ [][RagNext]_ragVars

-----------------------------------------------------------------------------
(***************************************************************************)
(* A document no call failed on, no read of the index missed, and that was *)
(* never indexed twice or by two requests at a time, has a row only while  *)
(* it has a vector, and a vector without a row only while a request works  *)
(* on it.  Vectors and rows are written without a transaction: the order   *)
(* of the writes, the vector first when indexing and the row first when    *)
(* deleting, is what keeps it.                                             *)
(***************************************************************************)
VectorsBacked ==
  \A d \in Docs \ suspect :
    /\ d \in Backed => d \in vectors
    /\ d \in vectors => d \in Backed \cup UnderWay
=============================================================================
