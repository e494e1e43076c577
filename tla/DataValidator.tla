--------------------------- MODULE DataValidator ---------------------------
(***************************************************************************)
(* Acceptance of data objects (data_validator.js).  An object's hash is of *)
(* its dataset, its content and its origin (source, timestamp, schema) but *)
(* not of who submits it.                                                  *)
(***************************************************************************)
EXTENDS Naturals, Sequences

CONSTANTS Datasets, Contents, Origins, Submitters,
          MaxObjects    \* bound on the submissions that are accepted

ASSUME DataAssumption == "none" \notin Contents /\ MaxObjects \in Nat

ObjectHash == [datasetId : Datasets, contentHash : Contents, origin : Origins]

VARIABLES
  seenObjectHashes,
  datasetLatest,    \* the content of the latest object of a dataset
  acceptances       \* the hash and the submitter of what was accepted, in order

dataVars == <<seenObjectHashes, datasetLatest, acceptances>>

DataInit ==
  /\ seenObjectHashes = {}
  /\ datasetLatest = [d \in Datasets |-> "none"]
  /\ acceptances = << >>

\* Mutant: an update conflicts only with its own origin
ConflictingOrigin(h) ==
  \E seen \in seenObjectHashes :
    seen.origin = h.origin /\ seen.datasetId = h.datasetId /\ seen.contentHash # h.contentHash

Conflicting(h) == datasetLatest[h.datasetId] \notin {"none", h.contentHash}

\* complete: no field is missing and the submitter's kind has what it must bring.
validateDataObject(h, submitter, complete) ==
  /\ Len(acceptances) < MaxObjects
  /\ complete
  /\ h \notin seenObjectHashes
  /\ ~Conflicting(h)
  /\ seenObjectHashes' = seenObjectHashes \cup {h}
  /\ datasetLatest' = [datasetLatest EXCEPT ![h.datasetId] = h.contentHash]
  /\ acceptances' = Append(acceptances, [object |-> h, submitter |-> submitter])

DataNext ==
  \E h \in ObjectHash, submitter \in Submitters, complete \in BOOLEAN :
    validateDataObject(h, submitter, complete)

DataSpec == DataInit /\ [][DataNext]_dataVars
-----------------------------------------------------------------------------
\* Whoever submits them, no two accepted objects are the same, and the objects of
\* a dataset all have one content.
DatasetsNeverChange ==
  \A i, j \in DOMAIN acceptances :
    LET a == acceptances[i].object  b == acceptances[j].object
    IN  /\ a = b => i = j
        /\ a.datasetId = b.datasetId => a.contentHash = b.contentHash
=============================================================================
