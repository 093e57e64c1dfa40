--------------------------- MODULE MCDocumentStore ---------------------------
(* Model checking of DocumentStore, and of the inductive invariant its proofs *)
(* rest on, over small sets of model values.                                  *)
EXTENDS DocumentStoreProof, TLC

CONSTANTS r1, d1, h1      \* the request, document and content taken first
ASSUME r1 \in Requests /\ d1 \in DocIds /\ h1 \in Hashes

VARIABLE part

\* Requests, ids and contents are interchangeable: of those nothing refers to,
\* the first is taken.  (A symmetry set would do, were there no liveness.)
Fresh == SweepIdle /\ blobs = {} /\ torn = {} /\ Rows = {} /\ InFlight = {}
FirstFirst ==
    /\ \A r \in Requests \ {r1} : req[r] = None /\ req'[r] # None => req[r1] # None
    /\ \A d \in DocIds \ {d1} : doc[d] = None /\ doc'[d] # None =>
           d1 \in Rows \/ Remembered(d1)
    /\ Fresh => InFlight' \subseteq {h1}

TwoVersions ==
    \A d \in DocIds : /\ doc'[d] # None => doc'[d].version <= 2
                      /\ \A v \in versions'[d] : v.version_no <= 2

\* Two uploads over two documents: up to three versions, or up to two and
\* against the sweep; or one upload over one document and two versions, against
\* a purge and the sweep.
Bound ==
    CASE part = "uploads" -> FirstFirst /\ UNCHANGED gcVars
      [] part = "sweep" -> FirstFirst /\ TwoVersions /\ UNCHANGED purge
      [] OTHER -> /\ TwoVersions
                  /\ \A r \in Requests \ {r1} : req'[r] = None
                  /\ \A d \in DocIds \ {d1} : doc'[d] = None

MCSpec ==
    /\ part \in {"uploads", "sweep", "purge"} /\ Init
    /\ [][UNCHANGED part /\ Next /\ Bound]_<<part, vars>>
    /\ SweepFairness
=============================================================================
