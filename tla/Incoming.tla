------------------------------- MODULE Incoming ------------------------------
(* What comes in and is sorted, side by side: tags and the inbox, in the     *)
(* module this one extends, archives on their way in (IN_, with Unpacking    *)
(* for what comes out of them) and the backends of blobs (ST).  They share   *)
(* no state, so a behaviour of this module is one of one of them, chosen at  *)
(* first.                                                                    *)
EXTENDS Tagging, Unpacking

CONSTANTS
    Archives, Extracted(_), Uploads, Ext, Master, Default, Setting, Quota,   \* of IN_
    Keys, CrossDevice                                                            \* of ST

VARIABLES part,
          live, docs, batch, job, upload, stuck,
          obj, active, held, spool, mig, torn, synced

IN_ == INSTANCE Ingest
ST == INSTANCE Storage

invars == <<live, docs, batch, job, upload, stuck>>
stvars == <<obj, active, held, spool, mig, torn, synced>>

(* Tags are tried out on one document with all of Next, and on two documents *)
(* with one tag, set, added and swept (TwoDocuments is a part of Next).      *)
OneDocument == \A d \in Docs \ {1} : document[d].state = "absent"
TwoDocuments ==
    \/ \E d \in Docs : Upload(d)
    \/ \E r \in Requests : Progress(r)
    \/ SweepSelect \/ SweepDelete
    \/ \E r \in Requests, u \in Users, t \in Tags :
          /\ tags \cup UNION {request[p].want : p \in InUse} \subseteq {t}
          /\ \/ \E d \in Docs, want \in SUBSET {t} : ApiSetTags(r, u, d, want)
             \/ \E ds \in SUBSET Docs : BulkTags(r, u, ds, {t})

MCInit == part \in {"document", "documents", "ingest", "storage"} /\ Init /\ IN_!Init /\ ST!Init
MCNext ==
    /\ UNCHANGED part
    /\ \/ part = "document" /\ Next /\ OneDocument' /\ UNCHANGED <<invars, stvars>>
       \/ part = "documents" /\ TwoDocuments /\ UNCHANGED <<invars, stvars>>
       \/ part = "ingest" /\ IN_!Next /\ UNCHANGED <<vars, stvars>>
       \/ part = "storage" /\ ST!Next /\ UNCHANGED <<vars, invars>>
MCSpec == MCInit /\ [][MCNext]_<<part, vars, invars, stvars>>

ASSUME IncomingAssumption ==
    /\ IN_!IngestAssumption /\ ST!StorageAssumption
    /\ \A a \in Archives : a \in Trees /\ Extracted(a) = Extract(a)

(* A batch in processing has a job, unless that was cut short (types as well)*)
ProcessingIsUnderWay == IN_!TypeOK /\ IN_!ProcessingIsUnderWay
(* A finished batch accounts for every file of the archive.                  *)
BatchTellsAll == IN_!BatchTellsAll
(* The limits hold for the archive as a whole, however its entries are       *)
(* nested: what was taken in obeys them, what was refused does not.          *)
LimitsHoldAcrossNesting ==
    batch # None /\ batch.status # "processing" =>
        (batch.status # "failed" <=> WithinLimits(batch.archive))
(* The quota, of what is not in the trash, is outgrown only by a restore or  *)
(* an overtaken check.                                                       *)
QuotaHeldUnlessRaced == IN_!QuotaHeldUnlessRaced
(* What the docs say of the quota and the code does not do.                  *)
QuotaCountsTrash == IN_!QuotaCountsTrash
(* A blob in use is whole on a backend, through uploads and migration (types *)
(* as well).                                                                 *)
BlobsSurviveUnlessTorn == ST!TypeOK /\ ST!BlobsSurviveUnlessTorn
=============================================================================
