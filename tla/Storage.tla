------------------------------- MODULE Storage -------------------------------
(* The blob stores underneath app/storage/blobs.py: the local directory and  *)
(* the S3 bucket (local.py, s3.py), which of them is in use (registry.py),   *)
(* and the tool that copies one to the other (migrate.py) while the program  *)
(* runs.  Which blob the database needs, and when it may go, is the matter   *)
(* of DocumentStore; here a blob that is needed is only to survive whole.    *)
(*                                                                           *)
(* An S3 object appears whole or not at all, and so does what the migration  *)
(* puts into the directory (a temporary file next to it, renamed).  An       *)
(* upload is spooled to the system's temporary directory: if that is another *)
(* file system than the store, _place cannot rename and copies - into the    *)
(* file under its final key.                                                 *)
EXTENDS FiniteSets

CONSTANTS
    Keys,         \* blobs
    Requests,     \* uploads that may be in flight
    CrossDevice,  \* the temporary directory is on another file system
    None

(* What the code lets one assume of the constants.                           *)
StorageAssumption ==
    CrossDevice \in BOOLEAN /\ None \notin {"whole", "cut", "local", "s3"}

VARIABLES
    obj,     \* the objects: [backend -> [key -> "whole", "cut" or None]]
    active,  \* STORAGE_BLOBS, the backend the program uses
    held,    \* the keys some document row refers to
    spool,   \* the uploads
    mig,     \* the run of the migration tool, None if none is under way
    torn,    \* history: the keys a row was given to, or that were migrated,
             \* when they were not whole, or that a second copy wrote over
    synced   \* history: the backend that the last run copied everything to,
             \* if nothing was stored or deleted since it started

vars == <<obj, active, held, spool, mig, torn, synced>>

Backends == {"local", "s3"}
Other(b) == IF b = "local" THEN "s3" ELSE "local"
Idle == [op |-> "none"]

-----------------------------------------------------------------------------
(* One backend. *)

Exists(b, k) == obj[b][k] # None
Stored(b) == {k \in Keys : Exists(b, k)}

Put(b, k, body) == obj' = [obj EXCEPT ![b][k] = body]
Delete(b, k) == Put(b, k, None)

\* What a download of the blob gets from backend b: an object that is not
\* there is answered with 410.
Serve(b, k) == IF Exists(b, k) THEN obj[b][k] ELSE "gone"

\* Whatever the program stores or deletes, a run under way may have missed.
Changed == /\ synced' = None
           /\ mig' = IF mig = None THEN None ELSE [mig EXCEPT !.quiet = FALSE]

-----------------------------------------------------------------------------
(* Uploads: store_stream, and the commit of the row. *)

Copying(k) == {r \in Requests : spool[r].op = "copying" /\ spool[r].key = k}
InUse(k) == \E r \in Requests : spool[r] # Idle /\ spool[r].key = k

\* The blob is there: nothing is written.
StoreKnown(r, k) ==
    /\ spool[r] = Idle /\ Exists(active, k)
    /\ spool' = [spool EXCEPT ![r] = [op |-> "stored", key |-> k]]
    /\ UNCHANGED <<obj, active, held, mig, torn, synced>>

StoreAtOnce(r, k) ==
    /\ spool[r] = Idle /\ ~Exists(active, k)
    /\ active = "s3" \/ ~CrossDevice
    /\ Put(active, k, "whole")
    /\ spool' = [spool EXCEPT ![r] = [op |-> "stored", key |-> k]]
    /\ Changed
    /\ UNCHANGED <<active, held, torn>>

\* The look and the copy are apart: what another upload of the same content
\* placed meanwhile is truncated and written again.
StoreLooks(r, k) ==
    /\ spool[r] = Idle /\ ~Exists(active, k)
    /\ active = "local" /\ CrossDevice
    /\ spool' = [spool EXCEPT ![r] = [op |-> "looked", key |-> k]]
    /\ UNCHANGED <<obj, active, held, mig, torn, synced>>

Place(r) ==
    /\ spool[r].op = "looked"
    /\ torn' = IF Exists(active, spool[r].key) THEN torn \cup {spool[r].key} ELSE torn
    /\ Put(active, spool[r].key, "cut")
    /\ spool' = [spool EXCEPT ![r] = [op |-> "copying", key |-> @.key, spoilt |-> FALSE]]
    /\ Changed
    /\ UNCHANGED <<active, held>>

\* Another copy into the file goes on, or ended halfway, or the file was
\* replaced by the migration (and is whole); if it was deleted, the copy fails.
Placed(r) ==
    /\ spool[r].op = "copying"
    /\ LET k == spool[r].key
       IN  IF Exists(active, k)
           THEN /\ \E body \in (IF Copying(k) # {r} THEN {obj[active][k]}
                                ELSE IF spool[r].spoilt THEN {obj[active][k], "whole"}
                                ELSE {"whole"}) :
                      Put(active, k, body)
                /\ spool' = [spool EXCEPT ![r] = [op |-> "stored", key |-> k]]
           ELSE spool' = [spool EXCEPT ![r] = Idle] /\ UNCHANGED obj
    /\ Changed
    /\ UNCHANGED <<active, held, torn>>

\* The row is committed ...
Commit(r) ==
    /\ spool[r].op = "stored"
    /\ held' = held \cup {spool[r].key}
    /\ torn' = IF obj[active][spool[r].key] = "cut" THEN torn \cup {spool[r].key} ELSE torn
    /\ spool' = [spool EXCEPT ![r] = Idle]
    /\ UNCHANGED <<obj, active, mig, synced>>

\* ... or the process dies, and what it had placed stays as it is.
Dies(r) ==
    /\ spool[r] # Idle
    /\ spool' = [x \in Requests |->
                   IF x = r THEN Idle
                   ELSE IF r \in Copying(spool[r].key) /\ x \in Copying(spool[r].key)
                   THEN [spool[x] EXCEPT !.spoilt = TRUE] ELSE spool[x]]
    /\ UNCHANGED <<obj, active, held, mig, torn, synced>>

\* The last row goes and the blob with it, or the sweep finds it unneeded.
DeleteBlob(k) ==
    /\ Exists(active, k) \/ k \in held
    /\ ~InUse(k)
    /\ held' = held \ {k}
    /\ Delete(active, k)
    /\ torn' = IF Exists(Other(active), k) THEN torn ELSE torn \ {k}
    /\ Changed
    /\ UNCHANGED <<active, spool>>

-----------------------------------------------------------------------------
(* migrate.run: each key of the source, in no order; one at a time.          *)

Migrate(to, delete_source) ==
    /\ mig = None
    /\ mig' = [to |-> to, delete |-> delete_source, left |-> Stored(Other(to)),
               copied |-> None, quiet |-> active # to]
    /\ UNCHANGED <<obj, active, held, spool, torn, synced>>

\* A fault: a key that is at the destination already is deleted at the source.
FaultDeletesSkipped(k) == [key |-> k, body |-> obj[mig.to][k]]

\* What is skipped stays at the source as well.
AfterSkip(k) == None

Skip(k) ==
    /\ mig # None /\ mig.copied = None /\ k \in mig.left
    /\ Exists(mig.to, k)
    /\ mig' = [mig EXCEPT !.left = @ \ {k}, !.copied = AfterSkip(k)]
    /\ UNCHANGED <<obj, active, held, spool, torn, synced>>

\* What is read is what is written; a source that is gone by now ends the run.
CopyKey(k) ==
    /\ mig # None /\ mig.copied = None /\ k \in mig.left
    /\ ~Exists(mig.to, k)
    /\ IF Exists(Other(mig.to), k)
       THEN LET body == obj[Other(mig.to)][k]
            IN  /\ Put(mig.to, k, body)
                /\ mig' = [mig EXCEPT !.left = @ \ {k}, !.copied = [key |-> k, body |-> body]]
                /\ torn' = IF body = "whole" THEN torn ELSE torn \cup {k}
                /\ synced' = None
       ELSE mig' = None /\ UNCHANGED <<obj, torn, synced>>
    /\ UNCHANGED <<active, held, spool>>

\* dest.size(key) == written: a file that is cut has another size.
Verified(b, k, written) == obj[b][k] = written

DeleteSource ==
    /\ mig # None /\ mig.copied # None
    /\ LET k == mig.copied.key
       IN  IF mig.delete /\ Verified(mig.to, k, mig.copied.body)
           THEN Delete(Other(mig.to), k) ELSE UNCHANGED obj
    /\ mig' = [mig EXCEPT !.copied = None]
    /\ UNCHANGED <<active, held, spool, torn, synced>>

Finish ==
    /\ mig # None /\ mig.copied = None /\ mig.left = {}
    /\ mig' = None
    /\ synced' = IF mig.quiet THEN mig.to ELSE None
    /\ UNCHANGED <<obj, active, held, spool, torn>>

\* The tool dies anywhere; it is to be run again.
Interrupted ==
    /\ mig # None
    /\ mig' = None
    /\ UNCHANGED <<obj, active, held, spool, torn, synced>>

\* The setting is flipped, which restarts the program.
Flip ==
    /\ mig = None
    /\ active' = Other(active)
    /\ spool' = [r \in Requests |-> Idle]
    /\ synced' = IF synced = Other(active) THEN synced ELSE None
    /\ UNCHANGED <<obj, held, mig, torn>>

Init ==
    /\ obj = [b \in Backends |-> [k \in Keys |-> None]]
    /\ active = "local"
    /\ held = {}
    /\ spool = [r \in Requests |-> Idle]
    /\ mig = None
    /\ torn = {}
    /\ synced = None

Next ==
    \/ \E r \in Requests, k \in Keys : StoreKnown(r, k) \/ StoreAtOnce(r, k) \/ StoreLooks(r, k)
    \/ \E r \in Requests : Place(r) \/ Placed(r) \/ Commit(r) \/ Dies(r)
    \/ \E k \in Keys : DeleteBlob(k) \/ Skip(k) \/ CopyKey(k)
    \/ \E to \in Backends, delete_source \in BOOLEAN : Migrate(to, delete_source)
    \/ DeleteSource \/ Finish \/ Interrupted \/ Flip

Spec == Init /\ [][Next]_vars

-----------------------------------------------------------------------------
TypeOK ==
    /\ obj \in [Backends -> [Keys -> {"whole", "cut", None}]]
    /\ active \in Backends /\ synced \in Backends \cup {None}
    /\ held \subseteq Keys /\ torn \subseteq Keys
    /\ \A r \in Requests : spool[r].op \in {"none", "looked", "copying", "stored"}
    /\ mig # None => mig.left \subseteq Keys

(* A blob some document refers to is whole on one of the two backends,       *)
(* however uploads, deletions, dying processes, flips of the setting and     *)
(* runs of the migration, with --delete-source or not, interrupted or        *)
(* repeated, interleave; and the new backend has one, if not always a whole  *)
(* one (Skip looks at the key alone), after a run that nothing disturbed.    *)
(* Lost is only what was cut already when its row was committed or when the  *)
(* migration took it, or was written over by an upload that had looked       *)
(* before it was there.                                                      *)
BlobsSurviveUnlessTorn ==
    \A k \in held \ torn :
        /\ \E b \in Backends : obj[b][k] = "whole"
        /\ synced # None => Serve(synced, k) # "gone"
=============================================================================
