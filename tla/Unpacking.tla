------------------------------ MODULE Unpacking ------------------------------
(* The extraction of an archive (ingest/archive.py): which files come out of *)
(* it, its inner archives opened, and where the limits stop it.  Ingest says *)
(* what becomes of them.                                                     *)
EXTENDS Integers, Sequences

CONSTANTS
    Trees,      \* the archives there are, those inside of others included
    Size,       \* [content -> its size]
    MaxEntries, MaxTotal, MaxEntry, MaxDepth    \* the limits of an extraction

(* An archive has a format and entries; an entry is a file, an archive with  *)
(* entries of its own or a broken one.                                       *)
Entry == UNION {{a.entries[i] : i \in DOMAIN a.entries} : a \in Trees}

(* What the code lets one assume of the constants.                           *)
ASSUME UnpackingAssumption ==
    /\ MaxEntries \in Nat /\ MaxTotal \in Nat /\ MaxEntry \in Nat /\ MaxDepth \in Nat
    /\ \A a \in Trees : a.entries \in Seq(Entry)
    /\ \A e \in Entry : /\ Size[e.content] \in Nat
                        /\ e.kind \in {"file", "broken", "archive"}
                        /\ e.kind = "archive" => e.inner \in Trees

-----------------------------------------------------------------------------
(* One counter goes through all levels; `left` is how many of them are left  *)
(* to open: on the last, an archive is a file like any other.                *)

Acc == [n : Nat, total : Nat, out : Seq(Entry), fault : {"none", "bomb", "broken"}]

(* A fault: what an archive in the archive holds is counted anew. *)
FaultCountsAnew(acc, e) == [acc EXCEPT !.n = 1, !.total = Size[e.content]]

(* _Counter.add *)
Add(acc, e) == [acc EXCEPT !.n = @ + 1, !.total = @ + Size[e.content]]
Bomb(acc, e) == acc.n > MaxEntries \/ acc.total > MaxTotal \/ Size[e.content] > MaxEntry

(* Nothing goes on after a fault, and an unsafe name is passed over. *)
PassedOver(acc, e) == acc.fault # "none" \/ ~e.safe

Counted(acc, e) ==
    LET b == Add(acc, e)
    IN  IF PassedOver(acc, e) THEN acc
        ELSE IF Bomb(b, e) THEN [b EXCEPT !.fault = "bomb"] ELSE b

(* What _iter makes of an entry that has been extracted; open is what it     *)
(* makes of the archives inside.                                             *)
Yield(acc, e, left, open) ==
    IF PassedOver(acc, e) THEN acc
    ELSE IF e.kind = "file" \/ left = 0 THEN [acc EXCEPT !.out = Append(@, e)]
    ELSE IF e.kind = "broken" THEN [acc EXCEPT !.fault = "broken"]
    ELSE open[e.inner][acc]

(* What first has become when each of the entries has had its turn.          *)
Through(entries, step, first) ==
    LET at[i \in 0..Len(entries)] ==
            IF i = 0 THEN first ELSE step[entries[i]][at[i - 1]]
    IN  at[Len(entries)]

Counting == [e \in Entry |-> [acc \in Acc |-> Counted(acc, e)]]
Yielding(left, open) == [e \in Entry |-> [acc \in Acc |-> Yield(acc, e, left, open)]]

(* zip, tar and rar: counted and extracted one by one. *)
Streamed(entries, left, open, acc) ==
    Through(entries, [e \in Entry |-> [a \in Acc |-> Yield(Counted(a, e), e, left, open)]],
            acc)

(* 7z: all of it counted before the first is extracted. *)
Sevenz(entries, left, open, acc) ==
    Through(entries, Yielding(left, open), Through(entries, Counting, acc))

Iter(archive, left, open, acc) ==
    IF archive.format = "7z" THEN Sevenz(archive.entries, left, open, acc)
                             ELSE Streamed(archive.entries, left, open, acc)
Unpack[left \in 0..MaxDepth] ==
    [archive \in Trees |-> [acc \in Acc |->
        Iter(archive, left, IF left = 0 THEN <<>> ELSE Unpack[left - 1], acc)]]

Fresh == [n |-> 0, total |-> 0, out |-> <<>>, fault |-> "none"]
Extract(archive) == Unpack[MaxDepth][archive][Fresh]

-----------------------------------------------------------------------------
(* The limits as they are meant: of the archive as a whole, which is what    *)
(* its entries and the archives among them hold, opened down to MaxDepth.    *)

Nothing == [n |-> 0, total |-> 0, fits |-> TRUE]
Plus(x, y) == [n |-> x.n + y.n, total |-> x.total + y.total, fits |-> x.fits /\ y.fits]
One(e) == [n |-> 1, total |-> Size[e.content], fits |-> Size[e.content] <= MaxEntry]

Tally == [n : Nat, total : Nat, fits : BOOLEAN]

Inside(e, left, below) == IF e.kind = "archive" /\ left > 0 THEN below[e.inner] ELSE Nothing
Share(e, left, below) ==
    IF e.safe THEN Plus(One(e), Inside(e, left, below)) ELSE Nothing
Sum(entries, left, below) ==
    Through(entries, [e \in Entry |-> [t \in Tally |-> Plus(t, Share(e, left, below))]], Nothing)
Whole[left \in 0..MaxDepth] ==
    [archive \in Trees |->
        Sum(archive.entries, left, IF left = 0 THEN <<>> ELSE Whole[left - 1])]

WithinLimits(archive) ==
    LET w == Whole[MaxDepth][archive]
    IN  w.n <= MaxEntries /\ w.total <= MaxTotal /\ w.fits
=============================================================================
