---------------------------- MODULE ProcessingProof ----------------------------
(* Proofs about Processing, for every set of documents, files, requests and  *)
(* workers: the types, that "sent to recognition" is owed an answer, and     *)
(* that the search vector is made of the title and the text.                 *)
EXTENDS Processing, TLAPS

-----------------------------------------------------------------------------
(* The invariant. *)

\* What a request of each kind carries.
WellFormed(q) ==
    /\ q.op \in {"upload", "title"} => q.title \in Titles
    /\ q.op \in {"upload", "replace"} => q.content \in Contents
    /\ q.op \in {"title", "index"} => q.loaded \in Loaded /\ ~q.pending
    /\ q.op = "ocr" => ~q.index

FormedRequests == \A r \in Requests : Asked(r) => WellFormed(request[r])

\* Who has flushed a change to a row holds it, and nobody purges it.
Holds(q) == q.op = "replace" \/ (q.op = "ocr" /\ q.pending)
Holding == \A r \in Requests : Asked(r) /\ Holds(request[r]) => Present(request[r].doc)

\* A document that is being uploaded is nobody else's yet.
Nobody(d) ==
    /\ \A r \in Requests : Asked(r) => request[r].doc # d
    /\ \A w \in Workers : job[w] # None => job[w].doc # d
Uploading ==
    \A r \in Requests : Asked(r) /\ request[r].op = "upload" =>
        /\ ~Present(request[r].doc)
        /\ \A p \in Requests : Asked(p) /\ request[p].doc = request[r].doc => p = r
        /\ \A w \in Workers : job[w] # None => job[w].doc # request[r].doc

\* What a session saw as indexed still is, if it is there.
Stays(d, loaded) ==
    Present(d) /\ loaded.index_status = "done" => row[d].index_status = "done"
Seen ==
    /\ \A r \in Requests : Asked(r) /\ request[r].op \in {"title", "index"} =>
           Stays(request[r].doc, request[r].loaded)
    /\ \A w \in Workers : job[w] # None => Stays(job[w].doc, job[w].loaded)

\* An answer is owed already while the request that will say so is open.
Pend(d) ==
    \/ Present(d) /\ row[d].ocr_status = "pending"
    \/ \E r \in Requests : Asked(r) /\ request[r].doc = d /\ request[r].pending
Owed(d) ==
    \/ d \in stranded
    \/ queue[d] > 0
    \/ \E w \in Workers : job[w] # None /\ job[w].doc = d
PendingOwed == \A d \in Docs : Pend(d) => Owed(d)

IInv ==
    /\ TypeOK /\ FormedRequests /\ Holding /\ Uploading /\ Seen
    /\ PendingOwed /\ VectorIsCurrent

LEMMA Init_IInv == Init => IInv
<1>. SUFFICES ASSUME Init PROVE IInv
    OBVIOUS
<1>1. \A d \in Docs : ~Present(d)
    BY DEF Init, Present
<1>2. \A r \in Requests : ~Asked(r)
    BY DEF Init, Asked
<1>3. \A w \in Workers : job[w] = None
    BY DEF Init
<1>4. TypeOK
    <2>1. queue \in [Docs -> 0 .. MaxQueue]
        BY MaxQueueAssumption DEF Init
    <2>2. /\ row \in [Docs -> Row \cup {None}] /\ request \in [Requests -> Request \cup {None}]
          /\ job \in [Workers -> Job \cup {None}]
          /\ stranded \subseteq Docs /\ behind \subseteq Docs /\ raced \subseteq Docs
        BY DEF Init
    <2>3. QED
        BY <1>1, <2>1, <2>2 DEF TypeOK
<1>5. FormedRequests /\ Holding /\ Uploading /\ Seen
    BY <1>2, <1>3 DEF FormedRequests, Holding, Uploading, Seen
<1>6. PendingOwed /\ VectorIsCurrent
    BY <1>1, <1>2 DEF PendingOwed, Pend, VectorIsCurrent
<1>7. QED
    BY <1>4, <1>5, <1>6 DEF IInv

LEMMA TypesAre ==
    ASSUME TypeOK
    PROVE  /\ \A d \in Docs : Present(d) => row[d] \in Row
           /\ \A r \in Requests : Asked(r) => request[r] \in Request /\ request[r].doc \in Docs
           /\ \A w \in Workers : job[w] # None => job[w] \in Job /\ job[w].doc \in Docs
                                                  /\ job[w].loaded \in Loaded
           /\ \A d \in Docs : queue[d] \in 0 .. MaxQueue
           /\ MaxQueue \in Nat
<1>1. \A d \in Docs : Present(d) => row[d] \in Row
    BY DEF TypeOK, Present
<1>2. \A r \in Requests : Asked(r) => request[r] \in Request /\ request[r].doc \in Docs
    BY DEF TypeOK, Asked, Request
<1>3. \A w \in Workers : job[w] # None => job[w] \in Job /\ job[w].doc \in Docs
                                          /\ job[w].loaded \in Loaded
    BY DEF TypeOK, Job
<1>4. \A d \in Docs : queue[d] \in 0 .. MaxQueue
    BY DEF TypeOK
<1>5. QED
    BY <1>1, <1>2, <1>3, <1>4, MaxQueueAssumption

-----------------------------------------------------------------------------
(* One row is written. *)

LEMMA RowWritten ==
    ASSUME TypeOK, NEW d \in Docs, NEW x \in Row \cup {None}, row' = [row EXCEPT ![d] = x]
    PROVE  /\ row' \in [Docs -> Row \cup {None}] /\ row'[d] = x
           /\ \A c \in Docs \ {d} : row'[c] = row[c]
           /\ Present(d)' <=> x # None
           /\ \A c \in Docs \ {d} : Present(c)' <=> Present(c)
BY DEF TypeOK, Present

\* The vector is made of what is written, and so is the row's record of it; the
\* other rows keep theirs.
LEMMA VectorsStay ==
    ASSUME TypeOK, VectorIsCurrent,
           NEW d \in Docs, NEW x \in Row \cup {None}, row' = [row EXCEPT ![d] = x],
           \A c \in Docs \ {d} : (c \in raced <=> c \in raced') /\ (c \in behind <=> c \in behind'),
           x # None => (x.index_status = "done" <=> x.search_tsv # None),
           x # None /\ x.index_status = "done" =>
               /\ d \notin raced' => x.search_tsv.title = x.title
               /\ d \notin behind' => x.search_tsv.text = x.text,
           queue' \in [Docs -> 0 .. MaxQueue], request' \in [Requests -> Request \cup {None}],
           job' \in [Workers -> Job \cup {None}],
           stranded' \subseteq Docs, behind' \subseteq Docs, raced' \subseteq Docs
    PROVE  TypeOK' /\ VectorIsCurrent'
<1>1. /\ row' \in [Docs -> Row \cup {None}] /\ row'[d] = x
      /\ \A c \in Docs \ {d} : row'[c] = row[c]
      /\ Present(d)' <=> x # None
      /\ \A c \in Docs \ {d} : Present(c)' <=> Present(c)
    BY RowWritten
<1>2. ASSUME NEW c \in Docs, Present(c)'
      PROVE  row'[c].index_status = "done" <=> row'[c].search_tsv # None
    BY <1>1, <1>2 DEF TypeOK
<1>3. TypeOK'
    BY <1>1, <1>2 DEF TypeOK
<1>4. ASSUME NEW c \in Docs, Present(c)', row'[c].index_status = "done"
      PROVE  /\ c \notin raced' => row'[c].search_tsv.title = row'[c].title
             /\ c \notin behind' => row'[c].search_tsv.text = row'[c].text
    BY <1>1, <1>4 DEF VectorIsCurrent
<1>5. VectorIsCurrent'
    BY <1>4 DEF VectorIsCurrent
<1>6. QED
    BY <1>3, <1>5

\* index_document: whatever the session took the row to be, the vector is that
\* of the row's title, and of its text unless the session parsed one.
LEMMA Indexed ==
    ASSUME NEW x \in Row, NEW s, NEW reparse \in BOOLEAN,
           s.content \in Contents, s.text_source \in TextSource,
           s.index_status \in {"none", "done"},
           s.index_status = "done" => x.index_status = "done"
    PROVE  LET y == IndexDocument(x, s, reparse) IN
           /\ y \in Row /\ y.index_status = "done" /\ y.search_tsv # None
           /\ y.search_tsv.title = y.title
           /\ ~Parses(s, reparse) => y.search_tsv.text = y.text
           /\ y.ocr_status = x.ocr_status
<1> DEFINE body == Parsed(s.content)
           source == IF body # None THEN "parsed" ELSE "none"
           tsv == [title |-> x.title, text |-> x.text]
           vector == [x EXCEPT !.search_tsv = tsv]
           from == IF source # s.text_source THEN source ELSE x.text_source
           parsed == IF Parses(s, reparse)
                     THEN [vector EXCEPT !.text = body, !.text_source = from]
                     ELSE vector
           status == IF s.index_status # "done" THEN "done" ELSE x.index_status
           y == [parsed EXCEPT !.index_status = status]
<1>1. body \in Text /\ from \in TextSource
    BY DEF Parsed, Text, TextSource, Row
<1>2. tsv \in Vector /\ tsv # None /\ tsv.title = x.title /\ tsv.text = x.text
    <2>1. tsv \in Vector /\ tsv.title = x.title /\ tsv.text = x.text
        BY DEF Row, Vector
    <2>2. QED
        BY <2>1, NoneAssumption
<1>3. status = "done"
    OBVIOUS
<1>4. y = IndexDocument(x, s, reparse)
    <2>1. vector.text_source = x.text_source /\ parsed.index_status = x.index_status
        BY DEF Row
    <2>2. QED
        BY <2>1 DEF IndexDocument
<1> HIDE DEF body, source, tsv, from, status
<1>5. /\ vector \in Row /\ vector.search_tsv = tsv /\ vector.title = x.title
      /\ vector.text = x.text /\ vector.ocr_status = x.ocr_status
    BY <1>2 DEF Row
<1> HIDE DEF vector
<1>6. /\ parsed \in Row /\ parsed.search_tsv = tsv /\ parsed.title = x.title
      /\ ~Parses(s, reparse) => parsed.text = x.text
      /\ parsed.ocr_status = x.ocr_status
    BY <1>1, <1>5 DEF Row
<1> HIDE DEF parsed
<1>7. /\ y \in Row /\ y.index_status = "done" /\ y.search_tsv = tsv /\ y.title = x.title
      /\ ~Parses(s, reparse) => y.text = x.text
      /\ y.ocr_status = x.ocr_status
    BY <1>3, <1>6 DEF Row
<1> HIDE DEF y
<1>8. QED
    BY <1>2, <1>4, <1>7

LEMMA Behind ==
    ASSUME TypeOK, NEW d \in Docs, NEW s, NEW reparse
    PROVE  /\ BehindAfter(d, s, reparse) \subseteq Docs
           /\ \A c \in Docs \ {d} : c \in behind <=> c \in BehindAfter(d, s, reparse)
           /\ d \notin BehindAfter(d, s, reparse) => ~Parses(s, reparse)
BY DEF BehindAfter, TypeOK

-----------------------------------------------------------------------------
(* Who is at work. *)

\* Requests and jobs end; a document that was not there is there now only where
\* nobody else is at work on it.
LEMMA SessionsStay ==
    ASSUME IInv,
           \A r \in Requests : request'[r] # None => request'[r] = request[r],
           \A w \in Workers : job'[w] # None => job'[w] = job[w],
           \A d \in Docs : Present(d) => Present(d)' \/ Unlocked(d),
           \A d \in Docs : Present(d)' =>
               \/ Present(d) /\ (row[d].index_status = "done" => row'[d].index_status = "done")
               \/ Nobody(d)'
    PROVE  FormedRequests' /\ Holding' /\ Uploading' /\ Seen'
<1>1. \A r \in Requests : Asked(r)' => Asked(r) /\ request'[r] = request[r]
                                       /\ request[r].doc \in Docs
    BY TypesAre DEF Asked, IInv
<1>2. \A w \in Workers : job'[w] # None => job[w] # None /\ job'[w] = job[w]
                                           /\ job[w].doc \in Docs
    BY TypesAre DEF IInv
<1>3. FormedRequests'
    BY <1>1 DEF FormedRequests, IInv
<1>4. Holding'
    <2>. SUFFICES ASSUME NEW r \in Requests, Asked(r)', Holds(request'[r])
                  PROVE  Present(request[r].doc)'
        BY DEF Holding, Holds
    <2>1. PICK d \in Docs : d = request[r].doc
        BY <1>1
    <2>2. Asked(r) /\ Holds(request[r]) /\ request'[r].doc = d
        BY <1>1, <2>1
    <2>3. Present(d) /\ ~Unlocked(d)
        BY <2>1, <2>2 DEF IInv, Holding, Holds, Unlocked
    <2>4. Present(d)'
        BY <2>3
    <2>5. QED
        BY <2>2, <2>4 DEF Present
<1>5. Uploading'
    <2>. SUFFICES ASSUME NEW r \in Requests, Asked(r)', request'[r].op = "upload"
                  PROVE  /\ ~Present(request[r].doc)'
                         /\ \A p \in Requests : Asked(p)' /\ request'[p].doc = request'[r].doc
                                => p = r
                         /\ \A w \in Workers : job'[w] # None => job'[w].doc # request'[r].doc
        BY DEF Uploading
    <2>1. PICK d \in Docs : d = request[r].doc
        BY <1>1
    <2>2. Asked(r) /\ request'[r] = request[r] /\ request[r].op = "upload"
        BY <1>1
    <2>3. /\ ~Present(d)
          /\ \A p \in Requests : Asked(p) /\ request[p].doc = d => p = r
          /\ \A w \in Workers : job[w] # None => job[w].doc # d
        BY <2>1, <2>2 DEF IInv, Uploading
    <2>4. ~Present(d)'
        <3>1. ~Nobody(d)'
            BY <2>1, <2>2 DEF Nobody
        <3>2. QED
            BY <2>3, <3>1
    <2>5. ~Present(request[r].doc)'
        BY <2>1, <2>2, <2>4 DEF Present
    <2>6. QED
        BY <1>1, <1>2, <2>1, <2>2, <2>3, <2>5
<1>6. Seen'
    <2>1. ASSUME NEW r \in Requests, Asked(r)', request'[r].op \in {"title", "index"}
          PROVE  Stays(request[r].doc, request[r].loaded)'
        <3>1. PICK d \in Docs : d = request[r].doc
            BY <1>1, <2>1
        <3>2. Asked(r) /\ request'[r] = request[r] /\ Stays(d, request[r].loaded)
            BY <1>1, <2>1, <3>1 DEF IInv, Seen
        <3>3. ~Nobody(d)'
            BY <2>1, <3>1, <3>2 DEF Nobody
        <3>4. Present(d)' => Present(d) /\ (row[d].index_status = "done" => row'[d].index_status = "done")
            BY <3>3
        <3>5. QED
            BY <3>1, <3>2, <3>4 DEF Stays, Present
    <2>2. ASSUME NEW w \in Workers, job'[w] # None
          PROVE  Stays(job[w].doc, job[w].loaded)'
        <3>1. PICK d \in Docs : d = job[w].doc
            BY <1>2, <2>2
        <3>2. job[w] # None /\ job'[w] = job[w] /\ Stays(d, job[w].loaded)
            BY <1>2, <2>2, <3>1 DEF IInv, Seen
        <3>3. ~Nobody(d)'
            BY <2>2, <3>1, <3>2 DEF Nobody
        <3>4. Present(d)' => Present(d) /\ (row[d].index_status = "done" => row'[d].index_status = "done")
            BY <3>3
        <3>5. QED
            BY <3>1, <3>2, <3>4 DEF Stays, Present
    <2>3. QED
        BY <2>1, <2>2 DEF Seen
<1>7. QED
    BY <1>3, <1>4, <1>5, <1>6

LEMMA StillOwed ==
    ASSUME PendingOwed, \A d \in Docs : Pend(d)' => Pend(d) \/ Owed(d)',
           \A d \in Docs : Owed(d) => Owed(d)' \/ ~Pend(d)'
    PROVE  PendingOwed'
BY DEF PendingOwed

-----------------------------------------------------------------------------
(* Requests are opened. *)

LEMMA Enqueued ==
    ASSUME TypeOK, NEW d \in Docs, Enqueue(d)
    PROVE  /\ queue' \in [Docs -> 0 .. MaxQueue] /\ stranded' \subseteq Docs
           /\ queue' # queue /\ queue'[d] > 0
           /\ \A c \in Docs \ {d} : queue'[c] = queue[c] /\ (c \in stranded <=> c \in stranded')
<1>1. queue[d] \in 0 .. MaxQueue /\ MaxQueue \in Nat /\ queue[d] < MaxQueue
    BY TypesAre DEF Enqueue
<1>2. queue[d] + 1 \in 0 .. MaxQueue /\ queue[d] + 1 > 0 /\ queue[d] + 1 # queue[d]
    BY <1>1
<1>3. queue' = [queue EXCEPT ![d] = queue[d] + 1] /\ stranded' = stranded \ {d}
    BY DEF Enqueue
<1>4. queue' \in [Docs -> 0 .. MaxQueue] /\ queue'[d] = queue[d] + 1
      /\ \A c \in Docs \ {d} : queue'[c] = queue[c]
    BY <1>2, <1>3 DEF TypeOK
<1>5. QED
    BY <1>2, <1>3, <1>4 DEF TypeOK

LEMMA Opened ==
    ASSUME IInv, NEW r \in Requests, NEW q \in Request, Open(r, q), WellFormed(q),
           UNCHANGED <<row, job, behind, raced>>,
           q.op = "upload" => ~Present(q.doc) /\ Nobody(q.doc),
           q.op # "upload" => Present(q.doc),
           q.op \in {"title", "index"} => q.loaded.index_status = row[q.doc].index_status,
           \/ UNCHANGED <<queue, stranded>> /\ ~q.pending
           \/ Enqueue(q.doc)
    PROVE  IInv'
<1>1. /\ request[r] = None /\ request' \in [Requests -> Request \cup {None}]
      /\ request'[r] = q /\ \A p \in Requests \ {r} : request'[p] = request[p]
      /\ q # None /\ q.doc \in Docs
    BY NoneAssumption DEF Open, IInv, TypeOK, Request
<1>2. /\ Asked(r)' /\ ~Asked(r)
      /\ \A p \in Requests \ {r} : Asked(p)' <=> Asked(p)
      /\ \A d \in Docs : Present(d)' <=> Present(d)
    BY <1>1 DEF Asked, Present
<1>3. TypeOK'
    <2>1. queue' \in [Docs -> 0 .. MaxQueue] /\ stranded' \subseteq Docs
        BY <1>1, Enqueued DEF IInv, TypeOK
    <2>2. \A d \in Docs : Present(d)' => (row'[d].index_status = "done" <=> row'[d].search_tsv # None)
        BY <1>2 DEF IInv, TypeOK
    <2>3. QED
        BY <1>1, <2>1, <2>2 DEF IInv, TypeOK
<1>4. FormedRequests'
    BY <1>1, <1>2 DEF FormedRequests, IInv
<1>5. Holding'
    <2>. SUFFICES ASSUME NEW p \in Requests, Asked(p)', Holds(request'[p])
                  PROVE  Present(request[p].doc) \/ (p = r /\ Present(q.doc))
        BY <1>1 DEF Holding, Holds, Present
    <2>1. CASE p = r
        BY <1>1, <2>1 DEF Holds
    <2>2. CASE p # r
        BY <1>1, <1>2, <2>2 DEF IInv, Holding
    <2>3. QED
        BY <2>1, <2>2
<1>6. Uploading'
    <2>1. ASSUME NEW p \in Requests, Asked(p)', request'[p].op = "upload", p # r
          PROVE  /\ ~Present(request[p].doc) /\ q.doc # request[p].doc
                 /\ \A o \in Requests : Asked(o) /\ request[o].doc = request[p].doc => o = p
                 /\ \A w \in Workers : job[w] # None => job[w].doc # request[p].doc
        BY <1>1, <1>2, <2>1 DEF IInv, Uploading, Nobody
    <2>2. QED
        BY <1>1, <1>2, <2>1 DEF Uploading, Nobody, Present
<1>7. Seen'
    <2>1. ASSUME NEW p \in Requests, Asked(p)', request'[p].op \in {"title", "index"}
          PROVE  Present(request'[p].doc) /\ request'[p].loaded.index_status = "done"
                     => row[request'[p].doc].index_status = "done"
        <3>1. CASE p = r
            BY <1>1, <2>1, <3>1
        <3>2. CASE p # r
            BY <1>1, <1>2, <2>1, <3>2 DEF IInv, Seen, Stays
        <3>3. QED
            BY <3>1, <3>2
    <2>2. QED
        BY <2>1 DEF IInv, Seen, Stays, Present
<1>8. PendingOwed'
    <2>1. \A d \in Docs \ {q.doc} : (Pend(d)' => Pend(d)) /\ (Owed(d) => Owed(d)')
        BY <1>1, <1>2, Enqueued DEF Pend, Owed, Present, IInv
    <2>2. CASE Enqueue(q.doc)
        <3>1. PICK d \in Docs : d = q.doc
            BY <1>1
        <3>2. Owed(d)'
            BY <1>1, <2>2, <3>1, Enqueued DEF Owed, IInv
        <3>3. QED
            BY <2>1, <3>1, <3>2, StillOwed DEF IInv
    <2>3. CASE UNCHANGED <<queue, stranded>> /\ ~q.pending
        <3>1. \A d \in Docs : (Pend(d)' => Pend(d)) /\ (Owed(d) => Owed(d)')
            BY <1>1, <1>2, <2>3 DEF Pend, Owed, Present
        <3>2. QED
            BY <3>1, StillOwed DEF IInv
    <2>4. QED
        BY <2>2, <2>3
<1>9. VectorIsCurrent'
    BY <1>2 DEF IInv, VectorIsCurrent
<1>10. QED
    BY <1>3, <1>4, <1>5, <1>6, <1>7, <1>8, <1>9 DEF IInv

LEMMA Asking ==
    ASSUME NEW op \in {"upload", "replace", "ocr", "title", "index"}, NEW d \in Docs
    PROVE  LET q == Ask(op, d) IN
           /\ q \in Request /\ q.op = op /\ q.doc = d /\ ~q.pending /\ ~q.index
BY DEF Ask, Request

LEMMA ByRequestOcr ==
    ASSUME IInv, NEW r \in Requests, NEW d \in Docs, RequestOcr(r, d)
    PROVE  IInv'
<1> DEFINE pending == row[d].ocr_status # "pending"
           q == [Ask("ocr", d) EXCEPT !.pending = pending]
<1>1. pending \in BOOLEAN
    OBVIOUS
<1>2. Open(r, q) /\ Enqueue(d) /\ Present(d) /\ UNCHANGED <<row, job, behind, raced>>
    BY DEF RequestOcr
<1> HIDE DEF pending
<1>3. q \in Request /\ q.op = "ocr" /\ q.doc = d /\ ~q.index
    BY <1>1, Asking DEF Request
<1> HIDE DEF q
<1>4. WellFormed(q)
    BY <1>3 DEF WellFormed
<1>5. QED
    BY <1>2, <1>3, <1>4, Opened

LEMMA ByUpload ==
    ASSUME IInv, NEW r \in Requests, NEW d \in Docs, NEW c \in Contents, Upload(r, d, c)
    PROVE  IInv'
<1> DEFINE pending == queue' # queue
<1>1. PICK t \in Titles, index \in BOOLEAN :
          Open(r, [Ask("upload", d) EXCEPT !.title = t, !.content = c, !.index = index,
                                           !.pending = pending])
    BY DEF Upload
<1> DEFINE q == [Ask("upload", d) EXCEPT !.title = t, !.content = c, !.index = index,
                                         !.pending = pending]
<1>2. pending \in BOOLEAN /\ (pending \/ UNCHANGED <<queue, stranded>> \/ Enqueue(d))
      /\ (UNCHANGED <<queue, stranded>> => ~pending)
    BY DEF Upload, AutoOcr
<1>3. Open(r, q) /\ ~Present(d) /\ Nobody(d) /\ UNCHANGED <<row, job, behind, raced>>
      /\ (UNCHANGED <<queue, stranded>> \/ Enqueue(d))
    BY <1>1 DEF Upload, AutoOcr, Nobody
<1> HIDE DEF pending
<1>4. /\ q \in Request /\ q.op = "upload" /\ q.doc = d /\ q.title = t /\ q.content = c
      /\ q.pending = pending
    <2> DEFINE base == Ask("upload", d)
    <2>1. base \in Request /\ base.op = "upload" /\ base.doc = d /\ ~base.pending /\ ~base.index
        BY Asking
    <2> HIDE DEF base
    <2>2. QED
        BY <1>2, <2>1 DEF q, base, Request
<1> HIDE DEF q
<1>5. WellFormed(q)
    BY <1>4 DEF WellFormed
<1>6. QED
    BY <1>2, <1>3, <1>4, <1>5, Opened

LEMMA ByReplace ==
    ASSUME IInv, NEW r \in Requests, NEW d \in Docs, NEW c \in Contents, Replace(r, d, c)
    PROVE  IInv'
<1> DEFINE pending == queue' # queue
<1>1. PICK index \in BOOLEAN :
          Open(r, [Ask("replace", d) EXCEPT !.content = c, !.index = index, !.pending = pending])
    BY DEF Replace
<1> DEFINE q == [Ask("replace", d) EXCEPT !.content = c, !.index = index, !.pending = pending]
<1>2. pending \in BOOLEAN /\ (UNCHANGED <<queue, stranded>> => ~pending)
    OBVIOUS
<1>3. Open(r, q) /\ Present(d) /\ UNCHANGED <<row, job, behind, raced>>
      /\ (UNCHANGED <<queue, stranded>> \/ Enqueue(d))
    BY <1>1 DEF Replace, AutoOcr
<1> HIDE DEF pending
<1>4. q \in Request /\ q.op = "replace" /\ q.doc = d /\ q.content = c /\ q.pending = pending
    <2> DEFINE base == Ask("replace", d)
    <2>1. base \in Request /\ base.op = "replace" /\ base.doc = d /\ ~base.pending /\ ~base.index
        BY Asking
    <2> HIDE DEF base
    <2>2. QED
        BY <1>2, <2>1 DEF q, base, Request
<1> HIDE DEF q
<1>5. WellFormed(q)
    BY <1>4 DEF WellFormed
<1>6. QED
    BY <1>2, <1>3, <1>4, <1>5, Opened

LEMMA Loading ==
    ASSUME TypeOK, NEW d \in Docs, Present(d)
    PROVE  Load(d) \in Loaded /\ Load(d).index_status = row[d].index_status
BY TypesAre DEF Load, Loaded, Row

LEMMA ByStarts ==
    ASSUME IInv, NEW r \in Requests, NEW d \in Docs, StartUpdate(r, d) \/ StartIndex(r, d)
    PROVE  IInv'
<1>1. Present(d) /\ UNCHANGED <<row, queue, job, stranded, behind, raced>>
    BY DEF StartUpdate, StartIndex, history
<1>2. PICK loaded \in Loaded : loaded = Load(d) /\ loaded.index_status = row[d].index_status
    BY <1>1, Loading DEF IInv
<1>3. CASE StartUpdate(r, d)
    <2>1. PICK t \in Titles : Open(r, [Ask("title", d) EXCEPT !.title = t, !.loaded = loaded])
        BY <1>2, <1>3 DEF StartUpdate
    <2> DEFINE q == [Ask("title", d) EXCEPT !.title = t, !.loaded = loaded]
    <2>2. /\ q \in Request /\ q.op = "title" /\ q.doc = d /\ q.title = t /\ q.loaded = loaded
          /\ ~q.pending
        <3> DEFINE base == Ask("title", d)
        <3>1. base \in Request /\ base.op = "title" /\ base.doc = d /\ ~base.pending /\ ~base.index
            BY Asking
        <3> HIDE DEF base
        <3>2. QED
            BY <1>2, <3>1 DEF q, base, Request
    <2>3. Open(r, q)
        BY <2>1
    <2> HIDE DEF q
    <2>4. WellFormed(q)
        BY <1>2, <2>2 DEF WellFormed
    <2>5. QED
        BY <1>1, <1>2, <2>2, <2>3, <2>4, Opened
<1>4. CASE StartIndex(r, d)
    <2>1. PICK reparse \in BOOLEAN :
              Open(r, [Ask("index", d) EXCEPT !.loaded = loaded, !.reparse = reparse])
        BY <1>2, <1>4 DEF StartIndex
    <2> DEFINE q == [Ask("index", d) EXCEPT !.loaded = loaded, !.reparse = reparse]
    <2>2. /\ q \in Request /\ q.op = "index" /\ q.doc = d /\ q.loaded = loaded
          /\ ~q.pending
        <3> DEFINE base == Ask("index", d)
        <3>1. base \in Request /\ base.op = "index" /\ base.doc = d /\ ~base.pending /\ ~base.index
            BY Asking
        <3> HIDE DEF base
        <3>2. QED
            BY <1>2, <3>1 DEF q, base, Request
    <2>3. Open(r, q)
        BY <2>1
    <2> HIDE DEF q
    <2>4. WellFormed(q)
        BY <1>2, <2>2 DEF WellFormed
    <2>5. QED
        BY <1>1, <1>2, <2>2, <2>3, <2>4, Opened
<1>5. QED
    BY <1>3, <1>4


-----------------------------------------------------------------------------
(* Requests commit. *)

\* A request ends, the row of its document is written, and neither the queue
\* nor the jobs change.
LEMMA Closed ==
    ASSUME IInv, NEW r \in Requests, Asked(r), request' = [request EXCEPT ![r] = None],
           NEW x \in Row \cup {None}, row' = [row EXCEPT ![request[r].doc] = x],
           UNCHANGED <<queue, job, stranded>>, behind' \subseteq Docs, raced' \subseteq Docs,
           \A c \in Docs \ {request[r].doc} :
               (c \in raced <=> c \in raced') /\ (c \in behind <=> c \in behind'),
           x = None => ~Present(request[r].doc),
           x # None => (x.index_status = "done" <=> x.search_tsv # None),
           x # None /\ x.index_status = "done" =>
               /\ request[r].doc \notin raced' => x.search_tsv.title = x.title
               /\ request[r].doc \notin behind' => x.search_tsv.text = x.text,
           x # None => request[r].op = "upload" \/ Present(request[r].doc),
           x # None /\ Present(request[r].doc) /\ row[request[r].doc].index_status = "done"
               => x.index_status = "done",
           x # None /\ x.ocr_status = "pending" =>
               \/ request[r].pending
               \/ Present(request[r].doc) /\ row[request[r].doc].ocr_status = "pending"
    PROVE  IInv'
<1>1. PICK d \in Docs : d = request[r].doc
    BY TypesAre DEF IInv
<1>2. /\ row' \in [Docs -> Row \cup {None}] /\ row'[d] = x
      /\ \A c \in Docs \ {d} : row'[c] = row[c]
      /\ Present(d)' <=> x # None
      /\ \A c \in Docs \ {d} : Present(c)' <=> Present(c)
    BY <1>1, RowWritten DEF IInv
<1>3. /\ request' \in [Requests -> Request \cup {None}] /\ request'[r] = None
      /\ \A p \in Requests \ {r} : request'[p] = request[p]
    BY DEF IInv, TypeOK
<1>4. TypeOK' /\ VectorIsCurrent'
    <2>1. /\ queue' \in [Docs -> 0 .. MaxQueue] /\ job' \in [Workers -> Job \cup {None}]
          /\ stranded' \subseteq Docs
        BY DEF IInv, TypeOK
    <2>2. TypeOK /\ VectorIsCurrent
        BY DEF IInv
    <2>3. QED
        BY <1>1, <1>3, <2>1, <2>2, VectorsStay
<1>5. FormedRequests' /\ Holding' /\ Uploading' /\ Seen'
    <2>1. \A c \in Docs : Present(c) => Present(c)'
        BY <1>1, <1>2
    <2>2. request[r].op = "upload" => Nobody(d)'
        BY <1>1, <1>3 DEF IInv, Uploading, Nobody, Asked
    <2>3. \A c \in Docs : Present(c)' =>
              \/ Present(c) /\ (row[c].index_status = "done" => row'[c].index_status = "done")
              \/ Nobody(c)'
        BY <1>1, <1>2, <2>2
    <2>4. \A p \in Requests : request'[p] # None => request'[p] = request[p]
        BY <1>3
    <2>5. QED
        BY <2>1, <2>3, <2>4, SessionsStay
<1>6. PendingOwed'
    <2>1. \A c \in Docs : Pend(c)' => Pend(c)
        <3>1. \A c \in Docs : (\E p \in Requests : Asked(p)' /\ request'[p].doc = c /\ request'[p].pending)
                  => \E p \in Requests : Asked(p) /\ request[p].doc = c /\ request[p].pending
            BY <1>3 DEF Asked
        <3>2. \A c \in Docs \ {d} : Pend(c)' => Pend(c)
            BY <1>2, <3>1 DEF Pend
        <3>3. Pend(d)' => Pend(d)
            BY <1>1, <1>2, <3>1 DEF Pend
        <3>4. QED
            BY <3>2, <3>3
    <2>2. \A c \in Docs : Owed(c) => Owed(c)'
        BY DEF Owed
    <2>3. QED
        BY <2>1, <2>2, StillOwed DEF IInv
<1>7. QED
    BY <1>4, <1>5, <1>6 DEF IInv

\* What a request has flushed by the time it commits.
LEMMA FlushedRow ==
    ASSUME IInv, NEW r \in Requests, Asked(r), request[r].op \in {"upload", "replace", "ocr"}
    PROVE  LET q == request[r]
               x == Flushed(q)
           IN /\ q \in Request
              /\ x \in Row \cup {None}
              /\ q.op = "ocr" \/ x \in Row
              /\ x = None => ~Present(q.doc)
              /\ x # None => /\ x.index_status = "done" <=> x.search_tsv # None
                             /\ q.op = "upload" \/ Present(q.doc)
                             /\ x.ocr_status = "pending" =>
                                    \/ q.pending
                                    \/ Present(q.doc) /\ row[q.doc].ocr_status = "pending"
              /\ x # None /\ Present(q.doc) =>
                     /\ x.index_status = row[q.doc].index_status
                     /\ x.search_tsv = row[q.doc].search_tsv
                     /\ x.title = row[q.doc].title /\ x.text = row[q.doc].text
              /\ q.op = "ocr" => ~q.index
              /\ q.op = "upload" => x.index_status = "none"
<1>1. PICK q \in Request : q = request[r] /\ q.doc \in Docs
    BY TypesAre DEF IInv
<1>2. WellFormed(q)
    BY <1>1 DEF IInv, FormedRequests
<1>3. CASE q.op = "upload"
    <2> DEFINE status == IF q.pending THEN "pending" ELSE "none"
               x == [title |-> q.title, content |-> q.content, text |-> None,
                     text_source |-> "none", search_tsv |-> None, index_status |-> "none",
                     ocr_status |-> status, trashed |-> FALSE]
    <2>1. Flushed(q) = x
        BY <1>3 DEF Flushed
    <2>2. status \in OcrStatus /\ (status = "pending" => q.pending)
        BY DEF OcrStatus
    <2> HIDE DEF status
    <2>3. x \in Row /\ x # None
        <3>1. x \in Row
            BY <1>2, <1>3, <2>2 DEF WellFormed, Row, Text, TextSource
        <3>2. QED
            BY <3>1, NoneAssumption
    <2>4. ~Present(q.doc)
        BY <1>1, <1>3 DEF IInv, Uploading
    <2>5. x.index_status = "none" /\ x.search_tsv = None /\ x.ocr_status = status
        OBVIOUS
    <2> HIDE DEF x
    <2>6. QED
        BY <1>1, <1>2, <1>3, <2>1, <2>2, <2>3, <2>4, <2>5 DEF WellFormed
<1>4. CASE q.op = "replace"
    <2> DEFINE old == row[q.doc]
               status == IF q.pending THEN "pending" ELSE old.ocr_status
               x == [old EXCEPT !.content = q.content, !.ocr_status = status]
    <2>1. Present(q.doc) /\ old \in Row /\ (old.index_status = "done" <=> old.search_tsv # None)
        BY <1>1, <1>4, TypesAre DEF IInv, Holding, Holds, TypeOK
    <2>2. Flushed(q) = x
        BY <1>4, <2>1 DEF Flushed, Row
    <2>3. status \in OcrStatus /\ (status = "pending" => q.pending \/ old.ocr_status = "pending")
        BY <2>1 DEF OcrStatus, Row
    <2> HIDE DEF status
    <2>4. /\ x \in Row /\ x.ocr_status = status /\ x.index_status = old.index_status
          /\ x.search_tsv = old.search_tsv /\ x.title = old.title /\ x.text = old.text
        BY <1>2, <1>4, <2>1, <2>3 DEF WellFormed, Row
    <2> HIDE DEF x
    <2>5. x # None
        BY <2>4, NoneAssumption
    <2>6. QED
        BY <1>1, <1>2, <1>4, <2>1, <2>2, <2>3, <2>4, <2>5 DEF WellFormed
<1>5. CASE q.op = "ocr" /\ q.pending
    <2> DEFINE old == row[q.doc]
               x == [old EXCEPT !.ocr_status = "pending"]
    <2>1. Present(q.doc) /\ old \in Row /\ (old.index_status = "done" <=> old.search_tsv # None)
        BY <1>1, <1>5, TypesAre DEF IInv, Holding, Holds, TypeOK
    <2>2. Flushed(q) = x
        BY <1>5 DEF Flushed
    <2>3. /\ x \in Row /\ x.index_status = old.index_status
          /\ x.search_tsv = old.search_tsv /\ x.title = old.title /\ x.text = old.text
        BY <2>1 DEF Row, OcrStatus
    <2> HIDE DEF x
    <2>4. x # None
        BY <2>3, NoneAssumption
    <2>5. QED
        BY <1>1, <1>2, <1>5, <2>1, <2>2, <2>3, <2>4 DEF WellFormed
<1>6. CASE q.op = "ocr" /\ ~q.pending
    <2>1. Flushed(q) = row[q.doc]
        BY <1>6 DEF Flushed
    <2>2. row[q.doc] \in Row \cup {None}
          /\ (Present(q.doc) => (row[q.doc].index_status = "done" <=> row[q.doc].search_tsv # None))
        BY <1>1 DEF IInv, TypeOK
    <2>3. QED
        BY <1>1, <1>2, <1>6, <2>1, <2>2 DEF WellFormed, Present
<1>7. QED
    BY <1>1, <1>3, <1>4, <1>5, <1>6


LEMMA ByCommit ==
    ASSUME IInv, NEW r \in Requests, Commit(r)
    PROVE  IInv'
<1> DEFINE q == request[r]
           x == Flushed(q)
           y == IF q.index THEN IndexDocument(x, x, FALSE) ELSE x
<1>1. /\ Asked(r) /\ q.op \in {"upload", "replace", "ocr"}
      /\ row' = [row EXCEPT ![q.doc] = y]
      /\ behind' = IF q.index THEN BehindAfter(q.doc, x, FALSE) ELSE behind
      /\ raced' = IF q.index THEN raced \ {q.doc} ELSE raced
      /\ request' = [request EXCEPT ![r] = None]
      /\ UNCHANGED <<queue, job, stranded>>
    BY DEF Commit
<1>2. /\ q \in Request /\ x \in Row \cup {None}
      /\ q.op = "ocr" \/ x \in Row
      /\ x = None => ~Present(q.doc)
      /\ x # None => /\ x.index_status = "done" <=> x.search_tsv # None
                     /\ q.op = "upload" \/ Present(q.doc)
                     /\ x.ocr_status = "pending" =>
                            \/ q.pending
                            \/ Present(q.doc) /\ row[q.doc].ocr_status = "pending"
      /\ x # None /\ Present(q.doc) =>
             /\ x.index_status = row[q.doc].index_status
             /\ x.search_tsv = row[q.doc].search_tsv
             /\ x.title = row[q.doc].title /\ x.text = row[q.doc].text
      /\ q.op = "ocr" => ~q.index
      /\ q.op = "upload" => x.index_status = "none"
    BY <1>1, FlushedRow
<1>3. PICK d \in Docs : d = q.doc
    BY <1>2 DEF Request
<1>4. TypeOK /\ VectorIsCurrent
    BY DEF IInv
<1> HIDE DEF x
<1>5. CASE q.index
    <2>1. x \in Row /\ x # None
        BY <1>2, <1>5, NoneAssumption
    <2>2. y = IndexDocument(x, x, FALSE)
        BY <1>5
    <2>3. /\ y \in Row /\ y.index_status = "done" /\ y.search_tsv # None
          /\ y.search_tsv.title = y.title
          /\ ~Parses(x, FALSE) => y.search_tsv.text = y.text
          /\ y.ocr_status = x.ocr_status
        <3>1. x.content \in Contents /\ x.text_source \in TextSource
              /\ x.index_status \in {"none", "done"}
            BY <2>1 DEF Row
        <3> HIDE DEF y
        <3>2. QED
            BY <2>1, <2>2, <3>1, Indexed
    <2> HIDE DEF y
    <2>4. y # None
        BY <2>3, NoneAssumption
    <2>5. /\ behind' \subseteq Docs /\ (d \notin behind' => ~Parses(x, FALSE))
          /\ \A c \in Docs \ {d} : c \in behind <=> c \in behind'
        BY <1>1, <1>3, <1>4, <1>5, Behind
    <2>6. raced' \subseteq Docs /\ \A c \in Docs \ {d} : c \in raced <=> c \in raced'
        BY <1>1, <1>3, <1>4, <1>5 DEF TypeOK
    <2> HIDE DEF q
    <2>7. QED
        BY <1>1, <1>2, <1>3, <2>1, <2>3, <2>4, <2>5, <2>6, Closed DEF q
<1>6. CASE ~q.index
    <2>1. y = x /\ behind' = behind /\ raced' = raced /\ behind \subseteq Docs /\ raced \subseteq Docs
        BY <1>1, <1>4, <1>6 DEF TypeOK
    <2>2. x # None /\ x.index_status = "done" => Present(q.doc)
        BY <1>2
    <2>3. x # None /\ x.index_status = "done" =>
              /\ q.doc \notin raced' => x.search_tsv.title = x.title
              /\ q.doc \notin behind' => x.search_tsv.text = x.text
        BY <1>2, <1>3, <1>4, <2>1, <2>2 DEF VectorIsCurrent
    <2> HIDE DEF y
    <2>4. QED
        BY <1>1, <1>2, <1>3, <2>1, <2>3, Closed
<1>7. QED
    BY <1>5, <1>6

LEMMA ByUpdate ==
    ASSUME IInv, NEW r \in Requests, UpdateDocument(r)
    PROVE  IInv'
<1> DEFINE q == request[r]
           retitled == q.title # q.loaded.title
           title == IF retitled THEN q.title ELSE row[q.doc].title
           titled == [row[q.doc] EXCEPT !.title = title]
           refresh == retitled /\ q.loaded.index_status = "done"
           x == IF refresh THEN IndexDocument(titled, q.loaded, FALSE) ELSE titled
<1>1. /\ Asked(r) /\ q.op = "title" /\ Present(q.doc)
      /\ row' = [row EXCEPT ![q.doc] = x]
      /\ behind' = IF refresh THEN BehindAfter(q.doc, q.loaded, FALSE) ELSE behind
      /\ raced' = IF refresh THEN raced \ {q.doc}
                  ELSE IF retitled /\ q.loaded.index_status # row[q.doc].index_status
                       THEN raced \cup {q.doc}
                  ELSE raced
      /\ request' = [request EXCEPT ![r] = None]
      /\ UNCHANGED <<queue, job, stranded>>
    BY DEF UpdateDocument
<1>2. PICK d \in Docs : d = q.doc
    BY <1>1, TypesAre DEF IInv
<1>3. q \in Request /\ WellFormed(q) /\ row[d] \in Row /\ TypeOK /\ VectorIsCurrent
      /\ Stays(d, q.loaded)
    BY <1>1, <1>2, TypesAre DEF IInv, FormedRequests, Seen
<1>4. /\ q.title \in Titles /\ q.loaded \in Loaded
      /\ q.loaded.index_status = "done" => row[d].index_status = "done"
    BY <1>1, <1>2, <1>3 DEF WellFormed, Stays
<1>5. title \in Titles
    BY <1>2, <1>3, <1>4 DEF Row
<1> HIDE DEF title
<1>6. /\ titled \in Row /\ titled.title = title /\ titled.index_status = row[d].index_status
      /\ titled.search_tsv = row[d].search_tsv /\ titled.text = row[d].text
      /\ titled.ocr_status = row[d].ocr_status
    BY <1>2, <1>3, <1>5 DEF Row
<1> HIDE DEF titled
<1>7. row[d].index_status = "done" <=> row[d].search_tsv # None
    BY <1>1, <1>2, <1>3 DEF TypeOK
<1>8. CASE refresh
    <2>1. x = IndexDocument(titled, q.loaded, FALSE) /\ q.loaded.index_status = "done"
        BY <1>8
    <2> HIDE DEF x
    <2>2. q.loaded.content \in Contents /\ q.loaded.text_source \in TextSource
          /\ q.loaded.index_status \in {"none", "done"} /\ titled.index_status = "done"
        BY <1>4, <1>6, <2>1 DEF Loaded
    <2>3. /\ x \in Row /\ x.index_status = "done" /\ x.search_tsv # None
          /\ x.search_tsv.title = x.title
          /\ ~Parses(q.loaded, FALSE) => x.search_tsv.text = x.text
          /\ x.ocr_status = titled.ocr_status
        <3> DEFINE s == q.loaded
        <3>1. /\ x = IndexDocument(titled, s, FALSE) /\ titled \in Row /\ s.content \in Contents
              /\ s.text_source \in TextSource /\ s.index_status \in {"none", "done"}
              /\ titled.index_status = "done"
            BY <1>6, <2>1, <2>2
        <3> HIDE DEF s
        <3>2. /\ x \in Row /\ x.index_status = "done" /\ x.search_tsv # None
              /\ x.search_tsv.title = x.title
              /\ ~Parses(s, FALSE) => x.search_tsv.text = x.text
              /\ x.ocr_status = titled.ocr_status
            BY <3>1, Indexed
        <3>3. QED
            BY <3>2 DEF s
    <2>4. /\ behind' \subseteq Docs /\ (d \notin behind' => ~Parses(q.loaded, FALSE))
          /\ \A c \in Docs \ {d} : c \in behind <=> c \in behind'
        BY <1>1, <1>2, <1>3, <1>8, Behind
    <2>5. raced' = raced \ {d}
        BY <1>1, <1>2, <1>8
    <2>6. raced' \subseteq Docs /\ \A c \in Docs \ {d} : c \in raced <=> c \in raced'
        BY <1>3, <2>5 DEF TypeOK
    <2>7. x # None
        BY <2>3, NoneAssumption
    <2>8. QED
        BY <1>1, <1>2, <1>6, <2>3, <2>4, <2>6, <2>7, Closed
<1>9. CASE ~refresh
    <2>1. x = titled /\ behind' = behind
        BY <1>1, <1>9
    <2>2. raced' = raced \/ raced' = raced \cup {d}
        BY <1>1, <1>2, <1>9
    <2>3. /\ raced' \subseteq Docs /\ behind' \subseteq Docs /\ raced \subseteq raced'
          /\ \A c \in Docs \ {d} : (c \in raced <=> c \in raced') /\ (c \in behind <=> c \in behind')
        BY <1>3, <2>1, <2>2 DEF TypeOK
    <2>4. ASSUME x.index_status = "done"
          PROVE  /\ d \notin raced' => x.search_tsv.title = x.title
                 /\ d \notin behind' => x.search_tsv.text = x.text
        <3>1. /\ row[d].index_status = "done"
              /\ d \notin raced => row[d].search_tsv.title = row[d].title
              /\ d \notin behind => row[d].search_tsv.text = row[d].text
            BY <1>1, <1>2, <1>3, <1>6, <2>1, <2>4 DEF VectorIsCurrent
        <3>2. CASE retitled
            <4>1. d \in raced'
                BY <1>1, <1>2, <1>4, <1>9, <3>1, <3>2
            <4>2. QED
                BY <1>6, <2>1, <3>1, <4>1
        <3>3. CASE ~retitled
            <4>1. title = row[d].title
                BY <1>2, <3>3 DEF title
            <4>2. QED
                BY <1>6, <2>1, <2>3, <3>1, <4>1
        <3>4. QED
            BY <3>2, <3>3
    <2> HIDE DEF x
    <2>5. x # None
        BY <1>6, <2>1, NoneAssumption
    <2>6. QED
        BY <1>1, <1>2, <1>6, <1>7, <2>1, <2>3, <2>4, <2>5, Closed
<1>10. QED
    BY <1>8, <1>9

LEMMA ByIndex ==
    ASSUME IInv, NEW r \in Requests, Index(r)
    PROVE  IInv'
<1> DEFINE q == request[r]
           s == q.loaded
           reparse == q.reparse
           x == IndexDocument(row[q.doc], s, reparse)
<1>1. /\ Asked(r) /\ q.op = "index" /\ Present(q.doc)
      /\ row' = [row EXCEPT ![q.doc] = x]
      /\ behind' = BehindAfter(q.doc, s, reparse)
      /\ raced' = raced \ {q.doc}
      /\ request' = [request EXCEPT ![r] = None]
      /\ UNCHANGED <<queue, job, stranded>>
    BY DEF Index
<1>2. PICK d \in Docs : d = q.doc
    BY <1>1, TypesAre DEF IInv
<1>3. q \in Request /\ WellFormed(q) /\ row[d] \in Row /\ TypeOK /\ Stays(d, s)
    BY <1>1, <1>2, TypesAre DEF IInv, FormedRequests, Seen
<1>4. /\ s \in Loaded /\ reparse \in BOOLEAN
      /\ s.index_status = "done" => row[d].index_status = "done"
    BY <1>1, <1>2, <1>3 DEF WellFormed, Stays, Request
<1>5. s.content \in Contents /\ s.text_source \in TextSource /\ s.index_status \in {"none", "done"}
    BY <1>4 DEF Loaded
<1>6. x = IndexDocument(row[d], s, reparse)
    BY <1>2
<1> HIDE DEF s, reparse, x
<1>7. /\ x \in Row /\ x.index_status = "done" /\ x.search_tsv # None
      /\ x.search_tsv.title = x.title
      /\ ~Parses(s, reparse) => x.search_tsv.text = x.text
      /\ x.ocr_status = row[d].ocr_status
    BY <1>3, <1>4, <1>5, <1>6, Indexed
<1>8. /\ behind' \subseteq Docs /\ (d \notin behind' => ~Parses(s, reparse))
      /\ \A c \in Docs \ {d} : c \in behind <=> c \in behind'
    BY <1>1, <1>2, <1>3, Behind
<1>9. raced' \subseteq Docs /\ \A c \in Docs \ {d} : c \in raced <=> c \in raced'
    BY <1>1, <1>2, <1>3 DEF TypeOK
<1>10. x # None
    BY <1>7, NoneAssumption
<1>11. QED
    BY <1>1, <1>2, <1>7, <1>8, <1>9, <1>10, Closed

LEMMA ByVanished ==
    ASSUME IInv, NEW r \in Requests, Vanished(r)
    PROVE  IInv'
<1>1. PICK d \in Docs : d = request[r].doc /\ ~Present(d)
    BY TypesAre DEF Vanished, IInv
<1>2. /\ Asked(r) /\ request' = [request EXCEPT ![r] = None] /\ UNCHANGED <<queue, job, stranded>>
      /\ UNCHANGED <<behind, raced>> /\ behind \subseteq Docs /\ raced \subseteq Docs
    BY DEF Vanished, history, IInv, TypeOK
<1>3. row' = [row EXCEPT ![d] = None]
    BY <1>1 DEF Vanished, Present, IInv, TypeOK
<1>4. QED
    BY <1>1, <1>2, <1>3, Closed


-----------------------------------------------------------------------------
(* Jobs and the trash. *)

\* A row there is, or not, as the vectors stand.
LEMMA OldRow ==
    ASSUME TypeOK, VectorIsCurrent, NEW d \in Docs, Present(d)
    PROVE  /\ row[d] \in Row /\ row[d] # None
           /\ row[d].index_status = "done" <=> row[d].search_tsv # None
           /\ row[d].index_status = "done" =>
                  /\ d \notin raced => row[d].search_tsv.title = row[d].title
                  /\ d \notin behind => row[d].search_tsv.text = row[d].text
BY DEF TypeOK, VectorIsCurrent, Present

\* Who may write the row knows that no request is about to say pending.
LEMMA Silent ==
    ASSUME IInv, NEW d \in Docs, Present(d), Unlocked(d)
    PROVE  \A r \in Requests : Asked(r) /\ request[r].doc = d => ~request[r].pending
<1>. SUFFICES ASSUME NEW r \in Requests, Asked(r), request[r].doc = d, request[r].pending
              PROVE  FALSE
    OBVIOUS
<1>1. request[r].op \in {"upload", "replace", "ocr", "title", "index"} /\ WellFormed(request[r])
    BY TypesAre DEF IInv, FormedRequests, Request
<1>2. request[r].op \notin {"replace", "ocr"}
    BY DEF Unlocked
<1>3. request[r].op # "upload"
    BY DEF IInv, Uploading
<1>4. QED
    BY <1>1, <1>2, <1>3 DEF WellFormed

LEMMA Worked ==
    ASSUME IInv, NEW d \in Docs, NEW x \in Row \cup {None}, row' = [row EXCEPT ![d] = x],
           request' = request,
           job' \in [Workers -> Job \cup {None}],
           \A w \in Workers : job'[w] # None => job'[w] = job[w],
           queue' \in [Docs -> 0 .. MaxQueue],
           stranded' \subseteq Docs, behind' \subseteq Docs, raced' \subseteq Docs,
           \A c \in Docs \ {d} :
               (c \in raced <=> c \in raced') /\ (c \in behind <=> c \in behind'),
           x # None => (x.index_status = "done" <=> x.search_tsv # None),
           x # None /\ x.index_status = "done" =>
               /\ d \notin raced' => x.search_tsv.title = x.title
               /\ d \notin behind' => x.search_tsv.text = x.text,
           Present(d) => x # None \/ Unlocked(d),
           x # None => Present(d) /\ (row[d].index_status = "done" => x.index_status = "done"),
           x # None /\ x.ocr_status = "pending" => row[d].ocr_status = "pending",
           \A c \in Docs : Owed(c) => Owed(c)' \/ ~Pend(c)'
    PROVE  IInv'
<1>1. /\ row'[d] = x
      /\ \A c \in Docs \ {d} : row'[c] = row[c]
      /\ Present(d)' <=> x # None
      /\ \A c \in Docs \ {d} : Present(c)' <=> Present(c)
    BY RowWritten DEF IInv
<1>2. TypeOK' /\ VectorIsCurrent'
    <2>1. request' \in [Requests -> Request \cup {None}] /\ TypeOK /\ VectorIsCurrent
        BY DEF IInv, TypeOK
    <2>2. QED
        BY <2>1, VectorsStay
<1>3. FormedRequests' /\ Holding' /\ Uploading' /\ Seen'
    <2>1. \A c \in Docs : Present(c) => Present(c)' \/ Unlocked(c)
        BY <1>1
    <2>2. \A c \in Docs : Present(c)' =>
              \/ Present(c) /\ (row[c].index_status = "done" => row'[c].index_status = "done")
              \/ Nobody(c)'
        BY <1>1
    <2>3. QED
        BY <2>1, <2>2, SessionsStay
<1>4. PendingOwed'
    <2>1. \A c \in Docs : Pend(c)' => Pend(c)
        BY <1>1 DEF Pend, Asked
    <2>2. QED
        BY <2>1, StillOwed DEF IInv
<1>5. QED
    BY <1>2, <1>3, <1>4 DEF IInv

LEMMA Taken ==
    ASSUME TypeOK, NEW d \in Docs, Take(d)
    PROVE  /\ queue' \in [Docs -> 0 .. MaxQueue]
           /\ \A c \in Docs \ {d} : queue'[c] = queue[c]
<1>1. queue[d] \in 0 .. MaxQueue /\ MaxQueue \in Nat /\ queue[d] > 0
    BY TypesAre DEF Take
<1>2. queue[d] - 1 \in 0 .. MaxQueue
    BY <1>1
<1>3. queue' = [queue EXCEPT ![d] = queue[d] - 1]
    BY DEF Take
<1>4. QED
    BY <1>2, <1>3 DEF TypeOK

\* The rows stay as they are.
LEMMA WorkedOnNothing ==
    ASSUME IInv, UNCHANGED <<row, request, behind, raced>>,
           job' \in [Workers -> Job \cup {None}],
           \A w \in Workers : job'[w] # None => job'[w] = job[w],
           queue' \in [Docs -> 0 .. MaxQueue], stranded' \subseteq Docs,
           \A c \in Docs : Owed(c) => Owed(c)' \/ ~Pend(c)'
    PROVE  IInv'
<1>1. TypeOK'
    BY DEF IInv, TypeOK, Present
<1>2. VectorIsCurrent'
    BY DEF IInv, VectorIsCurrent, Present
<1>3. \A c \in Docs : (Present(c)' <=> Present(c)) /\ row'[c] = row[c]
    BY DEF Present
<1>4. FormedRequests' /\ Holding' /\ Uploading' /\ Seen'
    BY <1>3, SessionsStay
<1>5. PendingOwed'
    <2>1. \A c \in Docs : Pend(c)' => Pend(c)
        BY <1>3 DEF Pend, Asked
    <2>2. QED
        BY <2>1, StillOwed DEF IInv
<1>6. QED
    BY <1>1, <1>2, <1>4, <1>5 DEF IInv

LEMMA ByJobSkip ==
    ASSUME IInv, NEW d \in Docs, JobSkip(d)
    PROVE  IInv'
<1>1. /\ queue' \in [Docs -> 0 .. MaxQueue] /\ \A c \in Docs \ {d} : queue'[c] = queue[c]
      /\ UNCHANGED <<row, request, job, behind, raced>> /\ stranded' = stranded \cup {d}
    BY Taken DEF JobSkip, IInv
<1>2. job' \in [Workers -> Job \cup {None}] /\ stranded' \subseteq Docs
    BY <1>1 DEF IInv, TypeOK
<1>3. \A c \in Docs : Owed(c) => Owed(c)'
    BY <1>1 DEF Owed
<1>4. QED
    BY <1>1, <1>2, <1>3, WorkedOnNothing

LEMMA ByJobDie ==
    ASSUME IInv, NEW w \in Workers, JobDie(w)
    PROVE  IInv'
<1>1. /\ job' = [job EXCEPT ![w] = None] /\ stranded' = stranded \cup {job[w].doc}
      /\ UNCHANGED <<row, queue, request, behind, raced>> /\ job[w].doc \in Docs
    BY TypesAre DEF JobDie, IInv
<1>2. /\ job' \in [Workers -> Job \cup {None}] /\ stranded' \subseteq Docs
      /\ queue' \in [Docs -> 0 .. MaxQueue]
      /\ \A v \in Workers : job'[v] = IF v = w THEN None ELSE job[v]
    BY <1>1 DEF IInv, TypeOK
<1>3. \A c \in Docs : Owed(c) => Owed(c)'
    BY <1>1, <1>2 DEF Owed
<1>4. QED
    BY <1>1, <1>2, <1>3, WorkedOnNothing

\* A job loads the row it is about.
LEMMA ByJobStart ==
    ASSUME IInv, NEW w \in Workers, NEW d \in Docs, JobStart(w, d)
    PROVE  IInv'
<1> DEFINE j == [doc |-> d, loaded |-> Load(d)]
<1>1. /\ job' = [job EXCEPT ![w] = j] /\ job[w] = None /\ Present(d) /\ Take(d)
      /\ UNCHANGED <<row, request, stranded, behind, raced>>
    BY DEF JobStart, history
<1>2. /\ j \in Job /\ j.doc = d /\ j.loaded.index_status = row[d].index_status /\ j # None
    <2>1. Load(d) \in Loaded /\ Load(d).index_status = row[d].index_status
        BY <1>1, Loading DEF IInv
    <2>2. j \in Job /\ j.doc = d /\ j.loaded = Load(d)
        BY <2>1 DEF Job
    <2>3. QED
        BY <2>1, <2>2, NoneAssumption
<1> HIDE DEF j
<1>3. /\ job' \in [Workers -> Job \cup {None}] /\ job'[w] = j
      /\ \A v \in Workers \ {w} : job'[v] = job[v]
    BY <1>1, <1>2 DEF IInv, TypeOK
<1>4. \A c \in Docs : (Present(c)' <=> Present(c)) /\ row'[c] = row[c]
    BY <1>1 DEF Present
<1>5. queue' \in [Docs -> 0 .. MaxQueue] /\ \A c \in Docs \ {d} : queue'[c] = queue[c]
    BY <1>1, Taken DEF IInv
<1>6. TypeOK'
    <2>1. \A c \in Docs : Present(c)' => (row'[c].index_status = "done" <=> row'[c].search_tsv # None)
        BY <1>4 DEF IInv, TypeOK
    <2>2. QED
        BY <1>1, <1>3, <1>5, <2>1 DEF IInv, TypeOK
<1>7. FormedRequests' /\ Holding'
    BY <1>1, <1>4 DEF IInv, FormedRequests, Holding, Asked, Present
<1>8. Uploading'
    <2>. SUFFICES ASSUME NEW r \in Requests, Asked(r), request[r].op = "upload"
                  PROVE  /\ ~Present(request[r].doc)
                         /\ \A p \in Requests : Asked(p) /\ request[p].doc = request[r].doc
                                => p = r
                         /\ \A v \in Workers : job'[v] # None => job'[v].doc # request[r].doc
        BY <1>1 DEF Uploading, Asked, Present
    <2>1. /\ ~Present(request[r].doc)
          /\ \A p \in Requests : Asked(p) /\ request[p].doc = request[r].doc => p = r
          /\ \A v \in Workers : job[v] # None => job[v].doc # request[r].doc
        BY DEF IInv, Uploading
    <2>2. request[r].doc # d
        BY <1>1, <2>1
    <2>3. QED
        BY <1>2, <1>3, <2>1, <2>2
<1>9. Seen'
    <2>1. \A r \in Requests : Asked(r) /\ request[r].op \in {"title", "index"} =>
              Stays(request[r].doc, request[r].loaded)
        BY DEF IInv, Seen
    <2>2. \A v \in Workers : job'[v] # None =>
              (Present(job'[v].doc) /\ job'[v].loaded.index_status = "done"
                   => row[job'[v].doc].index_status = "done")
        BY <1>2, <1>3 DEF IInv, Seen, Stays
    <2>3. QED
        BY <1>1, <2>1, <2>2 DEF Seen, Stays, Asked, Present
<1>10. PendingOwed'
    <2>1. \A c \in Docs : Pend(c)' => Pend(c)
        BY <1>1, <1>4 DEF Pend, Asked
    <2>2. \A c \in Docs : Owed(c) => Owed(c)'
        <3>1. Owed(d)'
            BY <1>2, <1>3 DEF Owed
        <3>2. \A c \in Docs \ {d} : Owed(c) => Owed(c)'
            BY <1>1, <1>3, <1>5 DEF Owed
        <3>3. QED
            BY <3>1, <3>2
    <2>3. QED
        BY <2>1, <2>2, StillOwed DEF IInv
<1>11. VectorIsCurrent'
    BY <1>1, <1>4 DEF IInv, VectorIsCurrent
<1>12. QED
    BY <1>6, <1>7, <1>8, <1>9, <1>10, <1>11 DEF IInv


\* A row written in its status alone, or moved to the trash and back.
LEMMA Marked ==
    ASSUME IInv, NEW d \in Docs, Present(d), NEW status \in OcrStatus, NEW trashed \in BOOLEAN,
           row' = [row EXCEPT ![d] = [row[d] EXCEPT !.ocr_status = status, !.trashed = trashed]],
           UNCHANGED <<request, behind, raced>>,
           job' \in [Workers -> Job \cup {None}],
           \A w \in Workers : job'[w] # None => job'[w] = job[w],
           queue' \in [Docs -> 0 .. MaxQueue], stranded' \subseteq Docs,
           status = "pending" => row[d].ocr_status = "pending",
           \A c \in Docs \ {d} : Owed(c) => Owed(c)',
           Owed(d) => Owed(d)' \/ (status # "pending" /\ Unlocked(d))
    PROVE  IInv'
<1> DEFINE x == [row[d] EXCEPT !.ocr_status = status, !.trashed = trashed]
<1>1. /\ row[d] \in Row /\ row[d] # None
      /\ row[d].index_status = "done" <=> row[d].search_tsv # None
      /\ row[d].index_status = "done" =>
             /\ d \notin raced => row[d].search_tsv.title = row[d].title
             /\ d \notin behind => row[d].search_tsv.text = row[d].text
    BY OldRow DEF IInv
<1>2. /\ x \in Row /\ x.ocr_status = status /\ x.index_status = row[d].index_status
      /\ x.search_tsv = row[d].search_tsv /\ x.title = row[d].title /\ x.text = row[d].text
    BY <1>1 DEF Row
<1>3. row' = [row EXCEPT ![d] = x]
    OBVIOUS
<1> HIDE DEF x
<1>4. x # None
    BY <1>2, NoneAssumption
<1>5. row'[d] = x /\ (Present(d)' <=> x # None)
    BY <1>2, <1>3, RowWritten DEF IInv
<1>6. ASSUME Unlocked(d), status # "pending"
      PROVE  ~Pend(d)'
    <2>1. \A r \in Requests : Asked(r) /\ request[r].doc = d => ~request[r].pending
        BY <1>6, Silent
    <2>2. QED
        BY <1>2, <1>5, <1>6, <2>1 DEF Pend, Asked
<1>7. \A c \in Docs : Owed(c) => Owed(c)' \/ ~Pend(c)'
    BY <1>6
<1>8. behind' \subseteq Docs /\ raced' \subseteq Docs
    BY DEF IInv, TypeOK
<1>9. /\ x.index_status = "done" <=> x.search_tsv # None
      /\ x.index_status = "done" => /\ d \notin raced' => x.search_tsv.title = x.title
                                    /\ d \notin behind' => x.search_tsv.text = x.text
      /\ row[d].index_status = "done" => x.index_status = "done"
      /\ x.ocr_status = "pending" => row[d].ocr_status = "pending"
      /\ \A c \in Docs \ {d} :
             (c \in raced <=> c \in raced') /\ (c \in behind <=> c \in behind')
    BY <1>1, <1>2
<1>10. x \in Row /\ request' = request
    BY <1>2
<1>11. QED
    BY <1>3, <1>4, <1>7, <1>8, <1>9, <1>10, Worked

LEMMA ByJobUnsupported ==
    ASSUME IInv, NEW d \in Docs, JobUnsupported(d) \/ RequestOcrUnsupported(d)
    PROVE  IInv'
<1>1. /\ Present(d) /\ Unlocked(d) /\ row' = [row EXCEPT ![d].ocr_status = "unsupported"]
      /\ UNCHANGED <<request, job, stranded, behind, raced>>
    BY DEF JobUnsupported, RequestOcrUnsupported, history
<1>2. queue' \in [Docs -> 0 .. MaxQueue] /\ \A c \in Docs \ {d} : queue'[c] = queue[c]
    <2>1. queue \in [Docs -> 0 .. MaxQueue] /\ TypeOK
        BY DEF IInv, TypeOK
    <2>2. Take(d) \/ queue' = queue
        BY DEF JobUnsupported, RequestOcrUnsupported
    <2>3. QED
        BY <2>1, <2>2, Taken
<1> DEFINE trashed == row[d].trashed
<1>3. trashed \in BOOLEAN
    BY <1>1, TypesAre DEF IInv, Row
<1>4. row' = [row EXCEPT ![d] = [row[d] EXCEPT !.ocr_status = "unsupported", !.trashed = trashed]]
    <2>1. row[d] \in Row
        BY <1>1, TypesAre DEF IInv
    <2>2. [row[d] EXCEPT !.ocr_status = "unsupported"]
              = [row[d] EXCEPT !.ocr_status = "unsupported", !.trashed = trashed]
        BY <2>1 DEF Row
    <2>3. QED
        BY <1>1, <2>2
<1>5. job' \in [Workers -> Job \cup {None}] /\ stranded' \subseteq Docs
    BY <1>1 DEF IInv, TypeOK
<1>6. \A c \in Docs \ {d} : Owed(c) => Owed(c)'
    BY <1>1, <1>2 DEF Owed
<1> HIDE DEF trashed
<1>7. "unsupported" \in OcrStatus
    BY DEF OcrStatus
<1>8. QED
    BY <1>1, <1>2, <1>3, <1>4, <1>5, <1>6, <1>7, Marked

\* The job's answer is in the row, or the row was taken to hold it already.
LEMMA ByJobFail ==
    ASSUME IInv, NEW w \in Workers, JobFail(w)
    PROVE  IInv'
<1>1. PICK d \in Docs : d = job[w].doc
    BY TypesAre DEF JobFail, IInv
<1> DEFINE loaded == job[w].loaded
           status == IF loaded.ocr_status # "failed" THEN "failed" ELSE row[d].ocr_status
           trashed == row[d].trashed
<1>2. /\ job[w] # None /\ Present(d) /\ Unlocked(d)
      /\ stranded' = IF loaded.ocr_status = "failed" THEN stranded \cup {d} ELSE stranded
      /\ job' = [job EXCEPT ![w] = None]
      /\ UNCHANGED <<queue, request, behind, raced>>
    BY <1>1 DEF JobFail, Unseen
<1>3. row[d] \in Row /\ trashed \in BOOLEAN /\ status \in OcrStatus
    BY <1>2, TypesAre DEF IInv, Row, OcrStatus
<1>4. row' = [row EXCEPT ![d] = [row[d] EXCEPT !.ocr_status = status, !.trashed = trashed]]
    <2>1. row' = [row EXCEPT ![d].ocr_status = status]
        BY <1>1, <1>3 DEF JobFail, Written, IInv, TypeOK
    <2> HIDE DEF status
    <2>2. [row[d] EXCEPT !.ocr_status = status]
              = [row[d] EXCEPT !.ocr_status = status, !.trashed = trashed]
        BY <1>3 DEF Row
    <2>3. QED
        BY <2>1, <2>2
<1>5. /\ job' \in [Workers -> Job \cup {None}] /\ stranded' \subseteq Docs
      /\ queue' \in [Docs -> 0 .. MaxQueue]
      /\ \A v \in Workers : job'[v] = IF v = w THEN None ELSE job[v]
    BY <1>2 DEF IInv, TypeOK
<1>6. \A c \in Docs \ {d} : Owed(c) => Owed(c)'
    BY <1>1, <1>2, <1>5 DEF Owed
<1>7. Owed(d)' \/ status = "failed"
    BY <1>2 DEF Owed
<1>8. status = "pending" => row[d].ocr_status = "pending"
    OBVIOUS
<1> HIDE DEF status, trashed, loaded
<1>9. QED
    BY <1>2, <1>3, <1>4, <1>5, <1>6, <1>7, <1>8, Marked

LEMMA ByJobFinish ==
    ASSUME IInv, NEW w \in Workers, JobFinish(w)
    PROVE  IInv'
<1>1. PICK d \in Docs : d = job[w].doc /\ job[w].loaded \in Loaded
    BY TypesAre DEF JobFinish, IInv
<1> DEFINE s == job[w].loaded
           status == IF s.ocr_status # "done" THEN "done" ELSE row[d].ocr_status
<1>2. PICK found \in BOOLEAN :
          LET source == IF found THEN "ocr" ELSE s.text_source
              flushed == [row[d] EXCEPT
                  !.text = IF found THEN s.content ELSE row[d].text,
                  !.text_source = IF found /\ s.text_source # "ocr" THEN "ocr"
                                  ELSE row[d].text_source,
                  !.ocr_status = status]
              session == [s EXCEPT !.text_source = source]
          IN  /\ row' = [row EXCEPT ![d] = IndexDocument(flushed, session, FALSE)]
              /\ behind' = BehindAfter(d, session, FALSE)
    BY <1>1 DEF JobFinish, Written
<1>3. /\ job[w] # None /\ Present(d) /\ Unlocked(d)
      /\ stranded' = IF s.ocr_status = "done" THEN stranded \cup {d} ELSE stranded
      /\ raced' = raced \ {d}
      /\ job' = [job EXCEPT ![w] = None]
      /\ UNCHANGED <<queue, request>>
    BY <1>1 DEF JobFinish, Unseen
<1> DEFINE source == IF found THEN "ocr" ELSE s.text_source
           text == IF found THEN s.content ELSE row[d].text
           from == IF found /\ s.text_source # "ocr" THEN "ocr" ELSE row[d].text_source
           flushed == [row[d] EXCEPT !.text = text, !.text_source = from, !.ocr_status = status]
           session == [s EXCEPT !.text_source = source]
           x == IndexDocument(flushed, session, FALSE)
<1>4. row' = [row EXCEPT ![d] = x] /\ behind' = BehindAfter(d, session, FALSE)
    BY <1>2
<1>5. /\ row[d] \in Row /\ TypeOK
      /\ s.index_status = "done" => row[d].index_status = "done"
    BY <1>1, <1>3, TypesAre DEF IInv, Seen, Stays
<1>6. /\ text \in Text /\ from \in TextSource /\ status \in OcrStatus /\ source \in TextSource
    BY <1>1, <1>5 DEF Row, Loaded, Text, TextSource, OcrStatus
<1>7. (Owed(d)' \/ status = "done") /\ (status = "pending" => row[d].ocr_status = "pending")
    BY <1>3 DEF Owed
<1> HIDE DEF text, from, status, source
<1>8. /\ flushed \in Row /\ flushed.index_status = row[d].index_status
      /\ flushed.ocr_status = status
    BY <1>5, <1>6 DEF Row
<1>9. /\ session.content \in Contents /\ session.text_source \in TextSource
      /\ session.index_status \in {"none", "done"} /\ session.index_status = s.index_status
    BY <1>1, <1>6 DEF Loaded
<1> HIDE DEF flushed, session
<1>10. x = IndexDocument(flushed, session, FALSE)
    OBVIOUS
<1> HIDE DEF x
<1>11. /\ x \in Row /\ x.index_status = "done" /\ x.search_tsv # None
       /\ x.search_tsv.title = x.title
       /\ ~Parses(session, FALSE) => x.search_tsv.text = x.text
       /\ x.ocr_status = status
    BY <1>5, <1>8, <1>9, <1>10, Indexed
<1>12. /\ behind' \subseteq Docs /\ (d \notin behind' => ~Parses(session, FALSE))
       /\ \A c \in Docs \ {d} : c \in behind <=> c \in behind'
    BY <1>4, <1>5, Behind
<1>13. raced' \subseteq Docs /\ \A c \in Docs \ {d} : c \in raced <=> c \in raced'
    BY <1>3, <1>5 DEF TypeOK
<1>14. /\ job' \in [Workers -> Job \cup {None}] /\ stranded' \subseteq Docs
       /\ queue' \in [Docs -> 0 .. MaxQueue]
       /\ \A v \in Workers : job'[v] = IF v = w THEN None ELSE job[v]
    BY <1>3, <1>5 DEF TypeOK
<1>15. x # None
    BY <1>11, NoneAssumption
<1>16. \A c \in Docs \ {d} : Owed(c) => Owed(c)'
    BY <1>1, <1>3, <1>14 DEF Owed
<1>17. ~Pend(d)' \/ Owed(d)'
    <2>1. row'[d] = x
        BY <1>4, <1>5 DEF TypeOK
    <2>2. \A r \in Requests : Asked(r) /\ request[r].doc = d => ~request[r].pending
        BY <1>3, Silent
    <2>3. QED
        BY <1>3, <1>7, <1>11, <2>1, <2>2 DEF Pend, Asked
<1>18. \A c \in Docs : Owed(c) => Owed(c)' \/ ~Pend(c)'
    BY <1>16, <1>17
<1>19. x.ocr_status = "pending" => row[d].ocr_status = "pending"
    BY <1>7, <1>11
<1>20. QED
    BY <1>3, <1>4, <1>11, <1>12, <1>13, <1>14, <1>15, <1>18, <1>19, Worked

LEMMA ByTrash ==
    ASSUME IInv, NEW d \in Docs, ToTrash(d) \/ Restore(d)
    PROVE  IInv'
<1>1. PICK trashed \in BOOLEAN : row' = [row EXCEPT ![d].trashed = trashed]
    BY DEF ToTrash, Restore
<1>2. Present(d) /\ UNCHANGED <<queue, request, job, stranded, behind, raced>>
    BY DEF ToTrash, Restore, history
<1> DEFINE status == row[d].ocr_status
<1>3. row[d] \in Row /\ status \in OcrStatus
    BY <1>2, TypesAre DEF IInv, Row
<1>4. row' = [row EXCEPT ![d] = [row[d] EXCEPT !.ocr_status = status, !.trashed = trashed]]
    <2>1. [row[d] EXCEPT !.trashed = trashed]
              = [row[d] EXCEPT !.ocr_status = status, !.trashed = trashed]
        BY <1>3 DEF Row
    <2>2. QED
        BY <1>1, <2>1
<1>5. /\ job' \in [Workers -> Job \cup {None}] /\ stranded' \subseteq Docs
      /\ queue' \in [Docs -> 0 .. MaxQueue]
    BY <1>2 DEF IInv, TypeOK
<1>6. \A c \in Docs : Owed(c) => Owed(c)'
    BY <1>2 DEF Owed
<1>7. status = "pending" => row[d].ocr_status = "pending"
    OBVIOUS
<1> HIDE DEF status
<1>8. QED
    BY <1>2, <1>3, <1>4, <1>5, <1>6, <1>7, Marked

LEMMA ByPurge ==
    ASSUME IInv, NEW d \in Docs, Purge(d)
    PROVE  IInv'
<1>1. /\ Present(d) /\ Unlocked(d) /\ row' = [row EXCEPT ![d] = None]
      /\ behind' = behind \ {d} /\ raced' = raced \ {d}
      /\ UNCHANGED <<queue, request, job, stranded>>
    BY DEF Purge
<1>2. /\ job' \in [Workers -> Job \cup {None}] /\ queue' \in [Docs -> 0 .. MaxQueue]
      /\ stranded' \subseteq Docs /\ behind' \subseteq Docs /\ raced' \subseteq Docs
    BY <1>1 DEF IInv, TypeOK
<1>3. \A c \in Docs : Owed(c) => Owed(c)'
    BY <1>1 DEF Owed
<1>4. \A c \in Docs \ {d} : (c \in raced <=> c \in raced') /\ (c \in behind <=> c \in behind')
    BY <1>1
<1>5. QED
    BY <1>1, <1>2, <1>3, <1>4, Worked

LEMMA Next_IInv == IInv /\ [Next]_vars => IInv'
<1>. SUFFICES ASSUME IInv, [Next]_vars PROVE IInv'
    OBVIOUS
<1>1. ASSUME NEW r \in Requests, NEW d \in Docs,
             \/ RequestOcr(r, d) \/ StartUpdate(r, d) \/ StartIndex(r, d)
             \/ \E c \in Contents : Upload(r, d, c) \/ Replace(r, d, c)
      PROVE  IInv'
    BY <1>1, ByRequestOcr, ByStarts, ByUpload, ByReplace
<1>2. ASSUME NEW d \in Docs, RequestOcrUnsupported(d)
      PROVE  IInv'
    BY <1>2, ByJobUnsupported
<1>3. ASSUME NEW r \in Requests, Finish(r)
      PROVE  IInv'
    BY <1>3, ByCommit, ByUpdate, ByIndex, ByVanished DEF Finish
<1>4. CASE Work
    BY <1>4, ByJobSkip, ByJobUnsupported, ByJobStart, ByJobFail, ByJobFinish, ByJobDie DEF Work
<1>5. ASSUME NEW d \in Docs, ToTrash(d) \/ Restore(d) \/ Purge(d)
      PROVE  IInv'
    BY <1>5, ByTrash, ByPurge
<1>6. CASE UNCHANGED vars
    <2>1. UNCHANGED <<row, queue, request, job, stranded, behind, raced>>
        BY <1>6 DEF vars
    <2>2. job' \in [Workers -> Job \cup {None}] /\ queue' \in [Docs -> 0 .. MaxQueue]
          /\ stranded' \subseteq Docs /\ \A c \in Docs : Owed(c) => Owed(c)'
        BY <2>1 DEF IInv, TypeOK, Owed
    <2>3. QED
        BY <2>1, <2>2, WorkedOnNothing
<1>7. QED
    BY <1>1, <1>2, <1>3, <1>4, <1>5, <1>6 DEF Next

-----------------------------------------------------------------------------

\* Whatever documents, requests and workers there are, the invariant holds.
THEOREM InductiveInvariant == Spec => []IInv
BY Init_IInv, Next_IInv, PTL DEF Spec

\* Every variable stays in its range, and a row is indexed exactly where it has
\* a search vector.
THEOREM TypeCorrect == Spec => []TypeOK
<1>1. IInv => TypeOK
    BY DEF IInv
<1>2. QED
    BY InductiveInvariant, <1>1, PTL

\* While a document says "pending", a job for it waits or runs, unless its last
\* job ended where it could not answer; however many requests and workers, and
\* although the job is in the queue before the request has committed.
THEOREM RecognitionIsOwed == Spec => []PendingIsOwed
<1>1. IInv => PendingIsOwed
    BY DEF IInv, PendingOwed, Pend, Owed, PendingIsOwed
<1>2. QED
    BY InductiveInvariant, <1>1, PTL

\* An indexed document is found by its title and its text, after edits and OCR
\* as well, but for the two gaps that behind and raced record.
THEOREM IndexIsCurrent == Spec => []VectorIsCurrent
<1>1. IInv => VectorIsCurrent
    BY DEF IInv
<1>2. QED
    BY InductiveInvariant, <1>1, PTL

=============================================================================
