------------------------------ MODULE MCTagging ------------------------------
(* Model checking of what comes in and is sorted, in one run.                *)
EXTENDS Incoming, TLC

MCDocs == {1, 2}
MCOwned == [u \in Users |-> Docs]
MCWritable == [u \in Users |-> Docs]

MCFile(n, c) == [name |-> n, content |-> c, kind |-> "file", safe |-> TRUE, inner |-> <<>>]
MCZip(entries) == [format |-> "zip", entries |-> entries]
MC7z(entries) == [format |-> "7z", entries |-> entries]
MCNest(n, inner) == [name |-> n, content |-> "z", kind |-> "archive", safe |-> TRUE,
                     inner |-> inner]
MCBroken == [name |-> "y", content |-> "z", kind |-> "broken", safe |-> TRUE, inner |-> <<>>]
MCa == MCFile("n", "a")
MCb == MCFile("m", "b")
MCArchives == {
    MCZip(<<MCa, MCb>>), MC7z(<<MCa, MCFile("n", "b")>>), MCZip(<<MCa, MCFile("m", "a")>>),
    MCZip(<<MCFile("x", "t"), MCb>>), MC7z(<<[MCa EXCEPT !.safe = FALSE], MCb>>),
    MC7z(<<MCNest("y", MCZip(<<MCa, MCb>>))>>),
    MCZip(<<MCa, MCNest("y", MC7z(<<MCNest("y", MCZip(<<MCb>>))>>))>>),
    MC7z(<<MCa, MCNest("y", MCZip(<<MCa, MCa>>))>>),
    MCZip(<<MCa, MCb, MCa, MCb>>), MCZip(<<MCFile("n", "big")>>),
    MCZip(<<MCNest("y", MC7z(<<MCb, MCb>>)), MCb>>),
    MCZip(<<MCa, MCBroken>>), MC7z(<<MCBroken, MCFile("n", "big")>>)}
MCInner(archives) ==
    {e.inner : e \in {x \in UNION {{a.entries[i] : i \in DOMAIN a.entries} : a \in archives} :
                            x.kind = "archive"}}
MCTrees == MCArchives \cup MCInner(MCArchives) \cup MCInner(MCInner(MCArchives))
MCUploads == {[name |-> "m", content |-> "b"], [name |-> "n", content |-> "c"],
              [name |-> "p", content |-> "b"]}
MCExt == [a |-> "pdf", b |-> "pdf", c |-> "pdf", t |-> "exe", z |-> "zip", big |-> "pdf"]
MCSize == [a |-> 1, b |-> 2, c |-> 1, t |-> 1, z |-> 1, big |-> 4]

MCExtract(archive) == Extract(archive)

Symmetry == Permutations(Tags) \cup Permutations(Requests)
=============================================================================
