------------------------- MODULE MCDocumentSigning --------------------------
(* Small instances of DocumentSigning for TLC.                              *)
EXTENDS DocumentSigning, TLC

CONSTANTS r1, r2, alice, bob, stem, a, b

File(v, s) == [verify |-> v, stem |-> stem, signed |-> s]

MCStems    == {stem}
OneName    == {File(0, 0)}
\* The second one is what a verification of the first calls its temporary file.
TwoNames   == {File(0, 0), File(1, 0)}

MCText   == {a, b}
OneLine  == {<<a, NL>>}
Short    == {<<NL>>, <<a, NL>>}
TwoLines == {<<a, NL>>, <<b, b, NL>>}

Traffic  == {"upload", "sign"}
Quiet    == Traffic \cup {"db_fails", "delete_document", "delete_signature", "delete_user"}
Troubled == {"upload", "sign", "db_fails", "disk_full", "crash"}
Restarts == Traffic \cup {"disk_full", "crash", "redeploy"}

\* What the theorems about files ask of names and contents holds where the disk stays.
ASSUME FilesApart == "redeploy" \notin Events => NamesApart /\ PlainBodies

Symmetric      == Permutations(Requests)
SymmetricUsers == Permutations(Users)
=============================================================================
