-------------------------- MODULE SignatureLedger ---------------------------
(***************************************************************************)
(* What the signing service promises, with no file, no digest computation  *)
(* and no request steps: documents are registered and withdrawn, a          *)
(* signature is over the digest its document was registered with, and a     *)
(* user is told "valid" only when a document of theirs carries a live       *)
(* signature.                                                               *)
(***************************************************************************)
EXTENDS Naturals, Sequences

CONSTANTS Requests, Users, Digests, Nobody

VARIABLES documents,   \* [user, digest, live], in order of registration
          signatures,  \* [doc, over, live], in order of signing
          asker,       \* asker[r]: whose verification r is, or Nobody
          accepted     \* accepted[r]: r is told "valid"

lvars == <<documents, signatures, asker, accepted>>

LInit == /\ documents = <<>> /\ signatures = <<>>
         /\ asker = [r \in Requests |-> Nobody]
         /\ accepted = [r \in Requests |-> FALSE]

Register == LET row == documents'[Len(documents')]
            IN  /\ Len(documents') > Len(documents)
                /\ documents' = Append(documents, row)
                /\ row \in [user : Users, digest : Digests, live : {TRUE}]
                /\ UNCHANGED <<signatures, asker, accepted>>

Withdraw(d) == /\ documents[d].live
               /\ documents' = [documents EXCEPT ![d].live = FALSE]
               /\ UNCHANGED <<signatures, asker, accepted>>

Certify(d) == /\ signatures' = Append(signatures,
                     [doc |-> d, over |-> documents[d].digest, live |-> TRUE])
              /\ UNCHANGED <<documents, asker, accepted>>

Revoke(s) == /\ signatures[s].live
             /\ signatures' = [signatures EXCEPT ![s].live = FALSE]
             /\ UNCHANGED <<documents, asker, accepted>>

Ask(r) == /\ \E u \in Users \cup {Nobody} : asker' = [asker EXCEPT ![r] = u]
          /\ accepted' = [accepted EXCEPT ![r] = FALSE]
          /\ UNCHANGED <<documents, signatures>>

Accept(r) == /\ \E d \in DOMAIN documents, s \in DOMAIN signatures :
                   /\ documents[d].user = asker[r]
                   /\ signatures[s].doc = d
                   /\ signatures[s].live
             /\ accepted' = [accepted EXCEPT ![r] = TRUE]
             /\ UNCHANGED <<documents, signatures, asker>>

\* The process ends: who asked and what was answered is forgotten.
Forget == /\ asker' = [r \in Requests |-> Nobody]
          /\ accepted' = [r \in Requests |-> FALSE]
          /\ UNCHANGED <<documents, signatures>>

LNext == \/ Register
         \/ \E d \in DOMAIN documents : Withdraw(d) \/ Certify(d)
         \/ \E s \in DOMAIN signatures : Revoke(s)
         \/ \E r \in Requests : Ask(r) \/ Accept(r)
         \/ Forget

LSpec == LInit /\ [][LNext]_lvars
=============================================================================
