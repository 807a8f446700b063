--------------------------- MODULE SessionLedger ----------------------------
(***************************************************************************)
(* What the user service promises of accounts and sessions, with no request *)
(* steps, transactions or locks: an account has an email of its own and     *)
(* stays as it was once it was deleted; a session begins by replacing, in   *)
(* one step, all sessions its user had when the login looked, and ends in   *)
(* no other way; whoever is let in has a session.                           *)
(***************************************************************************)
EXTENDS Naturals, Sequences

CONSTANTS Requests, Addresses, NotLooking

VARIABLES accounts,   \* [email, live], in order of registration
          sessions,   \* [user, live], in order of login
          looking,    \* looking[r]: whose login r is and the sessions it saw
          admitted    \* the users who were given an access token

svars == <<accounts, sessions, looking, admitted>>

LiveSessions(u) == {t \in DOMAIN sessions : sessions[t].user = u /\ sessions[t].live}

Free(e) == \A u \in DOMAIN accounts : accounts[u].email # e

SInit == /\ accounts = <<>> /\ sessions = <<>>
         /\ looking = [r \in Requests |-> NotLooking]
         /\ admitted = {}

Join == \E e \in Addresses :
            /\ Free(e)
            /\ accounts' = Append(accounts, [email |-> e, live |-> TRUE])
            /\ UNCHANGED <<sessions, looking, admitted>>

Rename(u) == \E e \in Addresses :
                 /\ accounts[u].live /\ Free(e)
                 /\ accounts' = [accounts EXCEPT ![u].email = e]
                 /\ UNCHANGED <<sessions, looking, admitted>>

Leave(u) == /\ accounts[u].live
            /\ accounts' = [accounts EXCEPT ![u].live = FALSE]
            /\ UNCHANGED <<sessions, looking, admitted>>

Look(r, u) == /\ looking[r] = NotLooking
              /\ looking' = [looking EXCEPT ![r] = [user |-> u, saw |-> LiveSessions(u)]]
              /\ UNCHANGED <<accounts, sessions, admitted>>

\* The caller may not learn of it, and is not let in then.
Replace(r) ==
    LET new == [user |-> looking[r].user, live |-> TRUE]
    IN  /\ looking[r] # NotLooking
        /\ sessions' = Append([t \in DOMAIN sessions |->
                          [sessions[t] EXCEPT !.live = @ /\ t \notin looking[r].saw]], new)
        /\ looking' = [looking EXCEPT ![r] = NotLooking]
        /\ admitted' \in {admitted, admitted \cup {looking[r].user}}
        /\ UNCHANGED accounts

GiveUp(r) == /\ looking' = [looking EXCEPT ![r] = NotLooking]
             /\ UNCHANGED <<accounts, sessions, admitted>>

\* The process ends: no login is half done.
Forget == /\ looking' = [r \in Requests |-> NotLooking]
          /\ UNCHANGED <<accounts, sessions, admitted>>

SNext == \/ Join
         \/ \E u \in DOMAIN accounts : Rename(u) \/ Leave(u)
         \/ \E r \in Requests : \/ \E u \in DOMAIN accounts : Look(r, u)
                                \/ Replace(r) \/ GiveUp(r)
         \/ Forget

SSpec == SInit /\ [][SNext]_svars
=============================================================================
