---------------------------- MODULE MCUserList -----------------------------
(* Small instances of UserList for TLC.                                     *)
EXTENDS UserList, TLC

CONSTANTS u1, u2, u3, u4

AnyPage   == {-2, 0, 1, 2, 3, 9}
AnySize   == {-1, 0, 1, 2}
Symmetric == Permutations(Users)
=============================================================================
