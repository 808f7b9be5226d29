---------------------------- MODULE MCAuthSessions ----------------------------
(* TLC instances of AuthSessions.                                           *)
EXTENDS AuthSessions, TLC

(* Requests are interchangeable.                                            *)
Interchangeable == Permutations(Requests)
=============================================================================
