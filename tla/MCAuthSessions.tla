---------------------------- MODULE MCAuthSessions ----------------------------
(***************************************************************************)
(* Instances of AuthSessions for TLC.                                      *)
(***************************************************************************)
EXTENDS AuthSessions, TLC

CONSTANTS s1, s2, s3, r1, r2, a1, a2

TwoSessions == {s1, s2}
ThreeSessions == {s1, s2, s3}
TwoRequests == {r1, r2}
TwoAddresses == {a1, a2}

\* Wrong passwords from two addresses; logins against revocations, crashes and the clock
\* of created_at; a session in use while it, its user or its role is taken away.
MeetingLoads ==
    {{"login", "guess"},
     {"login", "disable", "enable", "revokeAll", "crash"},
     {"login", "revokeAll", "tick"},
     {"login", "refresh", "authenticate", "disable", "enable"},
     {"login", "refresh", "logout", "cleanup", "tick"},
     {"login", "refresh", "cleanup", "expiry"},
     {"login", "authenticate", "logout", "roles", "expiry"}}

Symmetric ==
    Permutations(ThreeSessions) \cup Permutations(TwoRequests) \cup Permutations(TwoAddresses)
=============================================================================
