--------------------------- MODULE MCSessionTable ---------------------------
(***************************************************************************)
(* SessionTable for TLC.                                                   *)
(***************************************************************************)
EXTENDS SessionTable, TLC

CONSTANTS i1, i2, u1, u2

\* Two devices of one user, another user, and a client that comes back with
\* the session id of the first under another identity.
MCRequests ==
    { [id |-> i1, user |-> u1, conv |-> 1],
      [id |-> i2, user |-> u1, conv |-> 1],
      [id |-> i2, user |-> u2, conv |-> 1] }

\* Workers of one session only.
MCOneSession == { [id |-> i1, user |-> u1, conv |-> 1] }

MCMaxUserSessions == [u \in Users |-> 1]

Symmetry == Permutations(Handlers) \cup Permutations(Sessions)
=============================================================================
