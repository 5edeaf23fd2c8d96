------------------------------ MODULE MCRealtime ------------------------------
(***************************************************************************)
(* Two attempts of one user's feed, one in each process, and a stream of   *)
(* another user in the second process.                                     *)
(***************************************************************************)
EXTENDS Realtime

CONSTANTS f1, f2, u1, u2, h1, h2, s1, s2, s3

MCFeedOf == [s \in Sockets |-> IF s = s3 THEN f2 ELSE f1]
MCUserOf == [f \in Feeds |-> IF f = f1 THEN u1 ELSE u2]
MCHostOf == [s \in Sockets |-> IF s = s1 THEN h1 ELSE h2]

=============================================================================
