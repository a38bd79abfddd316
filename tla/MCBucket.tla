------------------------------- MODULE MCBucket -------------------------------
(* Instances of Bucket for TLC. *)
EXTENDS Bucket, TLC

CONSTANTS s1, s2, s3, u1, u2, u3, r1, w1

TwoSessions   == {s1, s2}
ThreeSessions == {s1, s2, s3}
TcpSessions   == {s2}
TwoUsers      == {u1, u2}
ThreeUsers    == {u1, u2, u3}
OneRoom       == {r1}
OneRoutine    == {w1}
NoRoutines    == {}

\* Every connection presents a token of a user of its own, for the room.
OwnThree == {<<s1, u1, r1>>, <<s2, u2, r1>>, <<s3, u3, r1>>}

\* Both connections have a token of the same user, and one of them has tokens of
\* two users and a request for no room.
Shared == {<<s1, u1, r1>>, <<s1, u2, NoRoom>>, <<s1, u2, r1>>, <<s2, u1, r1>>}
===============================================================================
