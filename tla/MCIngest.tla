------------------------------- MODULE MCIngest -------------------------------
(***************************************************************************)
(* A frame with two faces that match the same student and a row under the  *)
(* threshold; an empty frame without a course; and a batch that is too     *)
(* large.  A student who is not active when the faces are matched makes    *)
(* them faces without a student.  The tracker is evaluated over every      *)
(* batch of up to three frames with up to two faces each.                  *)
(***************************************************************************)
EXTENDS Ingest

CONSTANTS s1, stranger

Row(lo, score, person) == [lo |-> lo, hi |-> lo + 2, score |-> score, person |-> person]

MCBatches ==
    {[frames |-> <<<<Row(0, 2, s1), Row(5, 1, s1), Row(9, 0, stranger)>>>>,
      course |-> TRUE, bytes |-> <<1>>],
     [frames |-> <<<<>>>>, course |-> FALSE, bytes |-> <<1>>],
     [frames |-> <<<<>>, <<>>>>, course |-> TRUE, bytes |-> <<2, 1>>]}

\* Every detection gets a track, faces of one frame never share one, and a track that goes
\* on from the frame before has moved by at most MaxLink.
TrackIsSound(frames) ==
    LET out == Faces(frames)
        dets == [i \in DOMAIN frames |-> ByScore(Detections(frames[i]))]
    IN  /\ Len(out) = FoldLeft(LAMBDA n, d : n + Len(d), 0, dets)
        /\ \A i, j \in DOMAIN out :
              /\ i # j /\ out[i].frame = out[j].frame => out[i].track # out[j].track
              /\ out[j].frame = out[i].frame + 1 /\ out[i].track = out[j].track
                    => Distance(out[i].at, out[j].at) <= MaxLink

MCFrames == {<<>>} \cup {<<Row(lo, 1, s1)>> : lo \in 0 .. 3}
            \cup {<<Row(lo, 1, s1), Row(hi, 2, stranger)>> : lo, hi \in 0 .. 3}

ASSUME TracksAreSound ==
    \A n \in 1 .. 3 : \A frames \in [1 .. n -> MCFrames] : TrackIsSound(frames)

=============================================================================
