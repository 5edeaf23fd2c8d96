------------------------------- MODULE Pipeline -------------------------------
(***************************************************************************)
(* The recognition pipeline as functions: detector rows become detections, *)
(* detections are linked into tracks, faces are matched to students.       *)
(*                                                                         *)
(* Source: backend/app/services/pipeline/{detection,tracking,matching}.py  *)
(*                                                                         *)
(* A frame is a sequence of detector rows, a row an interval with a score  *)
(* and the person it shows; one axis of the box stands for both.  Scores   *)
(* and similarities are compared with their thresholds only.               *)
(***************************************************************************)
EXTENDS Integers, Sequences, SequencesExt

CONSTANTS
    Width,          \* the frame's width
    MinScore,       \* the request's confidence_threshold
    MaxLink         \* tracking_distance_threshold, between doubled centroids

Clip(v) == IF v < 0 THEN 0 ELSE IF v > Width - 1 THEN Width - 1 ELSE v

\* _decode_bbox: both ends are clipped into the frame; an empty box is an error.
Box(row) == [lo |-> Clip(row.lo), hi |-> Clip(row.hi)]
IsBox(row) == Box(row).lo < Box(row).hi

\* _parse_detections: rows under the threshold or without a box are left out.
Detection(row) == [box |-> Box(row), score |-> row.score, person |-> row.person]
Detections(rows) ==
    LET kept == SelectSeq(rows, LAMBDA row : row.score >= MinScore /\ IsBox(row))
    IN  [i \in DOMAIN kept |-> Detection(kept[i])]

ByScore(dets) == SortSeq(dets, LAMBDA a, b : a.score > b.score)

\* _bbox_centroid, doubled so that it is an integer.
Centroid(det) == det.box.lo + det.box.hi
Distance(a, b) == IF a > b THEN a - b ELSE b - a

\* The nearest track of the previous frame that is still free and near enough.
Linkable(centroid, previous, free) ==
    {t \in free : Distance(centroid, previous[t]) <= MaxLink}
Nearest(centroid, previous, free) ==
    CHOOSE t \in Linkable(centroid, previous, free) :
        \A u \in Linkable(centroid, previous, free) :
            Distance(centroid, previous[t]) <= Distance(centroid, previous[u])

\* One detection of a frame, taken in order of score.
Link(acc, det) ==
    LET c == Centroid(det)
        link == Linkable(c, acc.previous, acc.free)
        track == IF link = {} THEN acc.next ELSE Nearest(c, acc.previous, acc.free)
    IN  [acc EXCEPT !.next = IF link = {} THEN @ + 1 ELSE @,
                    !.free = @ \ {track},
                    !.current = (track :> c) @@ @,
                    !.out = Append(@, [track |-> track, frame |-> acc.frame,
                                             at |-> c, person |-> det.person])]

LinkFrame(acc, dets) ==
    LET begin == [acc EXCEPT !.previous = acc.current, !.free = DOMAIN acc.current,
                             !.current = <<>>, !.frame = @ + 1]
    IN  FoldLeft(Link, begin, ByScore(dets))

\* A batch of one frame has no earlier frame to link to: its tracks are -1, -2, ...
SingleFrame(dets) == [i \in DOMAIN dets |-> [track |-> -i, frame |-> 1, at |-> Centroid(dets[i]),
                                              person |-> dets[i].person]]

\* _track_detections
Track(frames) ==
    IF Len(frames) = 1
      THEN SingleFrame(frames[1])
      ELSE FoldLeft(LinkFrame,
                    [previous |-> <<>>, free |-> {}, current |-> <<>>, next |-> 1,
                     frame |-> 0, out |-> <<>>],
                    frames).out

\* The faces of a batch, in the order in which the pipeline reports them.
Faces(frames) == Track([i \in DOMAIN frames |-> Detections(frames[i])])

=============================================================================
