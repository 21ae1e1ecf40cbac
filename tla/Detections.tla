----------------------------- MODULE Detections -----------------------------
(***************************************************************************)
(* From a detector's output to boxes in the caller's image                 *)
(* (api/services/inference_service.py, api/utils/image_processing.py).     *)
(* Numbers are integers: scores and thresholds are percentages, a box of   *)
(* the model's input is in half pixels, a box of the image in 1/(2 * side) *)
(* of the scaled length, side being that of the model's square input.      *)
(***************************************************************************)
EXTENDS Integers, Sequences

LOCAL INSTANCE SequencesExt
LOCAL INSTANCE TLC

Least(m, n) == IF m < n THEN m ELSE n
Most(m, n) == IF m > n THEN m ELSE n

-----------------------------------------------------------------------------
(* The letterbox.                                                          *)

\* Python's round() of p / q: halves go to the even neighbour.
Rounded(p, q) ==
  LET below == p \div q
      twice == 2 * (p % q)
  IN IF twice > q \/ (twice = q /\ below % 2 = 1) THEN below + 1 ELSE below

\* The longer side fills the input; the scale is side / Longer.
Longer(width, height) == Most(width, height)
Scaled(length, longer, side) == Rounded(length * side, longer)

\* Twice the padding, which may be a half, and where the image really is.
TwicePad(scaled, side) == side - scaled
PastedAt(scaled, side) == Rounded(TwicePad(scaled, side), 2)

\* Mutant: the scale is undone before the padding.
ScaledFirst(at, length, longer, side) ==
  Most(0, Least(length * 2 * side,
                at * longer - TwicePad(Scaled(length, longer, side), side) * side))
\* scale_boxes_to_original() along one axis, clipped to the image.
Unscaled(at, length, longer, side) ==
  Most(0, Least(length * 2 * side,
                (at - TwicePad(Scaled(length, longer, side), side)) * longer))

-----------------------------------------------------------------------------
(* Duplicates.                                                             *)

Side(from, to) == Most(0, to - from)
Area(box) == Side(box.x1, box.x2) * Side(box.y1, box.y2)
Overlap(a, b) ==
  Side(Most(a.x1, b.x1), Least(a.x2, b.x2)) * Side(Most(a.y1, b.y1), Least(a.y2, b.y2))

\* IoU above the threshold; two boxes without area are no duplicates.
Duplicate(a, b, iou) ==
  LET union == Area(a) + Area(b) - Overlap(a, b)
  IN union > 0 /\ Overlap(a, b) * 100 > iou * union

Numbered(order) == [i \in DOMAIN order |-> [box |-> order[i].box, nth |-> i]]

\* Mutant: a box goes for a better one that has gone itself.
AnyBetter(order, iou) ==
  SelectSeq(Numbered(order),
            LAMBDA c : \A j \in 1 .. c.nth - 1 : ~Duplicate(order[j].box, c.box, iou))
\* nms() of candidates in the order of their scores: the best of those left
\* is kept and its duplicates go, until none are left.
nms(order, iou) ==
  LET KeepBest(state, i) ==
        IF state.left = <<>> THEN state
        ELSE LET best == Head(state.left) IN
             [kept |-> Append(state.kept, best),
              left |-> SelectSeq(Tail(state.left), LAMBDA c : ~Duplicate(best.box, c.box, iou))]
  IN FoldLeft(KeepBest, [kept |-> <<>>, left |-> Numbered(order)], [i \in DOMAIN order |-> i]).kept

-----------------------------------------------------------------------------
(* The output of the model.                                                *)

\* A centre and a size in pixels as corners in half pixels.
Corners(raw) ==
  [x1 |-> 2 * raw.x - raw.w, y1 |-> 2 * raw.y - raw.h,
   x2 |-> 2 * raw.x + raw.w, y2 |-> 2 * raw.y + raw.h]

\* A score that is no probability is clamped.
Clamped(score) == Most(0, Least(100, score))

InImage(box, width, height, side) ==
  LET longer == Longer(width, height) IN
  [x1 |-> Unscaled(box.x1, width, longer, side), x2 |-> Unscaled(box.x2, width, longer, side),
   y1 |-> Unscaled(box.y1, height, longer, side), y2 |-> Unscaled(box.y2, height, longer, side)]

\* The candidates that are sure enough, the best first.
Sure(anchors, confidence) ==
  SortSeq(SelectSeq([i \in DOMAIN anchors |->
                       [box |-> Corners(anchors[i].raw), class |-> anchors[i].class,
                        score |-> Clamped(anchors[i].score)]],
                    LAMBDA c : c.score >= confidence),
          LAMBDA a, b : a.score > b.score)

\* _decode_detections(): the cap comes before the filter by class.
Decode(anchors, request) ==
  LET order == Sure(anchors, request.confidence)
      kept == nms(order, request.iou)
      capped == [i \in 1 .. Least(Len(kept), request.max_detections) |-> order[kept[i].nth]]
      wanted == SelectSeq(capped, LAMBDA c : request.classes = {} \/ c.class \in request.classes)
  IN [i \in DOMAIN wanted |->
        [class |-> wanted[i].class, score |-> wanted[i].score,
         box |-> InImage(wanted[i].box, request.width, request.height, request.side)]]

-----------------------------------------------------------------------------
(* Properties, for a given input.                                          *)

(* What the caller is sent is sorted, sure enough, not too much, and lies  *)
(* inside the image.                                                       *)
FitsTheRequest(detections, request) ==
  /\ Len(detections) <= request.max_detections
  /\ \A i \in DOMAIN detections :
       LET d == detections[i] IN
       /\ d.score >= request.confidence /\ d.score <= 100
       /\ request.classes # {} => d.class \in request.classes
       /\ \A j \in i .. Len(detections) : detections[j].score <= d.score
       /\ {d.box.x1, d.box.x2} \subseteq 0 .. request.width * 2 * request.side
       /\ {d.box.y1, d.box.y2} \subseteq 0 .. request.height * 2 * request.side

(* A box is kept if and only if it is no duplicate of a better box that is *)
(* kept.                                                                   *)
KeptAreTheBest(order, iou) ==
  LET kept == {c.nth : c \in ToSet(nms(order, iou))} IN
  \A i \in DOMAIN order :
    i \in kept <=> \A j \in kept : j < i => ~Duplicate(order[j].box, order[i].box, iou)

(* The edges of the image, where they lie in the model's input, come back  *)
(* to within a pixel of that input.                                        *)
EdgesComeHome(length, longer, side) ==
  LET scaled == Scaled(length, longer, side)
      first == Unscaled(2 * PastedAt(scaled, side), length, longer, side)
      last == Unscaled(2 * (PastedAt(scaled, side) + scaled), length, longer, side)
  IN first <= 2 * longer /\ last >= 2 * side * length - 2 * longer
=============================================================================
