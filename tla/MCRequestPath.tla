---------------------------- MODULE MCRequestPath ---------------------------
(* One replica's requests, in three parts that share no state: a behaviour *)
(* runs the limiter's bucket against skewed clocks, or sends requests      *)
(* through the middlewares, or decodes one output of the detector (a bound *)
(* on behaviours, not on inputs).                                          *)
EXTENDS MCTokenBucket

CONSTANTS Exchanges, Keys, PerMinute, BatchCap, Expiry, MaxTokens, MaxMinutes, Sent,
          MaxBytes, MinSide, MaxSide, MaxPixels, Allowed, Forged, None

(* The values of PerMinute and BatchCap and, below, of Sent.               *)
TwoTiers == [free |-> 2, pro |-> 3]
TwoCaps == [free |-> 1, pro |-> 2]

Photo == [size |-> 14, magic |-> "JPEG", header |-> "ok", format |-> "JPEG",
          width |-> 3, height |-> 3, intact |-> TRUE, loads |-> TRUE]

(* A photograph with one thing wrong with it, or none.                     *)
Pictures ==
  {[Photo EXCEPT !.size = n] : n \in {0, 11, 12, MaxBytes, MaxBytes + 1}}
  \cup {[Photo EXCEPT !.magic = m] : m \in {"WEBP", "GIF", "RIFF", "none"}}
  \cup {[Photo EXCEPT !.header = h] : h \in {"ok", "unidentified", "corrupt"}}
  \cup {[Photo EXCEPT !.format = f] : f \in {"PNG", "GIF", "MPO"}}
  \cup {[Photo EXCEPT !.width = w, !.height = h] : w, h \in 1 .. 7}
  \cup {[Photo EXCEPT !.intact = i, !.loads = l] : i, l \in BOOLEAN}

Link == [parses |-> TRUE, scheme |-> "https", host |-> "named", port |-> "default",
         addresses |-> {"public"}]
Links ==
  {[Link EXCEPT !.parses = p] : p \in BOOLEAN}
  \cup {[Link EXCEPT !.scheme = s] : s \in {"http", "ftp"}}
  \cup {[Link EXCEPT !.host = h] : h \in {"none", "unencodable"}}
  \cup {[Link EXCEPT !.port = p] : p \in {"standard", "other", "invalid"}}
  \cup {[Link EXCEPT !.addresses = a] : a \in SUBSET {"public", "blocked"}}

Upload(picture) == [way |-> "upload", picture |-> picture]
Base64(picture, encoded) == [way |-> "base64", picture |-> picture, encoded |-> encoded]
Fetch(link, server, declared, picture) ==
  [way |-> "url", url |-> link, picture |-> picture,
   reply |-> [server |-> server, declared |-> declared, picture |-> picture]]

OneThingWrong ==
  {Upload(p) : p \in Pictures}
  \cup {Base64(p, e) : p \in Pictures, e \in BOOLEAN}
  \cup {Fetch(l, "ok", 0, Photo) : l \in Links}
  \cup {Fetch(Link, s, 0, p) : s \in {"ok", "redirect"}, p \in Pictures}
  \cup {Fetch(Link, s, d, Photo) : s \in {"ok", "redirect", "error", "timeout", "broken"},
                                   d \in {0, MaxBytes + 1}}
  \cup {[way |-> w, picture |-> Photo] : w \in {"none", "both"}}

VARIABLES exchange, configured, left, issued, clock, inProgress, lastHeld, taken,
          output  \* what the detector said, and what it was asked

Path == INSTANCE RequestPath
          WITH bucket <- left, spent <- taken, Capacity <- PerMinute,
               MaxTime <- MaxMinutes
ASSUME PathAssumption == Path!RequestAssumption

Boxes == INSTANCE Detections

pathVars == <<exchange, configured, left, issued, clock, inProgress, lastHeld, taken>>

NoOutput == [tool |-> "none"]

(* Boxes side by side, one in another, identical, without area, across the *)
(* edge of the input; some overlap like the links of a chain.              *)
Raws ==
  {[x |-> x, y |-> 4, w |-> 4, h |-> 4] : x \in {0, 2, 3, 4}}
  \cup {[x |-> 4, y |-> 4, w |-> w, h |-> 2] : w \in {0, 6}}
Anchors ==
  [raw : Raws, score : {20, 60, 120}, class : {1}]
  \cup [raw : {[x |-> 4, y |-> 4, w |-> 4, h |-> 4]}, score : {60}, class : {2}]

Detected ==
  [tool : {"detector"}, anchors : [1 .. 3 -> Anchors],
   request : [confidence : {0, 30}, iou : {0, 33}, max_detections : {1, 3},
              classes : {{}, {1}}, width : {12}, height : {4}, side : {8}]]
Boxed == [tool : {"letterbox"}, length : 1 .. 40, longer : 40 .. 60, side : {16, 17}]

MCInit == Init /\ Path!Init /\ output = NoOutput

BucketAtRest == Init /\ start = 0
PathAtRest == Path!Init /\ configured = [k \in Keys |-> None]

Ask ==
  /\ output = NoOutput /\ BucketAtRest /\ PathAtRest
  /\ output' \in Detected \cup Boxed
  /\ UNCHANGED <<vars, pathVars>>

MCNext ==
  \/ Ask
  \/ output = NoOutput /\ PathAtRest /\ Next /\ UNCHANGED <<pathVars, output>>
  \/ output = NoOutput /\ BucketAtRest /\ Path!Next /\ UNCHANGED <<vars, output>>

MCSpec == MCInit /\ [][MCNext]_<<vars, pathVars, output>>

(* A key and its tokens spend one allowance; access ends with the key and  *)
(* the life of its tokens (auth.py); the status of an answer tells whose   *)
(* fault it is (exceptions.py).                                            *)
OneAllowance == Path!OneAllowance
AccessEnds == Path!AccessEnds
StatusTellsTheFault == Path!StatusTellsTheFault

(* What a caller of the detector gets fits the request, and nothing is     *)
(* left out as a duplicate of what was left out (inference_service.py).    *)
DuplicatesOnly ==
  output.tool = "detector" =>
    /\ Boxes!KeptAreTheBest(Boxes!Sure(output.anchors, output.request.confidence),
                            output.request.iou)
    /\ Boxes!FitsTheRequest(Boxes!Decode(output.anchors, output.request), output.request)

(* The letterbox and its inverse agree to within a pixel of the model's    *)
(* input (image_processing.py).                                            *)
BoxesComeHome ==
  output.tool = "letterbox" => Boxes!EdgesComeHome(output.length, output.longer, output.side)
=============================================================================
