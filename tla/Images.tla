------------------------------- MODULE Images -------------------------------
(***************************************************************************)
(* The way of an image into the API: where its bytes come from             *)
(* (api/dependencies.py, api/models/schemas.py), what validators.py asks   *)
(* of them, and the decoding of image_processing.py.                       *)
(*                                                                         *)
(* A picture is what the checks can tell apart.  An operator's value is    *)
(* "ok" or the name of the exception it raises; "Unhandled" is one the     *)
(* application does not know.                                              *)
(***************************************************************************)
EXTENDS Naturals, Sequences

CONSTANTS
  MaxBytes,   \* max_image_bytes
  MinSide,    \* min_image_dimension
  MaxSide,    \* max_image_dimension
  MaxPixels,  \* max_image_pixels
  Allowed     \* allowed_image_formats

Magics == {"JPEG", "PNG", "WEBP", "BMP", "GIF", "TIFF"}

Picture ==
  [ size : Nat,                            \* in bytes
    magic : Magics \cup {"RIFF", "none"},  \* what the first bytes say
    header : {"ok", "unidentified", "corrupt"},
    format : STRING, width : Nat, height : Nat,
    intact : BOOLEAN,                      \* verify() finds nothing
    loads : BOOLEAN ]                      \* and neither does load()
Url ==
  [ parses : BOOLEAN, scheme : STRING, host : {"named", "none", "unencodable"},
    port : {"default", "standard", "other", "invalid"},
    addresses : SUBSET {"public", "blocked"} ]
Reply ==
  [ server : {"ok", "redirect", "error", "timeout", "broken"},
    declared : Nat,                        \* Content-Length; 0 without one
    picture : Picture ]
Source ==
  [way : {"upload", "none", "both"}, picture : Picture]
  \cup [way : {"base64"}, picture : Picture, encoded : BOOLEAN]
  \cup {sent \in [way : {"url"}, picture : Picture, url : Url, reply : Reply] :
          sent.reply.picture = sent.picture}

\* The first of a sequence of <<passed, exception>> that did not pass.
FirstFailure(checks) ==
  IF \A i \in DOMAIN checks : checks[i][1] THEN "ok"
  ELSE LET first == CHOOSE i \in DOMAIN checks :
                      ~checks[i][1] /\ \A j \in 1 .. i - 1 : checks[j][1]
       IN checks[first][2]

-----------------------------------------------------------------------------
(* Validation, cheapest check first.                                       *)

\* "none" when the first bytes are those of no format; RIFF is also the
\* beginning of formats other than WEBP.
sniff_format(picture) ==
  IF picture.size >= 12 /\ picture.magic \in Magics THEN picture.magic ELSE "none"

Pixels(picture) == picture.width * picture.height

\* Pillow parses the header, and refuses twice MAX_IMAGE_PIXELS by itself.
Opens(picture) == picture.header = "ok" /\ Pixels(picture) <= 2 * MaxPixels

\* Mutant: what Pillow raises at a broken header is not caught.
HeaderUnguarded(picture) ==
  FirstFailure(<<
    <<picture.size > 0, "InvalidImage">>,
    <<picture.size <= MaxBytes, "ImageTooLarge">>,
    <<sniff_format(picture) # "none", "InvalidImage">>,
    <<Opens(picture), "Unhandled">>,
    <<picture.format \in Allowed, "UnsupportedFormat">> >>)
validate_image_bytes(picture) ==
  FirstFailure(<<
    <<picture.size > 0, "InvalidImage">>,
    <<picture.size <= MaxBytes, "ImageTooLarge">>,
    <<sniff_format(picture) # "none", "InvalidImage">>,
    <<Opens(picture), "InvalidImage">>,
    <<picture.format \in Allowed, "UnsupportedFormat">>,
    <<picture.width >= MinSide /\ picture.height >= MinSide, "InvalidImage">>,
    <<picture.width <= MaxSide /\ picture.height <= MaxSide, "ImageTooLarge">>,
    <<Pixels(picture) <= MaxPixels, "ImageTooLarge">>,
    <<picture.intact, "InvalidImage">> >>)

\* verify() reads the structure of a file; only loading finds the rest.
decode_image(picture) == IF picture.loads THEN "ok" ELSE "InvalidImage"

-----------------------------------------------------------------------------
(* Fetching from a URL.                                                    *)

\* urlparse(), its port property and the IDNA codec raise ValueError, which
\* nothing catches.
validate_image_url(url) ==
  FirstFailure(<<
    <<url.parses, "Unhandled">>,
    <<url.scheme \in {"http", "https"}, "Validation">>,
    <<url.host # "none", "Validation">>,
    <<url.port # "invalid", "Unhandled">>,
    <<url.port # "other", "Validation">>,
    <<url.host # "unencodable", "Unhandled">>,
    <<url.addresses # {}, "Validation">>,
    <<"blocked" \notin url.addresses, "Validation">> >>)

\* Redirects are not followed: what they carry is the image.
fetch_image_url(url, reply) ==
  FirstFailure(<<
    <<validate_image_url(url) = "ok", validate_image_url(url)>>,
    <<reply.server \notin {"timeout", "broken"}, "Validation">>,
    <<reply.server # "error", "Validation">>,
    <<reply.declared <= MaxBytes, "ImageTooLarge">>,
    <<reply.picture.size <= MaxBytes, "ImageTooLarge">> >>)

-----------------------------------------------------------------------------
(* A request's image, from whichever way it came.                          *)

\* A form's file, read in pieces.
read_upload(picture) ==
  FirstFailure(<<
    <<picture.size <= MaxBytes, "ImageTooLarge">>,
    <<picture.size > 0, "InvalidImage">> >>)

\* The body names one source; this is checked before any handler runs.
ImagePayload(sent) ==
  FirstFailure(<<
    <<sent.way # "none" /\ sent.way # "both", "Validation">>,
    <<sent.way = "url" => sent.url.scheme \in {"http", "https"}, "Validation">> >>)

resolve_image_bytes(sent) ==
  LET arrived ==
        CASE sent.way = "upload" -> read_upload(sent.picture)
          [] sent.way = "url" -> fetch_image_url(sent.url, sent.reply)
          [] sent.way = "base64" -> IF sent.encoded THEN "ok" ELSE "InvalidImage"
  IN IF arrived # "ok" THEN arrived ELSE validate_image_bytes(sent.picture)

-----------------------------------------------------------------------------
(* What an image is good for, independently of the order of the checks.    *)

Fetched(sent) ==
  CASE sent.way = "upload" -> TRUE
    [] sent.way = "base64" -> sent.encoded
    [] sent.way = "url" -> /\ sent.url.scheme \in {"http", "https"} /\ sent.url.host = "named"
                           /\ sent.url.port \in {"default", "standard"}
                           /\ sent.url.addresses = {"public"}
                           /\ sent.reply.server \in {"ok", "redirect"}
                           /\ sent.reply.declared <= MaxBytes
    [] OTHER -> FALSE

Usable(picture) ==
  /\ picture.size \in 12 .. MaxBytes
  /\ picture.magic \in Magics /\ picture.header = "ok" /\ picture.format \in Allowed
  /\ {picture.width, picture.height} \subseteq MinSide .. MaxSide
  /\ Pixels(picture) <= MaxPixels
  /\ picture.intact /\ picture.loads
=============================================================================
