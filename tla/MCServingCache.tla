-------------------------- MODULE MCServingCache ---------------------------
(* ServingCache under names of its own, so that its properties can stand   *)
(* beside those of the slots.                                              *)
EXTENDS Naturals

CONSTANTS Lookups, Highest, Pins, Asked, None, Events, MaxEvents

VARIABLES disk, registry, entries, loaded, cache, request, events, struck

Cache == INSTANCE ServingCache WITH Requests <- Lookups, req <- request
ASSUME ServingAssumption == Cache!ServingAssumption

CacheSpec == Cache!Spec

(* Who pinned a version is answered by it or told (_predict() of           *)
(* inference_service.py).                                                  *)
PinIsHonoured == Cache!PinIsHonoured

(* A lookup finds what the files on disk would answer                      *)
(* (artifact_fingerprint() of model_service.py).                           *)
CacheIsFresh == Cache!CacheIsFresh
=============================================================================
