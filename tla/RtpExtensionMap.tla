--------------------------- MODULE RtpExtensionMap ---------------------------
(***************************************************************************)
(* Which header extension goes by which id: rtp_header_extension_map.cc    *)
(* of WebRTC.  A map is a function from types to ids, 0 (kInvalidId) for a *)
(* type that is not registered, with the flag extmap_allow_mixed_.         *)
(***************************************************************************)
EXTENDS Integers, FiniteSets, TLC

CONSTANT Types   \* the extension types of kExtensions that are looked at

kInvalidId == 0
kInvalidType == "none"
kMinId == 1
kMaxId == 255

EmptyMap(mixed) == [ids |-> [type \in Types |-> kInvalidId], mixed |-> mixed]

IsRegistered(map, type) == map.ids[type] # kInvalidId
GetId(map, type) == map.ids[type]
GetType(map, id) ==
  IF \E type \in Types : map.ids[type] = id
    THEN CHOOSE type \in Types : map.ids[type] = id
    ELSE kInvalidType

\* Register: an id of another type is refused; a type that has an id already is
\* given the new one (RTC_DCHECK forbids it in debug builds only).
Register(map, id, type) ==
  IF id \notin kMinId .. kMaxId \/ GetType(map, id) # kInvalidType THEN map
  ELSE [map EXCEPT !.ids[type] = id]

Deregister(map, type) ==
  IF IsRegistered(map, type) THEN [map EXCEPT !.ids[type] = kInvalidId] ELSE map
=============================================================================
