-------------------------------- MODULE Claims --------------------------------
(***************************************************************************)
(* The claims of an issue request: which ones validateClaims (claims.mjs)  *)
(* lets through, and which of those encodeClaims of the SDK can encode.    *)
(*                                                                         *)
(* Claims are the list of their values in the order in which walk() meets  *)
(* them, the whole first. A value has a kind, a depth, a size (characters, *)
(* elements or keys) and the length of the key it is under, 0 without one. *)
(* walk() stops at the first value that fails, so the caps bound its work. *)
(***************************************************************************)
EXTENDS Naturals, Sequences

CONSTANTS Cap,   \* loadClaimsConfig: depth, keys, array, string and nodes
          Wire   \* what the wire format holds: 15 entries, strings of 255 bytes

\* What loadClaimsConfig takes from the environment; the server refuses to start on more.
Caps == [depth  : 1..64,      keys  : 1..4096, array : 1..65536,
         string : 1..1048576, nodes : 1..1048576]

ASSUME CapAssumption ==
  /\ Cap  \in Caps
  /\ Wire \in [entries : Nat, bytes : Nat]

\* JSON.parse reads a number that is too large as infinite.
Fits(v) ==
  CASE v.kind = "string" -> v.size <= Cap.string
    [] v.kind = "array"  -> v.size <= Cap.array
    [] v.kind = "object" -> v.size <= Cap.keys
    [] OTHER             -> v.kind \in {"number", "boolean", "null"}

ValidateClaims(claims) ==
  /\ claims[1].kind = "object"
  /\ \A i \in DOMAIN claims :
       /\ claims[i].key <= Cap.string  \* checked before the value is entered
       /\ i <= Cap.nodes /\ claims[i].depth <= Cap.depth
       /\ Fits(claims[i])

\* A flat map of short strings; any other primitive becomes a short string.
EncodesClaims(claims) ==
  /\ claims[1].size <= Wire.entries
  /\ \A i \in 2..Len(claims) :
       /\ claims[i].kind \notin {"array", "object"}
       /\ claims[i].key <= Wire.bytes
       /\ claims[i].kind = "string" => claims[i].size <= Wire.bytes
===============================================================================
