------------------------------ MODULE Admission ------------------------------
(***************************************************************************)
(* What stands before a handler: the headers security.mjs puts on every    *)
(* answer; and for an admin handler the IP allow-list of cidr.mjs and the  *)
(* bearer check of auth.mjs, in the order in which admin() of              *)
(* server-sovereign.mjs applies them after the rate limiter.               *)
(*                                                                         *)
(* An address as written is [form, bytes]: "v4" has V4Bytes bytes, "v6"    *)
(* V6Bytes, "mapped" (::ffff:a.b.c.d) V4Bytes, and "other" is a text that  *)
(* does not parse. Secrets and their hashes are kept apart by HashOf.      *)
(***************************************************************************)
EXTENDS Integers, Sequences, SequencesExt

CONSTANTS ByteBits, V4Bytes, V6Bytes  \* 8, 4 and 16 in the code

ASSUME WidthAssumption ==
  /\ ByteBits \in Nat \ {0} /\ V4Bytes \in Nat \ {0}
  /\ V6Bytes \in Nat /\ V6Bytes >= V4Bytes + 2

Width(f)    == IF f = 4 THEN V4Bytes ELSE V6Bytes
FullBits(f) == ByteBits * Width(f)
NoAddress   == [family |-> 0, bytes |-> <<>>]

\* The powers of two, as far as addresses have bits.
Pow2[n \in 0..(ByteBits * V6Bytes)] == IF n = 0 THEN 1 ELSE 2 * Pow2[n - 1]
Base == Pow2[ByteBits]
Byte == 0..(Base - 1)

\* Addresses as they may be written.
Address ==
  [form : {"v4", "mapped"}, bytes : [1..V4Bytes -> Byte]]
    \cup [form : {"v6"}, bytes : [1..V6Bytes -> Byte]] \cup {[form |-> "other", bytes |-> <<>>]}

-------------------------------------------------------------------------------
(***************************************************************************)
(* cidr.mjs                                                                *)
(***************************************************************************)
\* A mapped address is an address of family 6: zeros, two bytes of ones, the v4 bytes.
ParseV6(text) ==
  IF text.form # "mapped" THEN text.bytes
  ELSE [i \in 1..(V6Bytes - V4Bytes) |->
          IF i > V6Bytes - V4Bytes - 2 THEN Base - 1 ELSE 0] \o text.bytes

ParseIp(text) ==
  CASE text.form = "v4"                -> [family |-> 4, bytes |-> text.bytes]
    [] text.form \in {"v6", "mapped"}  -> [family |-> 6, bytes |-> ParseV6(text)]
    [] OTHER                           -> NoAddress

\* An entry is [addr, mask]; a mask of -1 stands for an entry without a suffix.
WellFormed(entry) ==
  LET ip == ParseIp(entry.addr) IN
  ip # NoAddress /\ entry.mask \in -1..FullBits(ip.family)

ParseCidr(entry) ==
  LET ip == ParseIp(entry.addr) IN
  [family |-> ip.family, bytes |-> ip.bytes,
   mask   |-> IF entry.mask = -1 THEN FullBits(ip.family) ELSE entry.mask]

HighBits(byte, n) == byte - (byte % Pow2[ByteBits - n])  \* byte & (0xff << (8 - n))

\* Mutant: a range whose mask ends inside a byte is compared on whole bytes only.
InCidrWholeBytes(ip, cidr) ==
  /\ cidr.family = ip.family
  /\ \A i \in DOMAIN ip.bytes :
       ByteBits * i <= cidr.mask => ip.bytes[i] = cidr.bytes[i]

\* Byte by byte until the mask is used up; the last byte may count in part.
InCidr(ip, cidr) ==
  /\ cidr.family = ip.family
  /\ \A i \in DOMAIN ip.bytes :
       LET remaining == cidr.mask - ByteBits * (i - 1)
           take      == IF remaining < ByteBits THEN remaining ELSE ByteBits
       IN remaining > 0 => HighBits(ip.bytes[i], take) = HighBits(cidr.bytes[i], take)

MatchesAny(text, list) ==
  \/ list = <<>>
  \/ /\ ParseIp(text) # NoAddress
     /\ \E e \in Range(list) : InCidr(ParseIp(text), ParseCidr(e))

-------------------------------------------------------------------------------
(***************************************************************************)
(* auth.mjs                                                                *)
(***************************************************************************)
HashOf(secret) == <<"sha256", secret>>
NoHash == <<>>

\* loadAdminConfig. env.token is "", "short" (under 16 characters) or a secret;
\* env.hash is NoHash, <<"malformed">> (not 32 bytes) or the hash of a secret.
LoadAdminConfig(env) ==
  LET conflict == IF env.anon THEN env.token # "" \/ env.hash # NoHash
                              ELSE env.token # "" /\ env.hash # NoHash
      unset    == /\ ~env.anon
                  /\ \/ env.hash = <<"malformed">>
                     \/ env.hash = NoHash /\ env.token \in {"", "short"}
  IN IF conflict \/ unset     THEN [mode |-> "refused"]
     ELSE IF env.anon         THEN [mode |-> "anon"]
     ELSE IF env.hash # NoHash THEN [mode |-> "hashed", tokenHash |-> env.hash]
                              ELSE [mode |-> "static", token |-> env.token]

\* checkAdmin. bearer is what extractBearer found: a secret, or "" for none.
CheckAdmin(bearer, config) ==
  IF config.mode = "anon" THEN "anon"
  ELSE IF bearer = "" THEN "no_token"
  ELSE LET target == IF config.mode = "hashed" THEN config.tokenHash
                                               ELSE HashOf(config.token)
       IN IF HashOf(bearer) = target THEN "ok" ELSE "bad_token"

-------------------------------------------------------------------------------
(***************************************************************************)
(* security.mjs. Both loaders throw, and end the boot, on what they refuse *)
(***************************************************************************)
\* env.hsts is "off", "on", or "bad" for a max-age that is no number or out of range.
LoadSecurityConfig(env) == [refused |-> env.hsts = "bad", hstsEnabled |-> env.hsts = "on"]

Always == {"nosniff", "frame-options", "referrer-policy", "content-security-policy",
           "resource-policy", "opener-policy", "cross-domain-policies"}
SecurityHeaders(config) == Always \cup (IF config.hstsEnabled THEN {"hsts"} ELSE {})

\* env.origins are the origins configured. An entry of a list that is no http(s)
\* origin, "*" among them, refuses the list.
LoadCorsConfig(env) ==
  CASE env.origins = <<>> -> [mode |-> "off", allowCreds |-> env.credentials]
    [] env.origins = <<"*">> ->
         [mode |-> IF env.credentials THEN "refused" ELSE "wildcard", allowCreds |-> FALSE]
    [] OTHER ->
         [mode |-> IF Range(env.origins) \cap {"*", "malformed"} # {} THEN "refused" ELSE "list",
          origins |-> Range(env.origins), allowCreds |-> env.credentials]

\* Mutant: whatever origin asks is echoed.
EchoOrigin(req, config) == IF config.mode = "off" THEN "" ELSE req.origin

\* applyCors. req.origin is "" when the request has none.
AllowOrigin(req, config) ==
  CASE config.mode = "wildcard" -> "*"
    [] config.mode = "list" /\ req.origin # "" /\ req.origin \in config.origins -> req.origin
    [] OTHER -> ""

Headers(req, env) ==
  LET cors == LoadCorsConfig(env) IN
  [security    |-> SecurityHeaders(LoadSecurityConfig(env)),
   origin      |-> AllowOrigin(req, cors),
   credentials |-> AllowOrigin(req, cors) # "" /\ cors.allowCreds]

-------------------------------------------------------------------------------
(***************************************************************************)
(* The gates of an admin route.                                            *)
(***************************************************************************)
\* extractClientIp: the last hop the proxy reports, else the socket's address.
ExtractClientIp(req) == IF req.xff # <<>> THEN Last(req.xff) ELSE req.socket

\* cidrGate, then requireAdmin: the status they answer, or 0 to go on.
CidrGate(req, list)       == IF MatchesAny(ExtractClientIp(req), list) THEN 0 ELSE 403
RequireAdmin(req, config) == IF CheckAdmin(req.bearer, config) \in {"anon", "ok"} THEN 0 ELSE 401

AdminGates(req, list, config) ==
  IF CidrGate(req, list) # 0 THEN CidrGate(req, list) ELSE RequireAdmin(req, config)

-------------------------------------------------------------------------------
(***************************************************************************)
(* What the gates are for, said without reference to how they work: a      *)
(* range is an interval of numbers, and an operator has set one secret.    *)
(***************************************************************************)
Value(bytes) ==
  LET value[n \in 0..Len(bytes)] == IF n = 0 THEN 0 ELSE value[n - 1] * Base + bytes[n]
  IN value[Len(bytes)]

Covers(cidr, ip) ==
  LET size  == Pow2[FullBits(cidr.family) - cidr.mask]
      first == (Value(cidr.bytes) \div size) * size
  IN cidr.family = ip.family /\ Value(ip.bytes) \in first..(first + size - 1)

Allowed(req, list) ==
  LET ip == ParseIp(ExtractClientIp(req)) IN
  list # <<>> => ip # NoAddress /\ \E e \in Range(list) : Covers(ParseCidr(e), ip)

\* The one secret that opens the admin routes of this server.
Authorised(req, env) ==
  IF env.anon THEN env.token = "" /\ env.hash = NoHash
  ELSE req.bearer # "" /\ {HashOf(req.bearer)} =
         ({env.hash} \cup (IF env.token = "" THEN {} ELSE {HashOf(env.token)})) \ {NoHash}
===============================================================================
