------------------------------ MODULE TokenCodec ------------------------------
(***************************************************************************)
(* The wire format of a token: claims, payload and header, as the SDK      *)
(* (qv-sdk) and the Rust core (qv-core) write and read them.               *)
(*                                                                         *)
(* A string of bytes is a sequence of cells. A cell is a byte inside the   *)
(* claims; in the header it is a whole field, except that the two 64-bit   *)
(* fields are two cells, their halves. impl is "js" or "rust".             *)
(***************************************************************************)
EXTENDS Integers, Sequences, SequencesExt

CONSTANTS Half,      \* values of half a 64-bit field: 2^32
          TtlRange,  \* values of the ttl field: 2^32
          MapMax,    \* entries of a fixmap: 15
          FixMax,    \* bytes of a fixstr: 31
          Str8Max    \* bytes of a str8: 255

ASSUME CodecAssumption ==
  /\ Half \in Nat \ {0, 1} /\ TtlRange \in Nat \ {0, 1}
  /\ MapMax \in 0..15 /\ FixMax \in 0..31 /\ Str8Max \in FixMax..255

Fail  == [ok |-> FALSE]
Ok(v) == [ok |-> TRUE, value |-> v]

At(data, pos)         == IF pos \in 0..(Len(data) - 1) THEN data[pos + 1] ELSE -1
Slice(data, from, to) == SubSeq(data, from + 1, IF to < Len(data) THEN to ELSE Len(data))

-------------------------------------------------------------------------------
(***************************************************************************)
(* Claims: a map of strings to strings in a subset of MessagePack. A claim *)
(* is [key, type, text]; text is what String() makes of the value.         *)
(***************************************************************************)
Primitive == {"string", "number", "bigint", "boolean", "null"}

FixMap == 128  \* 0x80
FixStr == 160  \* 0xa0
Str8   == 217  \* 0xd9

EncodeStr(s) ==
  IF Len(s) <= FixMax THEN <<FixStr + Len(s)>> \o s ELSE <<Str8, Len(s)>> \o s

\* The SDK turns primitives into strings and refuses the rest; a Rust claim is a string.
Encodable(claims) ==
  /\ Len(claims) <= MapMax
  /\ \A c \in Range(claims) :
       c.type \in Primitive /\ Len(c.key) <= Str8Max /\ Len(c.text) <= Str8Max

EncodeClaims(claims) ==
  LET out[n \in 0..Len(claims)] ==
        IF n = 0 THEN <<FixMap + Len(claims)>>
        ELSE out[n - 1] \o EncodeStr(claims[n].key) \o EncodeStr(claims[n].text)
  IN out[Len(claims)]

\* The string at pos and the position after it. The SDK takes what there is of a string
\* that runs over the end; the core ("strict") wants the length and all of the string.
DecodeStr(data, pos, strict) ==
  LET b0     == At(data, pos)
      header == IF b0 = Str8 THEN 2 ELSE 1
      len    == IF b0 = Str8 THEN At(data, pos + 1) ELSE b0 - FixStr
      end    == pos + header + len
  IN IF \/ b0 \notin {Str8} \cup FixStr..(FixStr + FixMax)
        \/ strict /\ (len < 0 \/ end > Len(data))
     THEN Fail
     ELSE Ok([text |-> Slice(data, pos + header, end), next |-> end])

\* An entry: a string for the key, and behind it a string for the value.
EntryOf(key, text) ==
  IF ~text.ok THEN Fail
  ELSE Ok([claim |-> <<key.text, text.value.text>>, next |-> text.value.next])

DecodeEntry(data, pos, strict) ==
  LET key == DecodeStr(data, pos, strict)
  IN IF ~key.ok THEN Fail
     ELSE EntryOf(key.value, DecodeStr(data, key.value.next, strict))

\* The claims read so far, and one entry more.
Extend(sofar, entry) ==
  IF ~entry.ok THEN Fail
  ELSE Ok([claims |-> Append(sofar.claims, entry.value.claim), next |-> entry.value.next])

DecodeMap(data, strict) ==
  LET n == At(data, 0) - FixMap
      read[i \in 0..n] ==
        IF i = 0 THEN Ok([claims |-> <<>>, next |-> 1])
        ELSE IF ~read[i - 1].ok THEN Fail
        ELSE Extend(read[i - 1].value, DecodeEntry(data, read[i - 1].value.next, strict))
  IN IF n \notin 0..MapMax THEN Fail
     ELSE IF ~read[n].ok THEN Fail
     ELSE Ok(read[n].value.claims)

DecodeClaims(data)  == DecodeMap(data, FALSE)
Claims_decode(data) == DecodeMap(data, TRUE)

-------------------------------------------------------------------------------
(***************************************************************************)
(* The token.                                                              *)
(***************************************************************************)
Magic   == 7
Version == 3
HeaderLen == 10  \* 88 bytes
CtrLen    == 2   \* 8 bytes

Suites     == {5, 9, 16, 17, 255}  \* the ids Rust knows
TokenTypes == {1, 2, 3}

\* Mutant: the high half is left as it was, zero.
LowHalfOnly(v) == <<0, v % Half>>

WriteUint64(v)       == <<(v \div Half) % Half, v % Half>>
ReadUint64(data, at) == At(data, at) * Half + At(data, at + 1)
Uint32(v)            == v % TtlRange

SerializeToken(h, payload, signature) ==
  <<Magic, Version, h.suite, h.tokenType>> \o WriteUint64(h.issuedAt)
    \o <<Uint32(h.ttl), h.nonce, h.deviceFp, Len(payload)>> \o payload
    \o WriteUint64(h.mutationCtr) \o signature

\* Mutant: the signature does not cover the counter behind the payload.
SignsHeaderOnly(h, payload) ==
  SubSeq(SerializeToken(h, payload, <<>>), 1, HeaderLen + Len(payload))

\* The bytes that are signed: all but the signature.
SignedBytes(h, payload) == SerializeToken(h, payload, <<>>)

DeserializeToken(data) ==
  LET plLen == At(data, 9)
      ctrAt == HeaderLen + plLen
  IN IF \/ Len(data) < HeaderLen \/ At(data, 0) # Magic \/ At(data, 1) # Version
        \/ Len(data) < ctrAt + CtrLen
     THEN Fail
     ELSE Ok([header |-> [suite |-> At(data, 2), tokenType |-> At(data, 3),
                          issuedAt |-> ReadUint64(data, 4), ttl |-> At(data, 6),
                          nonce |-> At(data, 7), deviceFp |-> At(data, 8),
                          mutationCtr |-> ReadUint64(data, ctrAt)],
              payload   |-> Slice(data, HeaderLen, ctrAt),
              signature |-> Slice(data, ctrAt + CtrLen, Len(data))])

\* The core's to_bytes and from_bytes. It knows its suites and types, and wants a signature.
U64(v) == <<(v \div Half) % Half, v % Half>>

To_bytes(h, payload, signature) ==
  <<Magic, Version, h.suite, h.tokenType>> \o U64(h.issuedAt)
    \o <<h.ttl, h.nonce, h.deviceFp, Len(payload)>> \o payload \o U64(h.mutationCtr) \o signature

Signed_bytes(h, payload) == To_bytes(h, payload, <<>>)

From_bytes(data) ==
  LET raw == DeserializeToken(data)
  IN IF /\ raw.ok /\ raw.value.signature # <<>>
        /\ raw.value.header.suite \in Suites /\ raw.value.header.tokenType \in TokenTypes
     THEN raw ELSE Fail

\* inspectToken: what a token says of itself, unverified.
InspectToken(data) ==
  LET t == DeserializeToken(data)
  IN IF ~t.ok THEN Fail
     ELSE Ok([issuedAt |-> t.value.header.issuedAt, ttl |-> t.value.header.ttl,
              mutationCtr |-> t.value.header.mutationCtr, totalBytes |-> Len(data)])
===============================================================================
