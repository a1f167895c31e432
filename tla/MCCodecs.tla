------------------------------ MODULE MCCodecs ------------------------------
(***************************************************************************)
(* Codecs.tla on short inputs, with those that RFC 4648 encodes them as.   *)
(***************************************************************************)
EXTENDS Codecs

UpTo(units, n) == UNION { [1 .. k -> units] : k \in 0 .. n }

-----------------------------------------------------------------------------
(* Bytes at the borders of what the bit operations take apart; characters  *)
(* at the borders of the alphabets; every character once in every place.   *)

Characters(places) == { [places[2] EXCEPT ![places[1]] = c] : c \in 0 .. 255 }

MCData == UpTo({0, 15, 84, 176, 255}, 3) \cup [1 .. 4 -> {1, 254}] \cup [1 .. 1 -> Byte]

MCHexTexts ==
  UpTo({47, 48, 57, 58, 65, 70, 97, 103}, 3) \cup [1 .. 4 -> {57, 102, 103}]
  \cup Characters(<<1, <<48, 48>>>>) \cup Characters(<<2, <<48, 48>>>>)
  \cup { Base16(d) : d \in MCData }

Quads == { <<65, 65, 65, 65>>, <<65, 81, 61, 61>>, <<65, 65, 69, 61>>, <<122, 57, 47, 43>>,
           <<65, 65, 61, 65>> }

MCB64Texts ==
  UpTo({42, 43, 47, 61, 65, 122}, 4) \cup { q \o r : q \in Quads, r \in Quads }
  \cup UNION { Characters(<<k, <<65, 65, 65, 65>>>>) : k \in 1 .. 4 }
  \cup { Base64(d) : d \in MCData }
=============================================================================
