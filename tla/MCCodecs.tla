------------------------------ MODULE MCCodecs ------------------------------
(***************************************************************************)
(* Inputs for Codecs: every pattern of up to three runs around the group   *)
(* of eight, the edges of the integer range, data that makes Snappy emit   *)
(* each of its elements.                                                   *)
(***************************************************************************)
EXTENDS Codecs

SeqsUpTo(S, n) == UNION {[1 .. k -> S] : k \in 0 .. n}

Runs(lengths) == FlattenSeq([i \in DOMAIN lengths |-> Copies(i % 2, lengths[i])])

MCRleInputs ==
  {[values |-> Runs(l), width |-> w] : l \in SeqsUpTo({1, 7, 8, 9}, 3), w \in {1, 3}}
  \cup {[values |-> [i \in 1 .. n |-> (i * 37) % 512], width |-> 9] : n \in {1, 8, 9, 17}}
  \cup {[values |-> Copies(300, 130), width |-> 9], [values |-> Copies(0, 5), width |-> 0]}

MCDeltaInputs ==
  SeqsUpTo({0, 1, 2 ^ (DeltaBits - 1) - 1, -(2 ^ (DeltaBits - 1))}, 4)
  \cup {[i \in 1 .. n |-> (i * i) % 50] : n \in {5, 6, 7, 9, 10}}

MCDictInputs == SeqsUpTo({<<>>, <<1>>, <<1, 2>>, <<2>>}, 4)

MCSplitInputs == SeqsUpTo({<<1, 2, 3, 4>>, <<5, 6, 7, 8>>, <<0, 0, 0, 255>>}, 3)

MCPageInputs ==
  SeqsUpTo({0, 1}, 9)
  \cup {Copies(3, n) : n \in {67, 68, 140}}
  \cup {[i \in 1 .. n |-> (i * i * 7) % 251] : n \in {60, 61, 62, 257, 258}}
  \cup {<<1, 2, 3, 4, 5, 6, 7, 8, 9, 9>> \o Copies(3, k) \o <<1, 2, 3, 4, 5, 6, 7, 8, 9, 9, 9, 9, 9>> : k \in {0, 4, 300}}

MCIndexInputs == SeqsUpTo(SeqsUpTo({NaN, Null, -1, 1}, 2), 2)

MCHashes == [hi : {0, 7, 15}, lo : {1, 6}]
MCZValues(type) ==
  CASE type = "INT32" -> {-8, -1, 0, 7}
    [] type = "INT64" -> {-128, -17, -16, 15, 16}
    [] type = "FLOAT" -> {1, 8, 9, 15}
    [] type = "DOUBLE" -> {0, 16, 144, 160, 255}
    [] type = "BYTE_ARRAY" -> {<<>>, <<0>>, <<3>>, <<3, 0, 3>>, <<3, 3>>}
    [] OTHER -> {0, 1}
=============================================================================
