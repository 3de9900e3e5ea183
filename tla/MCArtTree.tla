----------------------------- MODULE MCArtTree -----------------------------
(* Instances of the radix tree: sets of callstacks over a few bytes.       *)
EXTENDS ArtTree

(* Every hard case: keys that are prefixes of each other, that end inside  *)
(* a prefix, that fill nodes with a prefix, that go on with zeroes where   *)
(* another ends, and common parts so long that they need a chain of inner  *)
(* nodes.                                                                  *)
HardKeys ==
  {<<a>> : a \in 0 .. 2} \cup {<<0, b>> : b \in 0 .. 1}
    \cup {<<0, 0, c>> : c \in 0 .. 2} \cup {<<1, 0, c>> : c \in 0 .. 1}
    \cup {<<1, 1, 1, 1, 1, 1, 1, d>> : d \in 1 .. 2} \cup {<<1, 1, 1, 1>>}

(* No key is a prefix of another, no common part outgrows prefix[], and    *)
(* only the root, which has no prefix then, gets more children than Cap4:  *)
(* it goes through every layout.                                           *)
TameKeys ==
  {<<0, 0, 0, 1>>, <<0, 0, 0, 2>>, <<0, 0, 1, 1>>, <<0, 1, 0, 1>>}
    \cup {<<a>> : a \in 1 .. 4}

(* Three keys that share their first byte: their node grows.               *)
GrownKeys == {<<1, b>> : b \in 1 .. 3}

(* A key that is a prefix of another.                                      *)
NestedKeys == {<<1>>, <<1, 2>>}
=============================================================================
