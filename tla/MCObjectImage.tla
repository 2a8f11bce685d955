--------------------------- MODULE MCObjectImage ---------------------------
(* Short sources for ObjectImage: a small line, a large DS that leaves no  *)
(* room for a second one, and origins on both sides of the address wrap.   *)
EXTENDS ObjectImage

SmallSizes == {2, 40000}

(* For HeaderHoldsLength: two lines that fill the buffer. *)
FullSizes == {1, 65535}

TwoAddresses == {0, 65535}

OneAddress == {4096}
=============================================================================
