------------------------------ MODULE MCFormats ------------------------------
(* Formats for TLC: numbers at the edges of each form, every combination of *)
(* flags, and texts that cross the end of the buffer at every place.        *)
EXTENDS Formats

Dir(spec, flags, width, precision, arg) ==
  [spec |-> spec, flags |-> flags, width |-> width, precision |-> precision,
   long |-> FALSE, arg |-> arg]
Long(d) == [d EXCEPT !.long = TRUE]

Numbers == {Dir(s, f, w, p, a) : s \in {"d", "u", "x"}, f \in SUBSET Flag, w \in {0, 1, 4},
                                 p \in {-1, 0, 2}, a \in {-2, 0, 9, 16, 2047}}
Fields == {Dir(s, f, w, -1, a) : s \in {"d", "x"}, f \in SUBSET Flag, w \in {0, 3, 5},
                                 a \in {-2, 16}}
Words == {Dir("s", {}, 0, p, a) : p \in {-1, 0, 2}, a \in {-1, 0, 1, 4}}
Single == {Dir(s, {}, 0, -1, 5) : s \in {"c", "%", "literal", "p", "unknown"}}
Literal == Dir("literal", {}, 0, -1, 0)
Modified == {Long(Dir(s, {}, 0, -1, a)) : s \in {"d", "u"}, a \in {-2, 9}}

MCFormat ==
  {<<d>> : d \in Numbers \cup Words \cup Single \cup Modified} \cup {<<>>}
    \cup {<<Literal, d, Literal>> : d \in Fields \cup Modified}
    \cup {<<d, e, Literal>> : d \in Modified, e \in Words \cup Modified}
MCValue == {0, 127, 128, 16384, 2147483647}
MCLength == {0, 1, 85, 86, 128, 200}
MCEventId == {23, 32, 126, 127, 150, 332, 16384}
=============================================================================
