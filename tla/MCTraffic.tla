----------------------------- MODULE MCTraffic -----------------------------
(* Traffic on a DPT of every kind that the code tells apart, texts at the  *)
(* ends of ranges and halves, and four addresses that cannot be stored.   *)
EXTENDS Traffic, TLC

CONSTANTS d1, d5, d6, d9, d16, d18, d10, d27, a1, a5, a6, a9, a16, a18, a10, a27, bare, u1, u2, u3

MCMain == d1 :> 1 @@ d5 :> 5 @@ d6 :> 6 @@ d9 :> 9 @@ d16 :> 16 @@ d18 :> 18 @@ d10 :> 10 @@ d27 :> 27

Bits(n, s) == [scalar |-> None, range |-> None, base |-> None, bits |-> n, signedness |-> s]

MCDefinition ==
  d1 :> Bits(1, None) @@
  d5 :> [scalar |-> <<0, 100>>, range |-> None, base |-> <<0, 255>>, bits |-> 8, signedness |-> "unsigned"] @@
  d6 :> Bits(8, "signed") @@
  d9 :> [scalar |-> None, range |-> <<-273, 670>>, base |-> None, bits |-> 16, signedness |-> None] @@
  d16 :> Bits(112, None) @@ d18 :> Bits(8, None) @@ d10 :> Bits(24, None) @@ d27 :> None

MCDptOf == a1 :> d1 @@ a5 :> d5 @@ a6 :> d6 @@ a9 :> d9 @@ a16 :> d16 @@ a18 :> d18 @@
           a10 :> d10 @@ a27 :> d27 @@ bare :> None

Other(kind) == [kind |-> kind, tenths |-> 0, exponent |-> FALSE, bare |-> FALSE, dated |-> FALSE]
Number(t)   == [kind |-> "number", tenths |-> t, exponent |-> FALSE, bare |-> t >= 0 /\ t % 10 = 0, dated |-> FALSE]

MCText == {Other(k) : k \in {"empty", "true", "object", "other"}}
            \cup {Number(t) : t \in {-2731, -1285, 0, 10, 215, 1004, 1005, 1275, 6701}}
            \cup {[Other("other") EXCEPT !.dated = TRUE], [Number(500) EXCEPT !.exponent = TRUE, !.bare = FALSE]}

MCSymmetry == Permutations(Raw)
=============================================================================
