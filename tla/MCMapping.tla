----------------------------- MODULE MCMapping -----------------------------
(* Mapping on two sites: files with a rule for one site and one for all in   *)
(* both orders, with a bad line, and with an added and an overridden address. *)
EXTENDS Mapping, TLC

CONSTANTS s1, s2, g1, g2, g3, room, d9, d9001, d5, d27

MCSubtyped == [d \in Dpt |-> IF d = d9 THEN d9001 ELSE d]

NameRule(o, n, d) ==
  [owner |-> o, ga |-> None, names |-> n, dpt |-> d, override |-> FALSE, name |-> None, ok |-> TRUE]
AddressRule(o, g, d, over, n) ==
  [owner |-> o, ga |-> g, names |-> {}, dpt |-> d, override |-> over, name |-> n, ok |-> TRUE]
Bad == [owner |-> Nobody, ga |-> None, names |-> {}, dpt |-> None, override |-> FALSE, name |-> None, ok |-> FALSE]

MCFile == {
  <<NameRule(s1, {room, g3}, d5), NameRule(Shared, {room}, d9)>>,
  <<NameRule(Shared, {room}, d9), NameRule(s1, {room, g3}, d5)>>,
  <<AddressRule(s1, g1, None, FALSE, g1), Bad, NameRule(Shared, {room}, d9)>>,
  <<AddressRule(s1, g3, d9, FALSE, None), AddressRule(s1, g2, d27, TRUE, room)>> }

MCExport == {
  <<>>,
  (g1 :> [name |-> room, dpt |-> None, stored |-> FALSE]) @@ (g2 :> [name |-> g2, dpt |-> d5, stored |-> FALSE]) }
=============================================================================
