-------------------------- MODULE MCDeriveRecord --------------------------
(***************************************************************************)
(* DeriveRecord for TLC: every short name over a few characters.           *)
(***************************************************************************)
EXTENDS DeriveRecord

CONSTANT MaxName   \* bound: the length of a name

MCChar == {"a", "A", "i", "I", "d", "D", "1", "_", "-"}

MCLowerUpper == {<<"a", "A">>, <<"i", "I">>, <<"d", "D">>}

Names(chars, n) == UNION {[1 .. k -> chars] : k \in 1 .. n}

\* Identifiers that hold a letter: serde's camelCase has no answer for others.
MCFieldNames ==
  {n \in Names({"i", "_", "1"}, MaxName) :
     n[1] # "1" /\ \E i \in DOMAIN n : n[i] = "i"} \cup {Id}

MCStructNames == {n \in Names({"a", "A", "I"}, 3) : IsUpper(n[1])}

MCRules == Known \cup {"Title Case"}

=============================================================================
