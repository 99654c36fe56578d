------------------------------- MODULE MCHPACK -------------------------------
(* A small instance of HPACK for TLC.  The codes of a, X and ! have five,    *)
(* eight and ten bits.  The table holds two of the fields.                   *)
EXTENDS HPACK, TLC

a == 97
X == 88
mark == 33

Field(name, value) == [name |-> name, value |-> value]

(* Fourteen names, so that the first dynamic index is fifteen.               *)
MCStaticTable == [i \in 1..14 |-> Field(<<IF i = 5 THEN 100 ELSE 96 + i>>,
                                        CASE i = 4 -> <<a>> [] i = 5 -> <<X>> [] OTHER -> <<>>)]

Known    == Field(<<100>>, <<X>>)
NameOnly == Field(<<100>>, <<X, X>>)
New      == Field(<<a, a, a>>, <<X>>)
Secret   == Field(<<a, a, a>>, <<a>>)
Empty    == Field(<<X>>, <<>>)
Big      == Field(<<X, X, X>>, <<X, X, X>>)
LongName  == Field(<<a, a, a, a, a, mark>>, <<>>)
LongValue == Field(<<X>>, <<a, a, a, a, a, mark>>)

MCPlain   == {Known, NameOnly, New, Secret, Empty, Big}
MCSecrets == {Secret}
MCFields  == MCPlain \cup {LongName, LongValue}

(* The index 0, a name of no length, the index 15.                           *)
MCForeign == {<<128>>, <<64, 0>>, <<143, 0>>}

=============================================================================
