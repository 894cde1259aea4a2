------------------------------ MODULE MCServices ------------------------------
(***************************************************************************)
(* Two clients of one subnet; two branches of headers that part after the  *)
(* fourth; a host, and its address as a name; and transactions             *)
(* of each form and payload, with few scripts and witnesses.               *)
(***************************************************************************)
EXTENDS Services, TLC

Wires == INSTANCE SpecialTx

CONSTANTS c1, c2, g1, a, ip

MCGroupOf == c1 :> g1 @@ c2 :> g1
MCChains == {<<1, 2, 3, 4, 5, 6, 7>>, <<1, 2, 3, 4, 15, 16, 17, 18>>}
MCAddressOf == a :> ip @@ ip :> ip

\* Lengths of the scripts of inputs and outputs, and of the items of witnesses.
Forms ==
    {<<<<0>>, <<2>>, <<>>>>, <<<<0>>, <<2>>, <<<<1, 3>>>>>>, <<<<3, 0>>, <<>>, <<<<>>, <<2>>>>>>}
Tx(version, form, mweb) ==
    [version |-> version, inputs |-> form[1], outputs |-> form[2], witness |-> form[3], mweb |-> mweb]
Versions(c) ==
    CASE c = "diamond" -> {1, 12} [] c = "electra" -> {1, 7} [] c = "simplicity" -> {2, 3} [] OTHER -> {1, 2}
LitecoinTxs ==
    {Tx(2, f, m) : f \in Forms, m \in {"none", "null", "data"}} \cup {Tx(2, <<<<>>, <<>>, <<>>>>, "none")}

\* A payload of version 2 or more has the fields of the platform; see the README.
Payloads == {[version |-> v, type |-> IF v = 1 THEN 0 ELSE 1] : v \in 1 .. 3}
SpecialTxs(c) ==
    [version : {1, 2 + 65536 * 5}, tx_type : {0}, payload : {[version |-> 1, type |-> 0]}]
    \cup [version : {3}, tx_type : Wires!Handled(c) \cup {6}, payload : Payloads]

MCTxs ==
    [c \in Wires!SegWitCoins \cup Wires!LegacyCoins \cup Wires!SpecialCoins \cup {"decred"} |->
        IF c \in Wires!SpecialCoins THEN SpecialTxs(c)
        ELSE IF c \in Wires!LegacyCoins
        THEN {Tx(v, f, "none") : v \in Versions(c), f \in {g \in Forms : g[3] = <<>>}}
        ELSE IF c = "litecoin" THEN LitecoinTxs
        ELSE {Tx(v, f, "none") : v \in Versions(c), f \in Forms}]
MCHeaderTx == Tx(1, <<<<3>>, <<2, 2>>, <<>>>>, "none")
=============================================================================
