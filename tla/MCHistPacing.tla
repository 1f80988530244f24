---------------------------- MODULE MCHistPacing ----------------------------
(* HistPacing on small instances: exchanges a and b are at farm f, c is at *)
(* farm g; of b the program does not know it.                              *)
EXTENDS HistPacing

MCHardCoded == [e \in Exchanges |-> IF e = "a" THEN "f" ELSE IF e = "c" THEN "g" ELSE NoFarm]
WrongTable  == [e \in Exchanges |-> "g"]
MCTrueFarm  == [e \in Exchanges |-> IF e = "c" THEN "g" ELSE "f"]

ThreeExchanges == {<<"a">>, <<"b">>, <<"c">>}
AtFarmF        == {<<"a">>, <<"b">>}
TwoLists       == {<<"b">>, <<"a", "c", "c">>}
=============================================================================
