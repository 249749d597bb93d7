--------------------------- MODULE MCPilaLlamadas ---------------------------
(***************************************************************************)
(* Scripts for PilaLlamadas.                                               *)
(***************************************************************************)
EXTENDS PilaLlamadas

TresFunciones == {"f", "f2", "f3"}

(* Two levels of calls, with statements before and after each call.        *)
Plano ==
    [programa |-> <<"a", "f", "b", "f2", "fin">>,
     f        |-> <<"c", "f2", "d", "f2", "fin">>,
     f2       |-> <<"x", "y", "fin">>,
     f3       |-> <<"fin">>]

(* Three levels; the innermost function is called in the middle of its     *)
(* caller, and that one in the middle of the first.                        *)
Profundo ==
    [programa |-> <<"a", "f", "b", "fin">>,
     f        |-> <<"c", "f2", "d", "fin">>,
     f2       |-> <<"x", "f3", "y", "f3", "fin">>,
     f3       |-> <<"u", "v", "fin">>]

Ambos == {Plano, Profundo}

ASSUME ScriptsAssumption == SinRecursion
=============================================================================
