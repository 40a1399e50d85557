----------------------------- MODULE MC_Registry -----------------------------
(* Instances of Registry for TLC: five nodes, two of one name, another of    *)
(* the same alias, one whose bare name is that of a built-in.                *)
EXTENDS Registry, TLC

CONSTANTS riglist, twinA, twinB, under, bare

MC_Nodes == {riglist, twinA, twinB, under, bare}
MC_NameOf == riglist :> <<"rig", ".", "list">> @@ bare :> <<"list">>
          @@ twinA :> <<"x", ".", "y", "_", "z">> @@ twinB :> <<"x", ".", "y", "_", "z">>
          @@ under :> <<"x", "_", "y", ".", "z">>
MC_Variadic == 255
MC_NArgs == riglist :> 0 @@ twinA :> 0 @@ twinB :> 1 @@ under :> 1 @@ bare :> MC_Variadic
=============================================================================
