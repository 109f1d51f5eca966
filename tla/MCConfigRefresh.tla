--------------------------- MODULE MCConfigRefresh ---------------------------
(***************************************************************************)
(* Model checking the configuration: contents over three keys.  k3 is      *)
(* shadowed by what the application boots with, the other two of a data id *)
(* by the data id before it; k1 is plain, enciphered or missing, so that a *)
(* decrypt source appears, is replaced and goes away.                      *)
(***************************************************************************)
EXTENDS ConfigRefresh, TLC

Says(v, form) == [v |-> v, form |-> form]

OneId == <<"id1">>
\* Two, one of them listed twice.
TwoIds == <<"id1", "id2", "id1">>

FixedContents == {"k3" :> Says(1, "plain")}

CipherContents ==
    {"k1" :> Says(2, "plain") @@ "k3" :> Says(2, "plain"), "k1" :> Says(2, "cipher"),
     "k1" :> Says(3, "cipher") @@ "k2" :> Says(3, "plain"), "k2" :> Says(4, "broken")}
==============================================================================
