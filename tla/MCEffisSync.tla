---------------------------- MODULE MCEffisSync ----------------------------
(***************************************************************************)
(* A fire f that grows, a fire g and a hotspot h.                          *)
(***************************************************************************)
EXTENDS EffisSync, TLC

CONSTANTS f, g, h, v1, v2

At(t, content) == [observed_at |-> t, content |-> content]

MCCatalogues ==
    {<<>>,
     f :> At(0, v1),
     (f :> At(1, v2)) @@ (h :> At(1, v1)),
     (f :> At(0, v1)) @@ (g :> At(0, v1))}
=============================================================================
