----------------------------- MODULE MCEpisodes -----------------------------
(***************************************************************************)
(* Two AEMET warnings a and b of one phenomenon, a burnt area f and an     *)
(* earthquake w.  The bulletins bring a, raise it and replace it by b; the *)
(* fire appears, grows twice and is closed; the earthquake is revised.     *)
(***************************************************************************)
EXTENDS Episodes, TLC

CONSTANTS a, b, f, w, storm, fire, quake, p, q

MCSourceOf == (a :> "aemet") @@ (b :> "aemet") @@ (f :> "effis") @@ (w :> "ign")
MCKey == (a :> storm) @@ (b :> storm) @@ (f :> fire) @@ (w :> quake)

Is(severity, ends_at) == [severity |-> severity, ends_at |-> ends_at]

MCBatches ==
    {a :> Is(1, 1), a :> Is(2, 3),
     (a :> Is(1, CLOSED)) @@ (b :> Is(1, 4)),
     f :> Is(1, NULL), f :> Is(2, NULL), f :> Is(3, NULL), f :> Is(1, CLOSED),
     w :> Is(1, 0), w :> Is(2, 0)}

(* A warning that expires far beyond the bounds, and its withdrawal. *)
MCWithdrawal == {a :> Is(1, 9), a :> Is(1, CLOSED)}
=============================================================================
