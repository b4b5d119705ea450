---------------------------- MODULE MCEventQueue ----------------------------
(***************************************************************************)
(* The event queue on a small instance.                                    *)
(***************************************************************************)
EXTENDS EventQueue, TLC

CONSTANTS a, u, null

\* u is a callback nobody put into callback_registry.
MCCallbacks == {a, u}
MCRegistered == {a}
MCHome == (a :> Lists) @@ (u :> {"JERRY"})
MCDelays == {-1, 1}
MCSlices == {1}

ASSUME Size >= 2

\* Images with holes, as the code before packing left them.
MCOldImages ==
    LET E(v, c, t) == [valid |-> v, cb |-> c, time |-> t]
        Img(f) == [slot |-> f, next |-> Size - 1]
        Hole  == [i \in Slots |-> IF i = Size - 1 THEN E(TRUE, a, 1) ELSE E(FALSE, null, 0)]
        Mixed == [i \in Slots |-> IF i = 0 THEN E(TRUE, null, 0) ELSE E(TRUE, a, 0)]
    IN  {[l \in Lists |-> IF l = "MAIN" THEN Img(Hole) ELSE Img(Mixed)]}
=============================================================================
