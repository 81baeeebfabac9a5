-------------------------- MODULE MCEventDispatch --------------------------
(***************************************************************************)
(* EventDispatch with three callbacks under two subscriber ids.            *)
(***************************************************************************)
EXTENDS EventDispatch, TLC

CONSTANTS a, b, c

MCCallbacks == {a, b, c}
MCKeyOf == (a :> 1) @@ (b :> 1) @@ (c :> 2)

=============================================================================
