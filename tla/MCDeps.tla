-------------------------------- MODULE MCDeps --------------------------------
(***************************************************************************)
(* Small projects to run DepResolution on.  The model values are the       *)
(* modules of an embedded project: app asks for interfaces of the driver   *)
(* layer, bsp (board support) and hal declare them.                        *)
(***************************************************************************)
EXTENDS DepResolution, TLC

CONSTANTS app, bsp, hal, uart, clock, pins

\* One requester, one provider, two keys; one value is raised.
ChainNodes    == {app, bsp}
ChainKeys     == {uart, clock}
ChainDeclared == app :> {} @@ bsp :> {uart, clock}
ChainMayNeed  == app :> {uart, clock} @@ bsp :> {}
ChainMaxSeq   == uart :> 2 @@ clock :> 1

\* Three nodes that need each other in a ring, one key each, no values.
RingNodes    == {app, bsp, hal}
RingKeys     == {uart, clock, pins}
RingDeclared == app :> {pins} @@ bsp :> {uart} @@ hal :> {clock}
RingMayNeed  == app :> {uart} @@ bsp :> {clock} @@ hal :> {pins}
RingMaxSeq   == uart :> 0 @@ clock :> 0 @@ pins :> 0

\* Two nodes that need each other.
PairNodes    == {app, bsp}
PairKeys     == {uart, pins}
PairDeclared == app :> {pins} @@ bsp :> {uart}
PairMayNeed  == app :> {uart} @@ bsp :> {pins}
PairMaxSeq   == uart :> 1 @@ pins :> 1
===============================================================================
