-------------------------------- MODULE Server --------------------------------
(***************************************************************************)
(* The requests the API server has at hand: RequestGate lets them in, and  *)
(* the handlers on RunPath serve them, at the same time.                   *)
(***************************************************************************)
CONSTANT Requests
===============================================================================
