------------------------------- MODULE MCWalk --------------------------------
(***************************************************************************)
(* The walk of multi_recv_listener twice over the same kind of set: over   *)
(* listeners that add and remove listeners as they like, and over the      *)
(* filters of ptp's generator.  A behaviour is one or the other.           *)
(*                                                                         *)
(* Four addresses: a walk can stand on one with a removed, an added and an *)
(* untouched listener on either side, and an old and a new filter can each *)
(* lie on either side of the base filter.  Four packets, so that an access *)
(* three generations old exists.                                           *)
(***************************************************************************)
EXTENDS MultiRecvListener, PtpGenerator

VARIABLE generating   \* the listeners are the filters of ptp's generator

own_vars == <<called, atStart, removed, erased>>
gen_vars == <<base, curr, par, alive, packet, isEnd, generated, delivered, stale>>

MCInit ==
  \/ /\ generating = FALSE
     /\ WalkInit
     /\ base = NoFilter /\ curr = NoFilter /\ par = [a \in Addr |-> 0]
     /\ alive = {} /\ packet = 0 /\ isEnd = FALSE
     /\ generated = {} /\ delivered = <<>> /\ stale = FALSE
  \/ /\ generating = TRUE
     /\ Init
     /\ called = <<>> /\ atStart = {} /\ removed = {} /\ erased = FALSE

MCNext ==
  \/ ~generating /\ WalkNext /\ UNCHANGED gen_vars /\ UNCHANGED generating
  \/ generating /\ Next /\ UNCHANGED own_vars /\ UNCHANGED generating

MCSpec == MCInit /\ [][MCNext]_<<walk_vars, gen_vars, generating>>
=============================================================================
