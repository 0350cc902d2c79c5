--------------------------- MODULE SystemCKernel ----------------------------
(***************************************************************************)
(* The part of the SystemC scheduler the simulator relies on.  All its     *)
(* processes are SC_METHODs sensitive to the rising clock edge, so at each *)
(* edge every one of them runs once, to completion, in some order; then    *)
(* the signals written during the edge take their new values.              *)
(*                                                                         *)
(* SystemC leaves the order of the processes of one edge to the kernel.    *)
(* A given kernel keeps the same order at every edge (FixedOrder = TRUE);  *)
(* the standard alone would let it differ from one edge to the next        *)
(* (FixedOrder = FALSE).                                                   *)
(***************************************************************************)
EXTENDS Naturals, Sequences

CONSTANTS
  Orders,      \* the orders the kernel may run the processes in
  FixedOrder   \* whether it runs them in the same order at every edge

ASSUME KernelAssumption ==
  /\ FixedOrder \in BOOLEAN
  /\ \A o \in Orders : o \in Seq(STRING)

\* Order o runs process p, and runs it once.
RunsOnce(o, p) == \E k \in 1 .. Len(o) :
  o[k] = p /\ \A j \in 1 .. Len(o) : o[j] = p => j = k

VARIABLES
  order,    \* the order of this build, when FixedOrder
  pending   \* the processes that have still to run at this edge, in order

kernelVars == <<order, pending>>

EdgeOrders == IF FixedOrder THEN {order} ELSE Orders

\* The initialization phase runs every process once, as an edge does.
KernelInit ==
  /\ IF FixedOrder THEN order \in Orders ELSE order = <<>>
  /\ pending \in EdgeOrders

\* Process p is the one that runs.  Nothing else happens until it returns.
Running(p) == pending # <<>> /\ Head(pending) = p

Return == pending' = Tail(pending) /\ UNCHANGED order

StillRunning == UNCHANGED kernelVars

\* All processes of an edge have returned; the next edge starts.
NextEdge == pending = <<>> /\ pending' \in EdgeOrders /\ UNCHANGED order

=============================================================================
