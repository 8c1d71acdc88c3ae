---------------------------- MODULE BoundedFifo ----------------------------
(***************************************************************************)
(* What a channel promises its users: the data taken out are the data put  *)
(* in, in that order, each once; at most Bound of them are inside; nothing *)
(* is put in after it is closed, and what is inside then can still be      *)
(* taken out.                                                              *)
(***************************************************************************)
EXTENDS Naturals, Sequences

CONSTANTS Data, Bound

VARIABLES in, out, shut

fifoVars == <<in, out, shut>>

FifoInit == in = <<>> /\ out = <<>> /\ shut = FALSE

Put(d) ==
    /\ ~shut /\ Len(in) < Len(out) + Bound
    /\ in' = Append(in, d)
    /\ UNCHANGED <<out, shut>>

\* in' # in follows from Put, and saves TLC the search for d in other steps.
PutSome == in' # in /\ \E d \in Data : Put(d)

Take ==
    /\ Len(out) < Len(in)
    /\ out' = Append(out, in[Len(out) + 1])
    /\ UNCHANGED <<in, shut>>

Shut ==
    /\ ~shut /\ shut' = TRUE
    /\ UNCHANGED <<in, out>>

FifoNext == Take \/ Shut \/ PutSome

FifoSpec == FifoInit /\ [][FifoNext]_fifoVars
=============================================================================
