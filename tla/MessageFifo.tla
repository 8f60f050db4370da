---------------------------- MODULE MessageFifo ----------------------------
(***************************************************************************)
(* What the pair vchannel_write / vchannel_process promises, without the   *)
(* ring, the lock or the events: a message is accepted whole, messages are *)
(* taken in the order of their acceptance, each once, and a message that   *)
(* is taken is delivered - or discarded, where the virtual channel may     *)
(* refuse it.                                                              *)
(***************************************************************************)
EXTENDS Naturals, Sequences

CONSTANTS Messages,     \* what can be written
          MayDiscard    \* may a message that was taken be thrown away?

VARIABLES accepted,     \* the messages vchannel_write has accepted, in order
          taken,        \* how many of them have left the buffer
          delivered     \* what the other side of the channel has received

fifoVars == <<accepted, taken, delivered>>

FifoInit ==
    /\ accepted = <<>>
    /\ taken = 0
    /\ delivered = <<>>

Accept(m) ==
    /\ accepted' = Append(accepted, m)
    /\ UNCHANGED <<taken, delivered>>

Deliver ==
    /\ taken < Len(accepted)
    /\ taken' = taken + 1
    /\ delivered' = Append(delivered, accepted[taken + 1])
    /\ UNCHANGED accepted

Discard ==
    /\ MayDiscard
    /\ taken < Len(accepted)
    /\ taken' = taken + 1
    /\ UNCHANGED <<accepted, delivered>>

FifoNext == (\E m \in Messages : Accept(m)) \/ Deliver \/ Discard

\* The safety part: order, no duplication, no invention, no tearing.
SafeFifoSpec == FifoInit /\ [][FifoNext]_fifoVars

\* And what is accepted does not stay in the buffer for ever.
FifoSpec == SafeFifoSpec /\ WF_fifoVars(Deliver \/ Discard)
=============================================================================
