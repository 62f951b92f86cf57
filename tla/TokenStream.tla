------------------------------ MODULE TokenStream ------------------------------
(***************************************************************************)
(* What one channel of the dispatch kernel promises its two ends: a FIFO   *)
(* queue of bounded size through which the tokens selected for the peer    *)
(* travel in order.  The sender appends the next few of them, at most      *)
(* MaxSend at a time and never more than NumSlots in flight; the receiver  *)
(* takes some or all of what it has seen.                                  *)
(*                                                                         *)
(* stream is the sequence of the selected tokens, fixed from the start.    *)
(***************************************************************************)
EXTENDS Integers, Sequences

CONSTANTS NumSlots, MaxSend, Token

VARIABLES stream, sent, queue

tvars == <<stream, sent, queue>>

TInit ==
  /\ stream \in Seq(Token)
  /\ sent  = 0
  /\ queue = <<>>

TPublish ==
  \E k \in 1 .. MaxSend :
    /\ sent + k <= Len(stream)
    /\ Len(queue) + k <= NumSlots
    /\ sent'  = sent + k
    /\ queue' = queue \o SubSeq(stream, sent + 1, sent + k)
    /\ UNCHANGED stream

TTake ==
  \E k \in 1 .. Len(queue) :
    /\ queue' = SubSeq(queue, k + 1, Len(queue))
    /\ UNCHANGED <<stream, sent>>

TNext == TPublish \/ TTake

TSpec == TInit /\ [][TNext]_tvars
================================================================================
