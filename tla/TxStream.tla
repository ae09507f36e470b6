------------------------------ MODULE TxStream ------------------------------
(***************************************************************************)
(* What TcpIp_send promises: a stream of units to the peer.                *)
(*                                                                         *)
(* What it answers with 0 belongs to the stream; any other answer leaves   *)
(* the stream alone, and says whether to try again.  The peer gets the     *)
(* stream from its start, in order and nothing else; what counts as        *)
(* acknowledged the peer has got.  The stream ends in good order only when *)
(* all of it is acknowledged.  Otherwise the connection is lost.           *)
(***************************************************************************)
EXTENDS Integers

VARIABLES
  accepted,    (* units TcpIp_send has taken           *)
  delivered,   (* units the peer has                   *)
  acked,       (* units known to be there              *)
  status,
  told         (* what the last TcpIp_send answered    *)

stream == <<accepted, delivered, acked, status, told>>

Init ==
  /\ accepted = 0 /\ delivered = 0 /\ acked = 0
  /\ status = "none"
  /\ told = 0

Accept ==
  /\ status = "open"
  /\ accepted' > accepted
  /\ told' = 0
  /\ UNCHANGED <<delivered, acked, status>>

(* -2 for "try later", -3 for "never more". *)
Refuse ==
  /\ \/ status = "open" /\ told' = -2
     \/ status = "closing" /\ told' = -3
  /\ UNCHANGED <<accepted, delivered, acked, status>>

Deliver ==
  /\ delivered' \in delivered + 1 .. accepted
  /\ UNCHANGED <<accepted, acked, status, told>>

Onwards(s) ==
  CASE s = "none"    -> {"none", "open"}
    [] s = "open"    -> {"open", "closing", "lost"}
    [] s = "closing" -> {"closing", "ended", "lost"}
    [] OTHER         -> {s}

(* Acknowledgements arrive and the connection goes on, with time. *)
Proceed ==
  /\ acked' \in acked .. delivered
  /\ status' \in Onwards(status)
  /\ status' = "ended" => acked' = accepted
  /\ UNCHANGED <<accepted, delivered, told>>

Next == Accept \/ Refuse \/ Deliver \/ Proceed

Spec == Init /\ [][Next]_stream
=============================================================================
