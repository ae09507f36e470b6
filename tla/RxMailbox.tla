----------------------------- MODULE RxMailbox -----------------------------
(***************************************************************************)
(* What the receive queue of TcpIp.c promises to its two clients.          *)
(*                                                                         *)
(* tcpip_raw_recv() offers message buffers and TcpIp_recv() asks for them. *)
(* The linked list behind rx_bufhead never grows beyond its first node, so *)
(* the queue is a mailbox with ONE slot that keeps the oldest unread       *)
(* message: an offer to a full mailbox is lost, a take empties the slot.   *)
(*                                                                         *)
(* Spec is the promise when the two functions run to completion one after  *)
(* the other.  WeakSpec is what is left of it when the reader can be       *)
(* preempted by the writer and conversely: the reader may also be told     *)
(* "no data" while a message waits, but still nothing is delivered twice,  *)
(* overwritten or invented.                                                *)
(***************************************************************************)
CONSTANTS
  Pbufs,   (* the pbufs lwIP hands to tcpip_raw_recv *)
  NULL

VARIABLES
  slot,    (* the unread message, or NULL                               *)
  ret      (* what the last completed TcpIp_recv found, NULL for "none" *)

mailbox == <<slot, ret>>

Init == slot = NULL /\ ret = NULL

(* An offered message is kept when nothing is waiting. *)
Deposit(p) ==
  /\ slot = NULL
  /\ slot' = p
  /\ UNCHANGED ret

Take ==
  /\ slot # NULL
  /\ ret' = slot
  /\ slot' = NULL

(* The honest "no data": there is none. *)
FindEmpty ==
  /\ slot = NULL
  /\ ret' = NULL
  /\ UNCHANGED slot

(* "No data" although a message may be waiting. *)
MissMessage ==
  /\ ret' = NULL
  /\ UNCHANGED slot

Next ==
  \/ \E p \in Pbufs : Deposit(p)
  \/ Take
  \/ FindEmpty

WeakNext == Next \/ MissMessage

Spec == Init /\ [][Next]_mailbox

WeakSpec == Init /\ [][WeakNext]_mailbox
=============================================================================
