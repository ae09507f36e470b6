------------------------------ MODULE RxStream ------------------------------
(***************************************************************************)
(* What the receive path promises to the application, from the streams of  *)
(* the connections to TcpIp_recv.                                          *)
(*                                                                         *)
(* Each connection offers its messages in the order of its stream; the     *)
(* connections take turns in any order.  A message is kept whenever none   *)
(* is waiting, else it is lost.  TcpIp_recv takes the one that waits,      *)
(* whichever connection it is from.                                        *)
(***************************************************************************)
EXTENDS Naturals

CONSTANTS Conns, NULL

VARIABLES
  position,   (* the next message of each stream                     *)
  slot,       (* the message that waits: <<connection, position>>    *)
  last        (* of each connection, the last message that was taken *)

service == <<position, slot, last>>

Init ==
  /\ position = [c \in Conns |-> 1]
  /\ slot = NULL
  /\ last = [c \in Conns |-> 0]

(* The segments chained to the message, if any, are skipped. *)
Offer(c) ==
  /\ position'[c] > position[c]
  /\ position' = [position EXCEPT ![c] = position'[c]]
  /\ slot' = IF slot = NULL THEN <<c, position[c]>> ELSE slot
  /\ UNCHANGED last

Take ==
  /\ slot # NULL
  /\ last' = [last EXCEPT ![slot[1]] = slot[2]]
  /\ slot' = NULL
  /\ UNCHANGED position

Next == Take \/ \E c \in Conns : Offer(c)

Spec == Init /\ [][Next]_service
=============================================================================
