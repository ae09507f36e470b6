----------------------------- MODULE SocketLayer -----------------------------
(***************************************************************************)
(* The sockets of tcpip_extensions.c over the services of TcpConn; the     *)
(* calls of socket.c, with their results, are in SocketApi.  All sockets   *)
(* share the one handle of TcpIp.c: its services ignore the socket they    *)
(* are called for.                                                         *)
(*                                                                         *)
(* The application calls the sockets and TcpIp_Close from its tasks, the   *)
(* main loop runs in a task of its own, lwIP in a third.  A call runs to   *)
(* completion, except that an accept waits in between.  A call that the    *)
(* state of its socket refuses has no effect and no action.                *)
(*                                                                         *)
(* Names the code uses and declares nowhere are read as what they stand    *)
(* for: i in the main loop as its con, E_NOK as E_NOT_OK.  TcpIp_TcpState, *)
(* "we need to find which API it is", is external.                         *)
(***************************************************************************)
EXTENDS TcpConn, Integers

CONSTANTS
  MAX_TCPIP_SOCKET_HANDLES,   (* the size of the table, 512 in the code *)
  MaxInit                     (* bound: calls of TcpIp_Socket_Init      *)

ASSUME HandlesAssumption == MAX_TCPIP_SOCKET_HANDLES \in Nat /\ MaxInit \in Nat

Sockets == 0 .. MAX_TCPIP_SOCKET_HANDLES - 1

(* What may be passed as sockfd: everything, as far as the code tells it   *)
(* apart.                                                                  *)
Sockfds == -1 .. MAX_TCPIP_SOCKET_HANDLES + 1

ASSUME NullIsNoSocket == NULL \notin Sockets

VARIABLES
  TcpState,               (* of each entry of TcpIp_Socket_Conn               *)
  TcpIp_No_Socket_Conn,
  waiting,                (* the accept of each socket is in its wait         *)
  accepted,               (* the socket whose accept returns 0 in this step   *)
  outside                 (* an entry outside the table has been accessed     *)

table   == <<TcpState, TcpIp_No_Socket_Conn, waiting>>
sktVars == <<vars, TcpState, TcpIp_No_Socket_Conn, waiting, accepted, outside>>

Serving == {"ACCEPT", "SYN_SENT", "SYN_RCVD", "ESTABLISHED", "FIN_WAIT",
            "CLOSE_WAIT", "LAST_ACK"}

SocketStates == {"CLOSED", "BIND", "LISTEN"} \cup Serving

SocketInit ==
  /\ Init
  /\ TcpState = [s \in Sockets |-> "CLOSED"]
  /\ TcpIp_No_Socket_Conn = 0
  /\ waiting = [s \in Sockets |-> FALSE]
  /\ accepted = NULL
  /\ outside = FALSE

-----------------------------------------------------------------------------
(* A step that stays within the table.                                     *)
Running == ~fault /\ ~outside /\ UNCHANGED outside

(* sockfd is no socket.  The functions test MAX_TCPIP_SOCKET_HANDLES <     *)
(* sockfd: the number next to the table passes.                            *)
InvalidSocket(s) ==
  /\ ~fault /\ ~outside
  /\ s \notin Sockets
  /\ outside' = (s = MAX_TCPIP_SOCKET_HANDLES)
  /\ accepted' = NULL
  /\ UNCHANGED <<vars, table>>

(* Counts every call, also for a socket that is in use.                    *)
TcpIp_Socket_Init(s) ==
  /\ Running /\ TcpIp_No_Socket_Conn < MaxInit
  /\ TcpState' = [TcpState EXCEPT ![s] = "CLOSED"]
  /\ TcpIp_No_Socket_Conn' = TcpIp_No_Socket_Conn + 1
  /\ accepted' = NULL
  /\ UNCHANGED <<vars, waiting>>

(* TCPIP_BIND is assigned to the local copy of the state only.             *)
TcpIp_Socket_Bind(s, q) ==
  /\ Running /\ TcpState[s] = "CLOSED"
  /\ TcpIp_Bind(q)
  /\ accepted' = NULL
  /\ UNCHANGED table

TcpIp_Socket_ListenStoresRetval(s) ==
  /\ Running /\ TcpState[s] \in {"BIND", "LISTEN"}
  /\ TcpIp_TcpListen
  /\ TcpState' = [TcpState EXCEPT ![s] = retval']
  /\ accepted' = NULL
  /\ UNCHANGED <<TcpIp_No_Socket_Conn, waiting>>

TcpIp_Socket_Listen(s) ==
  /\ Running /\ TcpState[s] \in {"BIND", "LISTEN"}
  /\ TcpIp_TcpListen
  /\ TcpState' = IF fault' THEN TcpState
                 ELSE [TcpState EXCEPT ![s] = IF retval' = "E_OK" THEN "ACCEPT" ELSE "LISTEN"]
  /\ accepted' = NULL
  /\ UNCHANGED <<TcpIp_No_Socket_Conn, waiting>>

(* Up to the wait, if there is one.                                        *)
TcpIp_Socket_Accept(s) ==
  /\ Running /\ ~waiting[s]
  /\ waiting' = [waiting EXCEPT ![s] = TcpState[s] = "LISTEN"]
  /\ accepted' = IF TcpState[s] = "ACCEPT" THEN s ELSE NULL
  /\ UNCHANGED <<vars, TcpState, TcpIp_No_Socket_Conn>>

(* OS_WaitEvent_Interruptable is a stub that returns at any time; then     *)
(* accept looks at the state again.                                        *)
OS_WaitEvent_Interruptable(s) ==
  /\ Running /\ waiting[s]
  /\ waiting' = [waiting EXCEPT ![s] = FALSE]
  /\ accepted' = IF TcpState[s] = "ACCEPT" THEN s ELSE NULL
  /\ UNCHANGED <<vars, TcpState, TcpIp_No_Socket_Conn>>

(* TcpIp_Socket_Recv changes nothing here: see SocketApi.                  *)
TcpIp_Socket_Send(s) ==
  /\ Running /\ TcpState[s] \in Serving
  /\ TcpIp_send
  /\ accepted' = NULL
  /\ UNCHANGED table

(* The states TcpIp_TcpState may report: that of the pcb in the handle, in *)
(* the words of TcpIp_ConnStateType, which has two for a pcb that is bound *)
(* and two for a connection that is accepted.                              *)
TcpIp_TcpState ==
  IF ~Usable THEN {"CLOSED"}
  ELSE {pcb[tcpip_raw_pcb].state}
       \cup (IF pcb[tcpip_raw_pcb].state = "CLOSED" THEN {"BIND"} ELSE {})
       \cup (IF pcb[tcpip_raw_pcb].state = "ESTABLISHED" THEN {"ACCEPT"} ELSE {})

TcpIp_Socket_Main_LoopOneMore ==
  /\ Running /\ TcpIp_No_Socket_Conn < MAX_TCPIP_SOCKET_HANDLES
  /\ \E polled \in [0 .. TcpIp_No_Socket_Conn -> TcpIp_TcpState] :
       TcpState' = [s \in Sockets |-> IF s \in DOMAIN polled THEN polled[s] ELSE TcpState[s]]
  /\ accepted' = NULL
  /\ UNCHANGED <<vars, TcpIp_No_Socket_Conn, waiting>>

(* Polls the first entries, as many as there were initialisations, also    *)
(* when these are more than there are entries.                             *)
TcpIp_Socket_Main_Loop ==
  \/ /\ Running /\ TcpIp_No_Socket_Conn <= MAX_TCPIP_SOCKET_HANDLES
     /\ \E polled \in [0 .. TcpIp_No_Socket_Conn - 1 -> TcpIp_TcpState] :
          TcpState' = [s \in Sockets |-> IF s \in DOMAIN polled THEN polled[s] ELSE TcpState[s]]
     /\ accepted' = NULL
     /\ UNCHANGED <<vars, TcpIp_No_Socket_Conn, waiting>>
  \/ /\ ~fault /\ ~outside
     /\ TcpIp_No_Socket_Conn > MAX_TCPIP_SOCKET_HANDLES
     /\ outside' = TRUE
     /\ accepted' = NULL
     /\ UNCHANGED <<vars, table>>

(* What happens beside the sockets: lwIP, and TcpIp_Close, as the sockets  *)
(* have no close of their own.                                             *)
Beside ==
  /\ Running
  /\ Stack \/ TcpIp_Close
  /\ accepted' = NULL
  /\ UNCHANGED table

SocketUndefined == (fault \/ outside) /\ UNCHANGED sktVars

SocketNext ==
  \/ \E s \in Sockfds : InvalidSocket(s)
  \/ \E s \in Sockets :
       \/ TcpIp_Socket_Init(s)
       \/ \E q \in Ports : TcpIp_Socket_Bind(s, q)
       \/ TcpIp_Socket_Listen(s)
       \/ TcpIp_Socket_Accept(s) \/ OS_WaitEvent_Interruptable(s)
       \/ TcpIp_Socket_Send(s)
  \/ TcpIp_Socket_Main_Loop
  \/ Beside
  \/ SocketUndefined

SocketSpec == SocketInit /\ [][SocketNext]_sktVars

-----------------------------------------------------------------------------
(* Types; an accept that returns was called for a socket.                  *)
SocketTypeOK ==
  /\ TypeOK
  /\ TcpState \in [Sockets -> SocketStates]
  /\ TcpIp_No_Socket_Conn \in 0 .. MaxInit
  /\ waiting \in [Sockets -> BOOLEAN]
  /\ accepted \in Sockets \cup {NULL}
  /\ outside \in BOOLEAN

(* A socket is served only by the main loop that polls it: since bind does *)
(* not store its state, an entry leaves TCPIP_CLOSED only after as many    *)
(* initialisations as its number demands, whichever sockets they were for. *)
ServedIsCounted ==
  \A s \in Sockets : TcpState[s] # "CLOSED" => s < TcpIp_No_Socket_Conn

(* The specification of TcpConn: each step of the sockets is one of its    *)
(* services or events, or none, so what is proved there holds below them.  *)
TcpConnSpec == Spec

(* "wait until new connection is established by the client"                *)
(* (tcpip_extensions.c:129): when accept reports success there is one.     *)
AcceptedIsEstablished ==
  accepted # NULL => \E p \in Pcbs : pcb[p].state = "ESTABLISHED"
=============================================================================
