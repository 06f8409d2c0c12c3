---------------------------- MODULE SocketLifetime ----------------------------
(***************************************************************************)
(* Class laio::net::Socket as the owner of a descriptor: its constructor,  *)
(* the copies the compiler generates for it, its destructor and init, over *)
(* the system's table of descriptors, whose values are given out again.    *)
(*                                                                         *)
(* A destructor of its own leaves Socket without a move: what looks like a *)
(* move, and a return in a Result, copies the descriptor.                  *)
(***************************************************************************)
EXTENDS Integers

CONSTANTS
  Storage,   \* storage for objects of class Socket
  Desc,      \* values of descriptors
  Conn,      \* sockets of the system, each opened once
  NoConn,    \* a descriptor that is not in use
  NoSocket    \* storage without an object

ASSUME SocketSentinels == NoConn \notin Conn /\ NoSocket \notin Desc

VARIABLES
  winsock,   \* "down", "up", or "cleaned" at the end of the process
  fired,     \* onceFlag; WSACleanup is registered with it
  table,     \* what each descriptor value denotes
  used,      \* sockets opened so far
  raw,       \* raw_socket_ of every object
  title,     \* history: the socket each object was made for
  spread,    \* history: descriptor values that were copied between objects
  app        \* descriptors the application owns, and has not wrapped

sockets == <<winsock, fired, table, used, raw, title, spread, app>>

Built(s) == raw[s] # NoSocket

SocketInit ==
  /\ winsock = "down"
  /\ fired = FALSE
  /\ table = [d \in Desc |-> NoConn]
  /\ used = {}
  /\ raw = [s \in Storage |-> NoSocket]
  /\ title = [s \in Storage |-> NoConn]
  /\ spread = {}
  /\ app = {}

-----------------------------------------------------------------------------
(* init and the end of the process. *)

(* No flag, and a cleanup where the start fails. *)
StartUpEachTime(ok) ==
  /\ winsock # "cleaned"
  /\ fired' = TRUE
  /\ winsock' = IF ok THEN "up" ELSE "down"
  /\ table' = IF ok THEN table ELSE [d \in Desc |-> NoConn]
  /\ UNCHANGED <<used, raw, title, spread, app>>

(* call_once; the result of WSAStartup is not looked at. *)
StartUp(ok) ==
  /\ winsock # "cleaned"
  /\ fired' = TRUE
  /\ winsock' = IF ok /\ ~fired THEN "up" ELSE winsock
  /\ UNCHANGED <<table, used, raw, title, spread, app>>

(* The registered cleanup runs; objects with static storage live on.       *)
Exit ==
  /\ fired
  /\ winsock # "cleaned"
  /\ winsock' = "cleaned"
  /\ table' = [d \in Desc |-> NoConn]
  /\ UNCHANGED <<fired, used, raw, title, spread, app>>

-----------------------------------------------------------------------------
(* The application, with the functions of Winsock. *)

(* socket, accept: a value that is free, which may have been used before.  *)
Open(c, d) ==
  /\ winsock = "up"
  /\ c \notin used
  /\ table[d] = NoConn
  /\ table' = [table EXCEPT ![d] = c]
  /\ used' = used \cup {c}
  /\ app' = app \cup {d}
  /\ UNCHANGED <<winsock, fired, raw, title, spread>>

(* closesocket; of a value that is not in use it is an error.              *)
Close(d) == table' = [table EXCEPT ![d] = NoConn]

CloseRaw(d) ==
  /\ d \in app
  /\ Close(d)
  /\ app' = app \ {d}
  /\ UNCHANGED <<winsock, fired, used, raw, title, spread>>

-----------------------------------------------------------------------------
(* Socket. *)

(* Socket(SOCKET): the object takes the descriptor over. *)
ConstructSocket(s, d) ==
  /\ ~Built(s)
  /\ d \in app
  /\ raw' = [raw EXCEPT ![s] = d]
  /\ title' = [title EXCEPT ![s] = table[d]]
  /\ app' = app \ {d}
  /\ UNCHANGED <<winsock, fired, table, used, spread>>

Give(s, r) ==
  /\ raw' = [raw EXCEPT ![s] = raw[r]]
  /\ title' = [title EXCEPT ![s] = title[r]]
  /\ UNCHANGED <<winsock, fired, table, used, app>>

(* The generated copy constructor. *)
CopySocket(s, r) ==
  /\ ~Built(s)
  /\ Built(r)
  /\ spread' = spread \cup {raw[r]}
  /\ Give(s, r)

(* The generated assignment: what s held stays open. *)
AssignSocket(s, r) ==
  /\ Built(s)
  /\ Built(r)
  /\ s # r
  /\ spread' = spread \cup {raw[r]}
  /\ Give(s, r)

(* A destructor that forgets to close. *)
DestroySocketOpen(s) ==
  /\ Built(s)
  /\ raw' = [raw EXCEPT ![s] = NoSocket]
  /\ title' = [title EXCEPT ![s] = NoConn]
  /\ UNCHANGED <<winsock, fired, table, used, spread, app>>

(* The destructor, of every copy. *)
DestroySocket(s) ==
  /\ Built(s)
  /\ Close(raw[s])
  /\ raw' = [raw EXCEPT ![s] = NoSocket]
  /\ title' = [title EXCEPT ![s] = NoConn]
  /\ UNCHANGED <<winsock, fired, used, spread, app>>

-----------------------------------------------------------------------------

SocketNext ==
  \/ \E ok \in BOOLEAN : StartUp(ok)
  \/ Exit
  \/ \E c \in Conn, d \in Desc : Open(c, d)
  \/ \E d \in Desc : CloseRaw(d)
  \/ \E s \in Storage, d \in Desc : ConstructSocket(s, d)
  \/ \E s, r \in Storage : CopySocket(s, r)
  \/ \E s, r \in Storage : AssignSocket(s, r)
  \/ \E s \in Storage : DestroySocket(s)

SocketSpec == SocketInit /\ [][SocketNext]_sockets

-----------------------------------------------------------------------------
(* Properties. *)

SocketTypeOK ==
  /\ winsock \in {"down", "up", "cleaned"}
  /\ fired \in BOOLEAN
  /\ table \in [Desc -> Conn \cup {NoConn}]
  /\ used \subseteq Conn
  /\ raw \in [Storage -> Desc \cup {NoSocket}]
  /\ title \in [Storage -> Conn \cup {NoConn}]
  /\ spread \subseteq Desc
  /\ app \subseteq Desc

(* What a descriptor's owner relies on: until the process ends, an object  *)
(* denotes the socket it was made for and shares it with no other object,  *)
(* whatever was closed and opened again in between.  Holds for the values  *)
(* that were never copied; a copy's destructor closes whatever its value   *)
(* denotes by then.                                                        *)
HeldUnlessSpread ==
  winsock # "cleaned" =>
    \A s \in Storage : Built(s) /\ raw[s] \notin spread =>
      /\ title[s] # NoConn
      /\ table[raw[s]] = title[s]
      /\ raw[s] \notin app
      /\ \A r \in Storage \ {s} : raw[r] # raw[s]

(* A socket that is open loses the last object made for it, and stays open,*)
(* only where an assignment overwrites an object that lives on: every      *)
(* destructor closes, the first of several for all of them.                *)
Keepers(c) == {s \in Storage : Built(s) /\ title[s] = c}
LeakOnlyByAssign ==
  [][\A c \in Conn :
       LET lost == Keepers(c) # {} /\ Keepers(c)' = {} IN
         (lost /\ (\E d \in Desc : table[d] = c) /\ (\E d \in Desc : table'[d] = c)) =>
           \E s \in Keepers(c) : raw'[s] # NoSocket]_sockets
=============================================================================
