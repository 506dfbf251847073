------------------------------- MODULE TraceWs -------------------------------
(***************************************************************************)
(* The websocket that carries the trace (main/network/dap_web.c: /ws/trace *)
(* handler, session destructor and sender task).  The web server runs its  *)
(* handlers one by one; the sender is a task of its own, and the two share *)
(* s_trace_ws_fd, _run, _task and _gen without a lock.  Sockets that close *)
(* leave their descriptor to the next connection.                          *)
(*                                                                         *)
(* The server itself (esp_http_server) is modelled from how this code uses *)
(* it: accept, a queued close, the destructor at the close.                *)
(***************************************************************************)
EXTENDS Naturals, FiniteSets

CONSTANTS
  Conns,    \* connections that may be made, one after the other or at once
  Fds,      \* descriptors the server has
  NoFd      \* -1

ASSUME WsAssumption == NoFd \notin Fds

VARIABLES
  fdOf,     \* the descriptor of each connection, NoFd when it is not open
  ctx,      \* sess_ctx: the client number the handshake gave it, or 0
  closing,  \* descriptors httpd_sess_trigger_close has queued
  fresh,    \* connections not made yet
  wfd,      \* s_trace_ws_fd
  run,      \* s_trace_ws_run
  task,     \* s_trace_ws_task # NULL
  gen,      \* s_trace_ws_gen
  sender,   \* the sender: "none", "start", "loop", "read", "send", "bye" or "leave"
  last,     \* a sender has run trace_ws_close and has yet to clear its handle
  traced,   \* the sender's: a trace ran while it streamed
  serves,   \* history: the client the sender was started for
  strayed   \* history: the sender wrote to, or closed, another connection

server == <<fdOf, ctx, closing, fresh>>
wsVars == <<server, wfd, run, task, gen, sender, last, traced, serves, strayed>>

Open == {c \in Conns : fdOf[c] # NoFd}
FreeFds == Fds \ {fdOf[c] : c \in Conns}

WsInit ==
  /\ fdOf = [c \in Conns |-> NoFd] /\ ctx = [c \in Conns |-> 0]
  /\ closing = {} /\ fresh = Conns
  /\ wfd = NoFd /\ run = FALSE /\ task = FALSE /\ gen = 0
  /\ sender = "none" /\ last = FALSE /\ traced = FALSE /\ serves = 0 /\ strayed = FALSE

(***************************************************************************)
(* The web server.                                                         *)
(***************************************************************************)
Accept(c) ==
  /\ c \in fresh /\ FreeFds # {}
  /\ \E f \in FreeFds : fdOf' = [fdOf EXCEPT ![c] = f]
  /\ fresh' = fresh \ {c}
  /\ UNCHANGED <<ctx, closing, wfd, run, task, gen, sender, last, traced, serves, strayed>>

(* Mutant: the destructor leaves the sender running. *)
GoneUnchecked(c) == UNCHANGED run

(* trace_ws_session_gone, at the close of any connection. *)
SessionGone(c) == run' = (run /\ ~(ctx[c] # 0 /\ ctx[c] = gen))

Closed(c) == fdOf' = [fdOf EXCEPT ![c] = NoFd]

(* Mutant: only the descriptor is looked at, not the handle of the task. *)
GoneFdOnly == wfd = NoFd

(* The handshake: the sender of a client that left has 100 ms to go; one    *)
(* that still has a client makes the server refuse this one.                *)
SenderGone == wfd = NoFd /\ ~task

Handshake(c) ==
  /\ c \in Open /\ ctx[c] = 0 /\ SenderGone
  /\ gen' = gen + 1 /\ ctx' = [ctx EXCEPT ![c] = gen + 1]
  /\ wfd' = fdOf[c] /\ run' = TRUE
  /\ task' = TRUE /\ sender' = "start" /\ traced' = FALSE /\ serves' = gen + 1
  /\ UNCHANGED <<fdOf, closing, fresh, last, strayed>>

(* No memory for the task: trace_ws_close, and the session is closed.       *)
HandshakeFails(c) ==
  /\ c \in Open /\ ctx[c] = 0 /\ SenderGone
  /\ gen' = gen + 1 /\ ctx' = [ctx EXCEPT ![c] = gen + 1]
  /\ Closed(c) /\ run' = FALSE
  /\ UNCHANGED <<closing, fresh, wfd, task, sender, last, traced, serves, strayed>>

HandshakeRefused(c) ==
  /\ c \in Open /\ ctx[c] = 0 /\ ~SenderGone
  /\ Closed(c)
  /\ UNCHANGED <<ctx, closing, fresh, wfd, run, task, gen, sender, last, traced, serves, strayed>>

(* The handler on a close frame, or on a frame it cannot read. *)
Frame(c) ==
  /\ c \in Open /\ ctx[c] # 0
  /\ run' = FALSE
  /\ UNCHANGED <<server, wfd, task, gen, sender, last, traced, serves, strayed>>

(* The client's socket closes. *)
Drop(c) ==
  /\ c \in Open
  /\ Closed(c) /\ SessionGone(c)
  /\ UNCHANGED <<ctx, closing, fresh, wfd, task, gen, sender, last, traced, serves, strayed>>

(* A queued close: whichever connection has the descriptor now. *)
CloseQueued(f) ==
  /\ f \in closing
  /\ closing' = closing \ {f}
  /\ \/ \E c \in Open : fdOf[c] = f /\ Closed(c) /\ SessionGone(c)
     \/ (\A c \in Open : fdOf[c] # f) /\ UNCHANGED <<fdOf, run>>
  /\ UNCHANGED <<ctx, fresh, wfd, task, gen, sender, last, traced, serves, strayed>>

(***************************************************************************)
(* The sender: trace_ws_task.                                              *)
(***************************************************************************)
(* Its buffers may not be had. *)
SenderStart ==
  /\ sender = "start"
  /\ sender' \in {"loop", "leave"}
  /\ UNCHANGED <<server, wfd, run, task, gen, last, traced, serves, strayed>>

SenderLoop ==
  /\ sender = "loop"
  /\ sender' = IF run /\ wfd # NoFd THEN "read" ELSE "leave"
  /\ UNCHANGED <<server, wfd, run, task, gen, last, traced, serves, strayed>>

(* Nothing to read: the trace runs, has not run yet, or has ended and the   *)
(* stream is closed after a second.                                         *)
SenderIdle ==
  /\ sender = "read"
  /\ traced' \in {traced, TRUE}
  /\ sender' = "loop"
  /\ UNCHANGED <<server, wfd, run, task, gen, last, serves, strayed>>

SenderEnded ==
  /\ sender = "read" /\ traced
  /\ sender' = "bye"
  /\ UNCHANGED <<server, wfd, run, task, gen, last, traced, serves, strayed>>

(* Something to read, and the client is still there; it is packed now. *)
SenderRead ==
  /\ sender = "read"
  /\ sender' = IF run THEN "send" ELSE "leave"
  /\ UNCHANGED <<server, wfd, run, task, gen, last, traced, serves, strayed>>

Reaches(f) == {c \in Open : fdOf[c] = f}
Strays(f) == \E c \in Reaches(f) : ctx[c] # serves

SenderSend ==
  /\ sender = "send"
  /\ \/ Reaches(wfd) # {} /\ sender' = "loop"
     \/ sender' = "leave"
  /\ strayed' = (strayed \/ Strays(wfd))
  /\ UNCHANGED <<server, wfd, run, task, gen, last, traced, serves>>

SenderBye ==
  /\ sender = "bye"
  /\ closing' = closing \cup {wfd}
  /\ sender' = "leave"
  /\ strayed' = (strayed \/ Strays(wfd))
  /\ UNCHANGED <<fdOf, ctx, fresh, wfd, run, task, gen, last, traced, serves>>

(* Mutant: trace_ws_close is left out at the end. *)
LeaveOpen ==
  /\ sender = "leave"
  /\ last' = TRUE /\ sender' = "none"
  /\ UNCHANGED <<server, wfd, run, task, gen, traced, serves, strayed>>

(* trace_ws_close, and then the handle, which lets the next client in. *)
SenderClose ==
  /\ sender = "leave"
  /\ wfd' = NoFd /\ run' = FALSE
  /\ last' = TRUE /\ sender' = "none"
  /\ UNCHANGED <<server, task, gen, traced, serves, strayed>>

SenderNull ==
  /\ last
  /\ task' = FALSE /\ last' = FALSE
  /\ UNCHANGED <<server, wfd, run, gen, sender, traced, serves, strayed>>

Sender ==
  SenderStart \/ SenderLoop \/ SenderIdle \/ SenderEnded \/ SenderRead \/ SenderSend \/ SenderBye
    \/ SenderClose \/ SenderNull

WsNext ==
  \/ \E c \in Conns : Accept(c) \/ Handshake(c) \/ HandshakeFails(c) \/ HandshakeRefused(c)
                      \/ Frame(c) \/ Drop(c)
  \/ \E f \in Fds : CloseQueued(f)
  \/ Sender

(* The sender is scheduled on core 1 and never blocks for good (sends time  *)
(* out); queued closes are worked off.  Clients owe nothing.                *)
WsSpec ==
  /\ WsInit /\ [][WsNext]_wsVars
  /\ WF_wsVars(Sender) /\ \A f \in Fds : WF_wsVars(CloseQueued(f))

(***************************************************************************)
(* Properties.                                                             *)
(***************************************************************************)
(* Types; no two open connections have one descriptor, and no two clients   *)
(* one number.                                                              *)
WsTypeOK ==
  /\ fdOf \in [Conns -> Fds \cup {NoFd}] /\ ctx \in [Conns -> 0 .. gen] /\ gen \in Nat
  /\ \A c, d \in Open : fdOf[c] = fdOf[d] => c = d
  /\ \A c, d \in Conns : ctx[c] = ctx[d] /\ ctx[c] # 0 => c = d
  /\ closing \subseteq Fds /\ fresh \subseteq Conns
  /\ wfd \in Fds \cup {NoFd} /\ run \in BOOLEAN /\ task \in BOOLEAN
  /\ serves \in 0 .. gen
  /\ sender \in {"none", "start", "loop", "read", "send", "bye", "leave"} /\ last \in BOOLEAN
  /\ traced \in BOOLEAN /\ strayed \in BOOLEAN

(* One sender at a time, and the one that leaves does not clear what the    *)
(* next client's handshake has set: while a sender streams, descriptor and  *)
(* handle are those of the client it serves, the newest one.                *)
SenderOwnsStream ==
  sender # "none" => task /\ wfd # NoFd /\ serves = gen

(* With no sender left the stream is free for the next client.              *)
FreeWhenNone == sender = "none" /\ ~last => SenderGone

(* trace_ws_session_gone: a sender whose client's connection is closed      *)
(* stops; it does not idle on an empty ring for good.                       *)
SenderStops ==
  (sender # "none" /\ \A c \in Open : ctx[c] # serves) ~> (sender = "none" /\ ~last)

(* "so a stale session's close cannot stop a newer sender": a connection    *)
(* that is not the newest client's leaves s_trace_ws_run as it is.          *)
StaleCloseHarmless ==
  [][\A c \in Conns :
       ctx[c] # gen /\ (Frame(c) \/ Drop(c)) => UNCHANGED run]_wsVars

(* The sender never writes "frames into whatever connection inherits the    *)
(* descriptor", nor closes it.                                              *)
FramesToOwner == ~strayed
=============================================================================
