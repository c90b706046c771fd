----------------------------- MODULE StreamProxy -----------------------------
(***************************************************************************)
(* A stream that is forwarded to the server of its transaction             *)
(* (proxyHandler in middleware/forwarder.go): one goroutine copies the     *)
(* messages of the client to that server, another one its answers back,    *)
(* and the handler waits for both on a channel, or for one and an error.   *)
(***************************************************************************)
EXTENDS Integers, Sequences

CONSTANTS
    XAsks,     \* number of messages the client sends
    XAnswers   \* numbers of messages the server may answer with

VARIABLES
    xtotal,   \* the messages the server answers with
    xsent,    \* messages of the client that were copied
    xgot,     \* answers the client has, in order
    xback,    \* the stream to the server: "open", "ended", "failed", "canceled"
    xclient,  \* the stream of the client: "open", "broken"
    xdown,    \* forwardDownstream: "recv", "send", "report", "end"
    xup,      \* forwardUpstream: [pc, next, err]
    xderr,    \* the error forwardDownstream reports
    xret,     \* the channel
    xmain     \* proxyHandler: "first", "second", then its result

xvars == <<xtotal, xsent, xgot, xback, xclient, xdown, xup, xderr, xret, xmain>>

XInit ==
    /\ xtotal \in XAnswers /\ xsent = 0 /\ xgot = <<>> /\ xback = "open" /\ xclient = "open"
    /\ xdown = "recv" /\ xup = [pc |-> "recv", next |-> 0, err |-> ""] /\ xderr = ""
    /\ xret = <<>> /\ xmain = "first"

\* make(chan error, 1).
RetSize == 1
HandlerReturned == xmain \notin {"first", "second"}

\* The server ends the stream after its answers, or fails; the client breaks
\* off.
BackFails == xback = "open" /\ xback' = "failed" /\ UNCHANGED <<xtotal, xsent, xgot, xclient, xdown, xup, xderr, xret, xmain>>
ClientBreaks == xclient = "open" /\ xclient' = "broken" /\ UNCHANGED <<xtotal, xsent, xgot, xback, xdown, xup, xderr, xret, xmain>>

-----------------------------------------------------------------------------
(* forwardDownstream. *)

\* src.RecvMsg: a message, the end, or an error once the client is gone or
\* the handler has returned.
DownRecv ==
    /\ xdown = "recv"
    /\ IF xclient = "broken" \/ HandlerReturned THEN xdown' = "report" /\ xderr' = "error"
       ELSE IF xsent < XAsks THEN xdown' = "send" /\ xderr' = xderr
       ELSE xdown' = "report" /\ xderr' = "EOF"
    /\ UNCHANGED <<xtotal, xsent, xgot, xback, xclient, xup, xret, xmain>>

\* dst.SendMsg, which says EOF of a stream that is over for any reason.
DownSend ==
    /\ xdown = "send"
    /\ IF xback = "open" THEN xdown' = "recv" /\ xsent' = xsent + 1 /\ xderr' = xderr
       ELSE xdown' = "report" /\ xsent' = xsent /\ xderr' = "EOF"
    /\ UNCHANGED <<xtotal, xgot, xback, xclient, xup, xret, xmain>>

DownReport ==
    /\ xdown = "report" /\ Len(xret) < RetSize
    /\ xret' = Append(xret, xderr) /\ xdown' = "end"
    /\ UNCHANGED <<xtotal, xsent, xgot, xback, xclient, xup, xderr, xmain>>

-----------------------------------------------------------------------------
(* forwardUpstream. *)

\* src.RecvMsg: the next answer, the end after the last one, or an error.
UpRecv ==
    /\ xup.pc = "recv"
    /\ \/ /\ xback = "open" /\ xup.next < xtotal
          /\ xup' = [xup EXCEPT !.pc = "send", !.next = @ + 1] /\ xback' = xback
       \/ /\ xback = "open" /\ xup.next = xtotal
          /\ xup' = [xup EXCEPT !.pc = "report", !.err = "EOF"] /\ xback' = "ended"
       \/ /\ xback \in {"failed", "canceled"}
          /\ xup' = [xup EXCEPT !.pc = "report", !.err = "error"] /\ xback' = xback
    /\ UNCHANGED <<xtotal, xsent, xgot, xclient, xdown, xderr, xret, xmain>>

\* dst.SendHeader before the first answer, and dst.SendMsg.
UpSend ==
    /\ xup.pc = "send"
    /\ IF xclient = "broken" \/ HandlerReturned
       THEN xup' = [xup EXCEPT !.pc = "report", !.err = "error"] /\ xgot' = xgot
       ELSE xup' = [xup EXCEPT !.pc = "recv"] /\ xgot' = Append(xgot, xup.next)
    /\ UNCHANGED <<xtotal, xsent, xback, xclient, xdown, xderr, xret, xmain>>

UpReport ==
    /\ xup.pc = "report" /\ Len(xret) < RetSize
    /\ xret' = Append(xret, xup.err) /\ xup' = [xup EXCEPT !.pc = "end"]
    /\ UNCHANGED <<xtotal, xsent, xgot, xback, xclient, xdown, xderr, xmain>>

-----------------------------------------------------------------------------
\* proxyHandler: an error ends it and cancels the stream to the server.
Wait ==
    /\ ~HandlerReturned /\ xret # <<>>
    /\ xret' = Tail(xret)
    /\ xmain' = IF Head(xret) # "EOF" THEN "error" ELSE IF xmain = "first" THEN "second" ELSE "ok"
    /\ xback' = IF Head(xret) # "EOF" /\ xback = "open" THEN "canceled" ELSE xback
    /\ UNCHANGED <<xtotal, xsent, xgot, xclient, xdown, xup, xderr>>

XNext == BackFails \/ ClientBreaks \/ DownRecv \/ DownSend \/ DownReport \/ UpRecv \/ UpSend \/ UpReport \/ Wait

-----------------------------------------------------------------------------

(***************************************************************************)
(* A forwarded stream that ends without error gave the client every answer *)
(* of the server, in order: the end of the client's own messages does not  *)
(* cut the answers off (proxyHandler waits for both).                      *)
(***************************************************************************)
ProxyComplete == xmain = "ok" => xgot = [i \in 1 .. xtotal |-> i]

\* The answers arrive in order and none twice, whatever breaks.
ProxyInOrder == \A i \in DOMAIN xgot : xgot[i] = i

(***************************************************************************)
(* No goroutine is left behind: once the handler has returned, the channel *)
(* has room for the report that is still to come (make(chan error, 1)).    *)
(***************************************************************************)
NoLeak == HandlerReturned /\ (xdown # "end" \/ xup.pc # "end") => Len(xret) < RetSize

=============================================================================
