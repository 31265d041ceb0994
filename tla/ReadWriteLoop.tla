---------------------------- MODULE ReadWriteLoop ----------------------------
(***************************************************************************)
(* tcp.ReadWriteLoop (src/unnamed/part_000): one connection served by a    *)
(* read goroutine (LoopRead, 79-127) and a write goroutine (LoopWrite,     *)
(* 48-77) sharing the out queue and the flags rdClosed, wrClosed and       *)
(* closed; CloseRead/CloseWrite (146-167) come from the peer's ConnCtrl    *)
(* messages, Exit (169-180) from an I/O error, and Write (129-144) from    *)
(* the server's own goroutines.                                            *)
(* Conn, the codec and syn.Queue are not under src/. Modelled: the peer's  *)
(* bytes arrive in `inbox`; ReadMsg on a closed conn, or after the peer    *)
(* closed and everything was read, fails with a net.Error; WriteMsg on a   *)
(* closed or write-shut conn fails with a net.Error, and to a gone peer it *)
(* may succeed or fail; out.Close wakes a blocked Dequeue, and Enqueue on  *)
(* a closed queue drops the message (its error is ignored at line 125).    *)
(* Conn's write buffering is abstracted: a written message is on the wire. *)
(***************************************************************************)
EXTENDS Naturals, Sequences, SequencesExt, FiniteSets

CONSTANTS
    MaxRequests,   \* requests the peer sends
    MaxPushes,     \* server-side Write calls
    Ctrls,         \* ConnCtrl codes the peer may send, each once
    MaxWriteErrors, \* WriteMsg errors that are not net errors
    DecodeErrors   \* TRUE: the peer may send a message that does not decode

ASSUME Ctrls \subseteq {"CloseRead", "CloseWrite"} /\ DecodeErrors \in BOOLEAN

Requests == 1..MaxRequests
Msgs == {<<"resp", r>> : r \in Requests} \cup {<<"push", p>> : p \in 1..MaxPushes}
\* What ReadMsg can return: a request, a ConnCtrl, bytes that do not
\* decode, or an error that is neither a net.Error nor EOF (logged, 91-92).
Input == {<<"req", r>> : r \in Requests} \cup {<<"ctrl", c>> : c \in Ctrls}
         \cup {<<"readerr", 0>>} \cup (IF DecodeErrors THEN {<<"garbage", 0>>} ELSE {})
NoMsg == <<"none", 0>>

VARIABLES
    inbox,      \* what the peer sent that LoopRead has not read
    sent,       \* the inputs the peer has sent so far
    peerGone,   \* the peer closed its end
    rdClosed, wrClosed, closed,
    out,        \* the out queue
    outClosed,  \* out.Close was called
    rpc,        \* LoopRead: "top", "read", "handled" or "done"
    reply,      \* the handler's answer to the request being handled
    wpc,        \* LoopWrite: "top", "dequeue", "write" or "done"
    block,      \* LoopWrite's block flag
    wmsg,       \* the message LoopWrite dequeued
    wire,       \* messages WriteMsg put on the connection
    pushes,     \* Write calls so far
    lost,       \* messages whose WriteMsg failed with a non-net error
    onExits     \* times onExit ran

vars == <<inbox, sent, peerGone, rdClosed, wrClosed, closed, out, outClosed, rpc,
          reply, wpc, block, wmsg, wire, pushes, lost, onExits>>

TypeOK ==
    /\ inbox \in Seq(Input) /\ sent \subseteq Input /\ peerGone \in BOOLEAN
    /\ {rdClosed, wrClosed, closed, outClosed, block} \subseteq BOOLEAN
    /\ out \in Seq(Msgs) /\ wire \in Seq(Msgs)
    /\ rpc \in {"top", "read", "handled", "done"} /\ reply \in Msgs \cup {NoMsg}
    /\ wpc \in {"top", "dequeue", "write", "done"} /\ wmsg \in Msgs \cup {NoMsg}
    /\ pushes \in 0..MaxPushes /\ lost \subseteq Msgs
    /\ onExits \in 0..1

-----------------------------------------------------------------------------
(* Exit, CloseWrite, CloseRead: each does its work only for the caller     *)
(* whose CompareAndSwap sets the flag.                                      *)

\* Mutant: Exit without the CompareAndSwap on closed.
ExitNoCAS ==
    /\ closed' = TRUE
    /\ outClosed' = TRUE
    /\ onExits' = onExits + 1

\* Mutant: Exit closes the conn but not the out queue.
ExitNoQueueClose ==
    IF closed THEN UNCHANGED <<closed, outClosed, onExits>>
    ELSE /\ closed' = TRUE
         /\ onExits' = onExits + 1
         /\ UNCHANGED outClosed

\* Lines 169-180: flush and close the conn, close out, run onExit.
Exit ==
    IF closed THEN UNCHANGED <<closed, outClosed, onExits>>
    ELSE /\ closed' = TRUE
         /\ outClosed' = TRUE
         /\ onExits' = onExits + 1

\* Mutant: CloseWrite shuts the socket but leaves the out queue open.
CloseWriteNoQueueClose ==
    IF wrClosed THEN UNCHANGED <<wrClosed, outClosed>>
    ELSE /\ wrClosed' = TRUE
         /\ UNCHANGED outClosed

\* Lines 146-152: shut the write half of the conn and close out.
CloseWrite ==
    IF wrClosed THEN UNCHANGED <<wrClosed, outClosed>>
    ELSE /\ wrClosed' = TRUE
         /\ outClosed' = TRUE

\* Lines 158-163: shut the read half of the conn.
CloseRead == rdClosed' = TRUE

\* Enqueue: dropped when out is closed.
Enqueue(m) == out' = IF outClosed THEN out ELSE Append(out, m)

-----------------------------------------------------------------------------
(* The peer and the server's other goroutines.                             *)

PeerSend(x) ==
    /\ ~peerGone /\ x \notin sent
    /\ inbox' = Append(inbox, x)
    /\ sent' = sent \cup {x}
    /\ UNCHANGED <<peerGone, rdClosed, wrClosed, closed, out, outClosed, rpc, reply,
                   wpc, block, wmsg, wire, pushes, lost, onExits>>

PeerClose ==
    /\ ~peerGone
    /\ peerGone' = TRUE
    /\ UNCHANGED <<inbox, sent, rdClosed, wrClosed, closed, out, outClosed, rpc, reply,
                   wpc, block, wmsg, wire, pushes, lost, onExits>>

\* Lines 129-144: Write fails when the loop is not running or write is
\* closed, else the message is enqueued.
Write ==
    /\ pushes < MaxPushes
    /\ pushes' = pushes + 1
    /\ IF closed \/ wrClosed THEN UNCHANGED out ELSE Enqueue(<<"push", pushes + 1>>)
    /\ UNCHANGED <<inbox, sent, peerGone, rdClosed, wrClosed, closed, outClosed, rpc,
                   reply, wpc, block, wmsg, wire, lost, onExits>>

-----------------------------------------------------------------------------
(* LoopRead, lines 79-127.                                                 *)

\* Line 83: the loop condition.
LoopReadTop ==
    /\ rpc = "top"
    /\ rpc' = IF closed \/ rdClosed THEN "done" ELSE "read"
    /\ UNCHANGED <<inbox, sent, peerGone, rdClosed, wrClosed, closed, out, outClosed,
                   reply, wpc, block, wmsg, wire, pushes, lost, onExits>>

\* Lines 84-89: ReadMsg fails with a net.Error or EOF, on a conn that Exit
\* closed or once the peer is gone and its bytes are read; Exit, return.
LoopReadEOF ==
    /\ rpc = "read"
    /\ closed \/ (peerGone /\ inbox = <<>>)
    /\ Exit
    /\ rpc' = "done"
    /\ UNCHANGED <<inbox, sent, peerGone, rdClosed, wrClosed, out, reply, wpc, block,
                   wmsg, wire, pushes, lost>>

\* Lines 84-111 for one message read from the conn.
LoopReadMsg ==
    /\ rpc = "read" /\ ~closed /\ inbox # <<>>
    /\ inbox' = Tail(inbox)
    /\ LET x == Head(inbox) IN
       \/ /\ x[1] = "readerr"                                    \* 90-92
          /\ rpc' = "top"
          /\ UNCHANGED <<rdClosed, wrClosed, closed, outClosed, reply, onExits>>
       \/ /\ x[1] = "garbage"                                    \* 95-100
          /\ Exit
          /\ rpc' = "done"
          /\ UNCHANGED <<rdClosed, wrClosed, reply>>
       \/ /\ x = <<"ctrl", "CloseRead">>                         \* 104-105
          /\ CloseRead
          /\ rpc' = "top"
          /\ UNCHANGED <<wrClosed, closed, outClosed, reply, onExits>>
       \/ /\ x = <<"ctrl", "CloseWrite">>                        \* 106-107
          /\ CloseWrite
          /\ rpc' = "top"
          /\ UNCHANGED <<rdClosed, closed, reply, onExits>>
       \/ /\ x[1] = "req"                                        \* 113: handle
          /\ reply' \in {<<"resp", x[2]>>, NoMsg}
          /\ rpc' = "handled"
          /\ UNCHANGED <<rdClosed, wrClosed, closed, outClosed, onExits>>
    /\ UNCHANGED <<sent, peerGone, out, wpc, block, wmsg, wire, pushes, lost>>

\* Lines 114-125: drop the reply if write is closed or it is EmptyMsg,
\* else enqueue it.
LoopReadReply ==
    /\ rpc = "handled"
    /\ IF wrClosed \/ reply = NoMsg THEN UNCHANGED out ELSE Enqueue(reply)
    /\ rpc' = "top"
    /\ reply' = NoMsg
    /\ UNCHANGED <<inbox, sent, peerGone, rdClosed, wrClosed, closed, outClosed, wpc,
                   block, wmsg, wire, pushes, lost, onExits>>

-----------------------------------------------------------------------------
(* LoopWrite, lines 48-77.                                                 *)

\* Line 51: the loop condition.
LoopWriteTop ==
    /\ wpc = "top"
    /\ wpc' = IF closed \/ wrClosed THEN "done" ELSE "dequeue"
    /\ UNCHANGED <<inbox, sent, peerGone, rdClosed, wrClosed, closed, out, outClosed,
                   rpc, reply, block, wmsg, wire, pushes, lost, onExits>>

\* Line 52: Dequeue returns a message; it blocks while out is empty and
\* open and block is set.
LoopWriteDequeue ==
    /\ wpc = "dequeue" /\ out # <<>>
    /\ wmsg' = Head(out)
    /\ out' = Tail(out)
    /\ wpc' = "write"
    /\ UNCHANGED <<inbox, sent, peerGone, rdClosed, wrClosed, closed, outClosed, rpc,
                   reply, block, wire, pushes, lost, onExits>>

\* Lines 52, 72-75: Dequeue returns nil (out empty and not blocking, or
\* out closed); when not blocking, Flush and block from now on.
LoopWriteNil ==
    /\ wpc = "dequeue"
    /\ outClosed \/ (out = <<>> /\ ~block)
    /\ block' = TRUE
    /\ wpc' = "top"
    /\ UNCHANGED <<inbox, sent, peerGone, rdClosed, wrClosed, closed, out, outClosed,
                   rpc, reply, wmsg, wire, pushes, lost, onExits>>

\* Lines 60-71: WriteMsg succeeds (a gone peer's kernel may still accept it).
LoopWriteOK ==
    /\ wpc = "write" /\ ~closed /\ ~wrClosed
    /\ wire' = Append(wire, wmsg)
    /\ block' = FALSE
    /\ wmsg' = NoMsg
    /\ wpc' = "top"
    /\ UNCHANGED <<inbox, sent, peerGone, rdClosed, wrClosed, closed, out, outClosed,
                   rpc, reply, pushes, lost, onExits>>

\* Lines 62-66: WriteMsg fails with a net.Error on a closed conn, a
\* write-shut conn or a gone peer: Exit and return.
LoopWriteNetErr ==
    /\ wpc = "write" /\ (closed \/ wrClosed \/ peerGone)
    /\ Exit
    /\ wmsg' = NoMsg
    /\ wpc' = "done"
    /\ UNCHANGED <<inbox, sent, peerGone, rdClosed, wrClosed, out, rpc, reply, block,
                   wire, pushes, lost>>

\* Mutant: a non-net write error ends the write loop.
LoopWriteErrReturn ==
    /\ wpc = "write" /\ ~closed /\ ~wrClosed /\ Cardinality(lost) < MaxWriteErrors
    /\ lost' = lost \cup {wmsg}
    /\ wmsg' = NoMsg
    /\ wpc' = "done"
    /\ UNCHANGED <<inbox, sent, peerGone, rdClosed, wrClosed, closed, out, outClosed,
                   rpc, reply, block, wire, pushes, onExits>>

\* Lines 62-71: another WriteMsg error is logged, the message is lost and
\* the loop goes on.
LoopWriteErr ==
    /\ wpc = "write" /\ ~closed /\ ~wrClosed /\ Cardinality(lost) < MaxWriteErrors
    /\ lost' = lost \cup {wmsg}
    /\ block' = FALSE
    /\ wmsg' = NoMsg
    /\ wpc' = "top"
    /\ UNCHANGED <<inbox, sent, peerGone, rdClosed, wrClosed, closed, out, outClosed,
                   rpc, reply, wire, pushes, onExits>>

-----------------------------------------------------------------------------

Init ==
    /\ inbox = <<>> /\ sent = {} /\ peerGone = FALSE
    /\ rdClosed = FALSE /\ wrClosed = FALSE /\ closed = FALSE
    /\ out = <<>> /\ outClosed = FALSE
    /\ rpc = "top" /\ reply = NoMsg
    /\ wpc = "top" /\ block = TRUE /\ wmsg = NoMsg
    /\ wire = <<>> /\ pushes = 0 /\ lost = {}
    /\ onExits = 0

LoopRead == LoopReadTop \/ LoopReadEOF \/ LoopReadMsg \/ LoopReadReply

LoopWrite == LoopWriteTop \/ LoopWriteDequeue \/ LoopWriteNil \/ LoopWriteOK
             \/ LoopWriteNetErr \/ LoopWriteErr

Next == LoopRead \/ LoopWrite \/ Write \/ PeerClose \/ \E x \in Input : PeerSend(x)

\* The two goroutines run whenever they can; the peer and the server's
\* pushes are not obliged to do anything.
Spec == Init /\ [][Next]_vars /\ WF_vars(LoopRead) /\ WF_vars(LoopWrite)

-----------------------------------------------------------------------------
(* Properties                                                              *)

\* Once the peer has closed the connection, LoopRead ends, and unless a
\* CloseRead ended it first, Exit runs onExit and LoopWrite ends too: a
\* blocked Dequeue is woken by out.Close in Exit or CloseWrite (lines 149,
\* 173). After CloseRead (line 105) nothing reads the conn and nothing but
\* a failing write calls Exit, so that case is excluded here.
ExitReleases ==
    peerGone ~> (rpc = "done" /\ (rdClosed \/ (onExits = 1 /\ wpc = "done")))

\* A reply or push that was enqueued is eventually written, lost to a
\* logged write error, or dropped because the loop closed or stopped
\* writing: the block/flush toggling of LoopWrite never strands it.
ReplyDelivered ==
    \A m \in Msgs :
        (m \in ToSet(out)) ~> (m \in ToSet(wire) \/ m \in lost \/ closed \/ wrClosed)

\* Once the peer's CloseWrite is handled, LoopWrite ends, whichever step it
\* was at: blocked in Dequeue (woken by out.Close, line 150), or holding a
\* message it dequeued after its wrClosed check at line 51 (the write to
\* the shut socket fails and it returns through Exit, lines 62-65).
WriteHalfEnds ==
    wrClosed ~> (wpc = "done" /\ wmsg = NoMsg)

=============================================================================
