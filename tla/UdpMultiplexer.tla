--------------------------- MODULE UdpMultiplexer ---------------------------
(***************************************************************************)
(* bittorrent/udp_multiplexer.h: the coroutine that sends queued messages, *)
(* the one that receives packets, and the functions send and receive that  *)
(* DhtNode calls, with the loop of DhtNode that calls receive.  Messages   *)
(* are named by their sender, packets by the order of their arrival.       *)
(*                                                                         *)
(* Both coroutines limit their rate with one timer: when one of them sets  *)
(* it while the other waits for it, that wait ends with operation_aborted. *)
(* A packet that arrives while a coroutine is delayed stays in the socket. *)
(***************************************************************************)
EXTENDS Naturals, Sequences

CONSTANTS
  Sender,      \* the coroutines that send, each one message
  MaxPackets   \* bound on the packets that arrive

VARIABLES
  send_queue,  \* _send_queue: the senders of the queued messages
  tx, rx,      \* the two coroutines: "on", "limit", "aborted" or "ended"
  held,        \* the packet rx holds while it is delayed
  arrived,     \* how many packets came from the socket
  caller,      \* the calls of send
  wired,       \* the messages that were handed to the socket
  receiver,    \* the call of receive: "busy" (none), "waiting", "woken", "gone"
  handed,      \* what its handler was given: [ec, packet]
  got,         \* the packets that receive returned
  unplugged,   \* the socket has failed
  terminated   \* _terminate_signal

udp_vars == <<send_queue, tx, rx, held, arrived, caller, wired, receiver,
              handed, got, unplugged, terminated>>

Nothing == [ec |-> "none", packet |-> 0]

UdpInit ==
  /\ send_queue = <<>> /\ tx = "on" /\ rx = "on" /\ held = 0 /\ arrived = 0
  /\ caller = [s \in Sender |-> "idle"] /\ wired = {}
  /\ receiver = "busy" /\ handed = Nothing /\ got = <<>>
  /\ unplugged = FALSE /\ terminated = FALSE

\* Whether the rate is above the limit depends on sizes and on the clock.
over_limit == BOOLEAN

\* expires_after ends the wait of the other coroutine.
Disturbed(other) == IF other = "limit" THEN "aborted" ELSE other

-----------------------------------------------------------------------------
(* Sending. *)

send(s) ==
  /\ ~terminated /\ caller[s] = "idle"
  /\ caller' = [caller EXCEPT ![s] = "waiting"]
  /\ send_queue' = Append(send_queue, s)
  /\ UNCHANGED <<tx, rx, held, arrived, wired, receiver, handed, got,
                 unplugged, terminated>>

\* A cancelled call returns; its message stays in the queue.
SendCancelled(s) ==
  /\ ~terminated /\ caller[s] = "waiting"
  /\ caller' = [caller EXCEPT ![s] = "cancelled"]
  /\ UNCHANGED <<send_queue, tx, rx, held, arrived, wired, receiver, handed,
                 got, unplugged, terminated>>

\* The result is written and signalled to the sender that still waits.
Reported(ec) ==
  LET s == Head(send_queue)
  IN  /\ caller' = IF caller[s] = "waiting" THEN [caller EXCEPT ![s] = ec] ELSE caller
      /\ send_queue' = Tail(send_queue)

\* async_send_to of the first message completes.
MessageSent ==
  /\ ~terminated /\ tx = "on" /\ send_queue # <<>>
  /\ \/ /\ unplugged
        /\ Reported("failed")
        /\ UNCHANGED <<tx, rx, wired>>
     \/ /\ ~unplugged
        /\ wired' = wired \cup {Head(send_queue)}
        /\ \E over \in over_limit :
             IF over THEN /\ tx' = "limit" /\ rx' = Disturbed(rx)
                          /\ UNCHANGED <<send_queue, caller>>
                     ELSE Reported("ok") /\ UNCHANGED <<tx, rx>>
  /\ UNCHANGED <<held, arrived, receiver, handed, got, unplugged, terminated>>

\* Mutant of SendDelayed: a wait that was disturbed ends the coroutine.
SendDelayedOnce ==
  /\ ~terminated /\ tx \in {"limit", "aborted"}
  /\ IF tx = "limit" THEN tx' = "on" /\ Reported("ok")
                     ELSE tx' = "ended" /\ UNCHANGED <<send_queue, caller>>
  /\ UNCHANGED <<rx, held, arrived, wired, receiver, handed, got, unplugged,
                 terminated>>

\* The delay is over.  One that was cut short is reported as an error,
\* although the message was sent.
SendDelayed ==
  /\ ~terminated /\ tx \in {"limit", "aborted"}
  /\ tx' = "on"
  /\ Reported(IF tx = "limit" THEN "ok" ELSE "failed")
  /\ UNCHANGED <<rx, held, arrived, wired, receiver, handed, got, unplugged,
                 terminated>>

-----------------------------------------------------------------------------
(* Receiving. *)

\* The handlers of all registered calls are called: a call that was woken
\* and has not run yet is given the new packet instead; with none registered
\* the packet is lost.
Handled(ec, packet) ==
  IF receiver \in {"waiting", "woken"}
  THEN receiver' = "woken" /\ handed' = [ec |-> ec, packet |-> packet]
  ELSE UNCHANGED <<receiver, handed>>

\* async_receive_from completes.
PacketReceived ==
  /\ ~terminated /\ rx = "on"
  /\ \/ /\ unplugged
        /\ Handled("failed", 0)
        /\ UNCHANGED <<tx, rx, held, arrived>>
     \/ /\ ~unplugged /\ arrived < MaxPackets
        /\ arrived' = arrived + 1
        /\ \E over \in over_limit :
             IF over THEN /\ rx' = "limit" /\ tx' = Disturbed(tx)
                          /\ held' = arrived'
                          /\ UNCHANGED <<receiver, handed>>
                     ELSE Handled("ok", arrived') /\ UNCHANGED <<tx, rx, held>>
  /\ UNCHANGED <<send_queue, caller, wired, got, unplugged, terminated>>

\* The error of a delay that was cut short is passed on with the packet.
ReceiveDelayed ==
  /\ ~terminated /\ rx \in {"limit", "aborted"}
  /\ rx' = "on" /\ held' = 0
  /\ Handled(IF rx = "limit" THEN "ok" ELSE "failed", held)
  /\ UNCHANGED <<send_queue, tx, arrived, caller, wired, got, unplugged,
                 terminated>>

\* DhtNode::receive_loop calls receive when it has dealt with a packet.
receive ==
  /\ ~terminated /\ receiver = "busy"
  /\ receiver' = "waiting" /\ handed' = Nothing
  /\ UNCHANGED <<send_queue, tx, rx, held, arrived, caller, wired, got,
                 unplugged, terminated>>

\* The call of receive returns.  An error ends the loop of DhtNode.
ReceiveReturns ==
  /\ ~terminated /\ receiver = "woken"
  /\ IF handed.ec = "ok"
     THEN receiver' = "busy" /\ got' = Append(got, handed.packet)
     ELSE receiver' = "gone" /\ UNCHANGED got
  /\ UNCHANGED <<send_queue, tx, rx, held, arrived, caller, wired, handed,
                 unplugged, terminated>>

-----------------------------------------------------------------------------
SocketFails ==
  /\ ~unplugged /\ ~terminated
  /\ unplugged' = TRUE
  /\ UNCHANGED <<send_queue, tx, rx, held, arrived, caller, wired, receiver,
                 handed, got, terminated>>

\* The destructor: every waiting call returns operation_aborted.
Terminate ==
  /\ ~terminated
  /\ terminated' = TRUE
  /\ tx' = "ended" /\ rx' = "ended"
  /\ caller' = [s \in Sender |-> IF caller[s] = "waiting" THEN "cancelled" ELSE caller[s]]
  /\ receiver' = "gone"
  /\ UNCHANGED <<send_queue, held, arrived, wired, handed, got, unplugged>>

TxStep == MessageSent \/ SendDelayed
UdpNext ==
  \/ \E s \in Sender : send(s) \/ SendCancelled(s)
  \/ TxStep
  \/ PacketReceived \/ ReceiveDelayed \/ receive \/ ReceiveReturns
  \/ SocketFails \/ Terminate

\* The sending coroutine runs and its timer expires.
UdpFair == WF_udp_vars(TxStep)

-----------------------------------------------------------------------------
\* Does any call of send wait?
SendWaiting == \E s \in Sender : caller[s] = "waiting"

\* Every call of send returns, whatever the receiving coroutine does to the
\* timer they share.
SendEnds == SendWaiting ~> ~SendWaiting

=============================================================================
