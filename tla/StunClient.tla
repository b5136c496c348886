------------------------------ MODULE StunClient ------------------------------
(***************************************************************************)
(* The STUN client, src/unnamed/part_011 lines 122-217 (stun_client.cpp), *)
(* with its declarations in src/core/include/rtc/stun_client.h.           *)
(*                                                                         *)
(* One pending transaction: get_reflexive_address installs the caller's   *)
(* callback and a fresh transaction id and sends a Binding request to the *)
(* first server; process_packet hands a response carrying the pending id  *)
(* to the callback and then clears it.  A callback is named by the id of  *)
(* the call that installed it.  The network loses, duplicates and         *)
(* reorders: it is a set of messages, and a delivery may leave its        *)
(* message behind.  The server answers a request with a Binding response  *)
(* or an error response.  process_packet is split at the callback, which  *)
(* may call get_reflexive_address again (a retry from the callback).      *)
(* The client has no lock; the model has one thread calling it.           *)
(***************************************************************************)
EXTENDS Naturals, Sequences

CONSTANTS
  TxIds,        \* the transaction ids StunTransactionId::generate returns
  NoTx,         \* an id no request carries
  NoCallback,   \* the empty StunCallback
  HasServer     \* Config::servers is not empty

VARIABLES
  pendingCb,    \* Impl::pending_callback: the call that installed it
  pendingTx,    \* Impl::pending_transaction
  inCallback,   \* process_packet is inside pending_callback(result)
  used,         \* transaction ids generated so far
  net,          \* messages in flight: [type, tx]
  invocations   \* ghost: the callback calls, [cb, tx, success], in order

stunVars == <<pendingCb, pendingTx, inCallback, used, net, invocations>>

Message == [type: {"request", "response", "error"}, tx: TxIds]

-----------------------------------------------------------------------------

\* get_reflexive_address, lines 144-169: the callback and the id are
\* stored first; the request is sent only when a server is configured.
GetReflexiveAddress ==
  \E tx \in TxIds \ used :
    /\ used' = used \cup {tx}
    /\ pendingCb' = tx
    /\ pendingTx' = tx
    /\ net' = IF HasServer THEN net \cup {[type |-> "request", tx |-> tx]} ELSE net
    /\ UNCHANGED <<inCallback, invocations>>

\* The STUN server answers a request, which may stay in the network.
ServerAnswer(m, keep) ==
  /\ m.type = "request"
  /\ \E t \in {"response", "error"} :
       net' = (IF keep THEN net ELSE net \ {m}) \cup {[type |-> t, tx |-> m.tx]}
  /\ UNCHANGED <<pendingCb, pendingTx, inCallback, used, invocations>>

\* The network loses a message.
Lose(m) ==
  /\ net' = net \ {m}
  /\ UNCHANGED <<pendingCb, pendingTx, inCallback, used, invocations>>

\* Mutant of Deliver: the transaction id is not compared.
DeliverAnyTx(m, keep) ==
  /\ ~inCallback
  /\ m.type \in {"response", "error"}
  /\ net' = IF keep THEN net ELSE net \ {m}
  /\ IF pendingCb # NoCallback
     THEN /\ invocations' = Append(invocations, [cb |-> pendingCb, tx |-> m.tx,
                                                  success |-> m.type = "response"])
          /\ inCallback' = TRUE
     ELSE UNCHANGED <<inCallback, invocations>>
  /\ UNCHANGED <<pendingCb, pendingTx, used>>

\* process_packet, lines 180-207: a response or error response (the parse
\* succeeds) carrying the pending id calls the callback, if one is set.
\* A message may stay in the network to be delivered again.
Deliver(m, keep) ==
  /\ ~inCallback
  /\ m.type \in {"response", "error"}
  /\ net' = IF keep THEN net ELSE net \ {m}
  /\ IF m.tx = pendingTx /\ pendingCb # NoCallback
     THEN /\ invocations' = Append(invocations, [cb |-> pendingCb, tx |-> m.tx,
                                                  success |-> m.type = "response"])
          /\ inCallback' = TRUE
     ELSE UNCHANGED <<inCallback, invocations>>
  /\ UNCHANGED <<pendingCb, pendingTx, used>>

\* Mutant of CallbackReturn: pending_callback is not cleared.
CallbackReturnKeep ==
  /\ inCallback
  /\ inCallback' = FALSE
  /\ UNCHANGED <<pendingCb, pendingTx, used, net, invocations>>

\* Line 211: once the callback returns, pending_callback = nullptr, also
\* when the callback has installed a new one.
CallbackReturn ==
  /\ inCallback
  /\ inCallback' = FALSE
  /\ pendingCb' = NoCallback
  /\ UNCHANGED <<pendingTx, used, net, invocations>>

-----------------------------------------------------------------------------

\* The constructor, lines 131-140: pending_transaction is a POD member the
\* constructor leaves uninitialised, so it holds any id.
Init ==
  /\ pendingCb = NoCallback
  /\ pendingTx \in TxIds \cup {NoTx}
  /\ inCallback = FALSE
  /\ used = {}
  /\ net = {}
  /\ invocations = << >>

Next ==
  \/ GetReflexiveAddress
  \/ \E m \in net, keep \in BOOLEAN : ServerAnswer(m, keep)
  \/ \E m \in net : Lose(m)
  \/ \E m \in net, keep \in BOOLEAN : Deliver(m, keep)
  \/ CallbackReturn

Spec == Init /\ [][Next]_stunVars

-----------------------------------------------------------------------------
(* Properties.                                                             *)

TypeOK ==
  /\ pendingCb \in TxIds \cup {NoCallback}
  /\ pendingTx \in TxIds \cup {NoTx}
  /\ inCallback \in BOOLEAN
  /\ used \subseteq TxIds
  /\ net \subseteq Message

\* A callback is only ever handed the answer to its own request: a
\* response to an earlier request, delivered late or again after a newer
\* request replaced the callback, never reaches the newer callback.
OwnAnswer ==
  \A i \in 1..Len(invocations) : invocations[i].tx = invocations[i].cb

\* A callback runs at most once, however often the network delivers the
\* response and whatever the callback itself calls.
AtMostOnce ==
  \A i, j \in 1..Len(invocations) : i < j => invocations[i].cb # invocations[j].cb

=============================================================================
