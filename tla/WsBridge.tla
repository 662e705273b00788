------------------------------- MODULE WsBridge ------------------------------
(***************************************************************************)
(* The WebSocket bridge of app.py: node_ws joins a browser's socket to one *)
(* it opens to the node with the node's token.  The handler's thread waits *)
(* on the browser, a second thread (the pump) waits on the node with no    *)
(* timeout; each must end the other.  Messages are forwarded unread, so    *)
(* only those that change something are steps here.                        *)
(***************************************************************************)
EXTENDS Naturals

VARIABLES enrolled,              \* the node's record: is it https, is it pinned
          matches,               \* the live certificate is the pinned one
          main, pump,            \* where the two threads are
          stop,                  \* the event they share
          browser,               \* our end of the browser's socket
          upstream,              \* our end of the node's socket
          browserGone, nodeGone, \* the other ends have closed
          tokenSent              \* history: the Authorization header went out
bridgeVars == <<enrolled, matches, main, pump, stop, browser, upstream,
                browserGone, nodeGone, tokenSent>>
peers == <<enrolled, matches, browserGone, nodeGone>>

BridgeTypeOK ==
  /\ enrolled \in [tls : BOOLEAN, pinned : BOOLEAN] /\ matches \in BOOLEAN
  /\ main \in {"find", "dial", "shake", "upgrade", "refuse", "loop", "close", "done"}
  /\ pump \in {"none", "recv", "close", "done"}
  /\ stop \in BOOLEAN /\ tokenSent \in BOOLEAN
  /\ browser \in {"open", "closed"} /\ upstream \in {"none", "open", "closed"}
  /\ browserGone \in BOOLEAN /\ nodeGone \in BOOLEAN
  /\ tokenSent => upstream # "none"

BridgeInit ==
  /\ enrolled \in [tls : BOOLEAN, pinned : BOOLEAN] /\ matches \in BOOLEAN
  /\ main = "find" /\ pump = "none" /\ stop = FALSE
  /\ browser = "open" /\ upstream = "none"
  /\ browserGone = FALSE /\ nodeGone = FALSE /\ tokenSent = FALSE

-----------------------------------------------------------------------------
Find ==
  /\ main = "find" /\ main' \in {"dial", "refuse"}
  /\ UNCHANGED <<peers, pump, stop, browser, upstream, tokenSent>>

\* _pinned_ws_connect: connect; handshake and pin, where there is TLS; upgrade
Dial ==
  /\ main = "dial"
  /\ \/ main' = "refuse" /\ UNCHANGED upstream
     \/ main' = "shake" /\ upstream' = "open"
  /\ UNCHANGED <<peers, pump, stop, browser, tokenSent>>

PinHolds_Unchecked == TRUE
PinHolds == enrolled.tls /\ enrolled.pinned => matches

Shake ==
  /\ main = "shake"
  /\ \/ PinHolds /\ main' = "upgrade" /\ UNCHANGED upstream
     \/ /\ enrolled.tls            \* the handshake fails, or the pin does not match
        /\ main' = "refuse" /\ upstream' = "closed"
  /\ UNCHANGED <<peers, pump, stop, browser, tokenSent>>

AfterFailedUpgrade_Forgotten == "none"
AfterFailedUpgrade == "closed"

Upgrade ==
  /\ main = "upgrade"
  /\ tokenSent' = TRUE
  /\ \/ main' = "loop" /\ pump' = "recv" /\ UNCHANGED upstream
     \/ main' = "refuse" /\ upstream' = AfterFailedUpgrade /\ UNCHANGED pump
  /\ UNCHANGED <<peers, stop, browser>>

Refuse ==
  /\ main = "refuse" /\ main' = "done" /\ browser' = "closed"
  /\ UNCHANGED <<peers, pump, stop, upstream, tokenSent>>

\* the loop sees the event, or ws.receive raises
LeaveLoop ==
  /\ main = "loop"
  /\ stop \/ browserGone \/ browser = "closed"
  /\ main' = "close"
  /\ UNCHANGED <<peers, pump, stop, browser, upstream, tokenSent>>

\* a message of the browser that cannot be passed on
MainData ==
  /\ main = "loop" /\ nodeGone
  /\ main' = "close"
  /\ UNCHANGED <<peers, pump, stop, browser, upstream, tokenSent>>

MainClose ==
  /\ main = "close" /\ main' = "done"
  /\ stop' = TRUE /\ browser' = "closed" /\ upstream' = "closed"
  /\ UNCHANGED <<peers, pump, tokenSent>>

\* recv returns nothing or raises: the node hung up, or our end was closed
PumpHangup ==
  /\ pump = "recv" /\ (nodeGone \/ upstream = "closed")
  /\ pump' = "close"
  /\ UNCHANGED <<peers, main, stop, browser, upstream, tokenSent>>

\* data of the node that cannot be passed on, or after which the event is seen
PumpData ==
  /\ pump = "recv" /\ ~nodeGone /\ upstream = "open"
  /\ browserGone \/ browser = "closed" \/ stop
  /\ pump' = "close"
  /\ UNCHANGED <<peers, main, stop, browser, upstream, tokenSent>>

PumpClose_Silent ==
  /\ pump = "close" /\ pump' = "done"
  /\ UNCHANGED <<peers, main, stop, browser, upstream, tokenSent>>
PumpClose ==
  /\ pump = "close" /\ pump' = "done"
  /\ stop' = TRUE /\ browser' = "closed"
  /\ UNCHANGED <<peers, main, upstream, tokenSent>>

\* external: either far end closes
BrowserHangsUp == /\ ~browserGone /\ browserGone' = TRUE
                  /\ UNCHANGED <<enrolled, matches, nodeGone, main, pump, stop, browser,
                                 upstream, tokenSent>>
NodeHangsUp == /\ upstream = "open" /\ ~nodeGone /\ nodeGone' = TRUE
               /\ UNCHANGED <<enrolled, matches, browserGone, main, pump, stop, browser,
                              upstream, tokenSent>>

MainStep == Find \/ Dial \/ Shake \/ Upgrade \/ Refuse \/ LeaveLoop \/ MainClose
BridgeNext == \/ MainStep \/ MainData \/ PumpHangup \/ PumpData \/ PumpClose
              \/ BrowserHangsUp \/ NodeHangsUp

BridgeSpec == BridgeInit /\ [][BridgeNext]_bridgeVars

-----------------------------------------------------------------------------
(* The token goes out only to the host whose certificate was enrolled: the *)
(* pin is compared on the same connection, before any byte is sent.        *)
TokenOnlyToPinned == tokenSent => (enrolled.tls /\ enrolled.pinned => matches)

(* Neither thread outlives the other and nothing stays open: once either   *)
(* far end hangs up, either thread is on its way out, or the connection is *)
(* refused (a wrong pin, a failed handshake, a failed upgrade), both       *)
(* threads end with both sockets closed, although the pump waits on a node *)
(* that may stay silent for ever.                                          *)
Over == /\ main = "done" /\ pump \in {"none", "done"}
        /\ browser = "closed" /\ upstream # "open"
NeitherOutlives == (browserGone \/ nodeGone \/ stop \/ main = "refuse") ~> [](Over)
=============================================================================
