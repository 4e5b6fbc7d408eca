------------------------------- MODULE SseClient -------------------------------
(***************************************************************************)
(* The client of examples/usage_examples.cpp, examples 4 and 8 put         *)
(* together: it remembers the id of the last message, resets the parser    *)
(* when the connection drops, connects again from that id on, and skips a  *)
(* byte order mark at the start of each connection.  The network cuts the  *)
(* stream anywhere and drops the connection anywhere, between two calls of *)
(* the parser.  The server is not part of the repository.                  *)
(***************************************************************************)
EXTENDS SseParser, SequencesExt

CONSTANTS
  Ids,       \* the ids of the events the server has, in order
  MaxChunk,  \* the most a client receives at once
  MaxDrops,  \* bound on the connections that drop
  AsksParser,  \* whether it resumes from last_event_id() of the parser
  WholeBom   \* whether the first chunk holds all of a byte order mark

ASSUME SseClientAssumption ==
  /\ {"id", "data"} \cup {BOM[i] : i \in 1 .. 3} \subseteq Token
  /\ Ids \in Seq(Token) /\ IsInjective(Ids)
  /\ \A k \in 1 .. Len(Ids) : Ids[k] \notin {CR, LF, Space}
  /\ MaxChunk \in Nat \ {0} /\ MaxDrops \in Nat
  /\ WholeBom \in BOOLEAN /\ AsksParser \in BOOLEAN

VARIABLES
  last_id,     \* what the callback remembers
  connected,
  first,       \* nothing was received on this connection yet
  pending,     \* sent by the server and not received
  drops

client_vars == <<last_id, connected, first, pending, drops>>

--------------------------------------------------------------------------------
(* The server.                                                             *)

EventMessage(id) ==
  [event |-> <<"message">>, data |-> <<id>>, id |-> <<id>>, retry |-> None]
EventText(id) == <<"id", Colon, id, LF, "data", Colon, id, LF, LF>>

(* The events after the first k.                                           *)
EventsFrom(k) == FlattenSeq([i \in 1 .. Len(Ids) - k |-> EventText(Ids[k + i])])

(* The events after the one the client names in Last-Event-ID.             *)
EventsAfter(id) ==
  EventsFrom(Max({0} \cup {k \in 1 .. Len(Ids) : <<Ids[k]>> = id}))

--------------------------------------------------------------------------------
(* Slips the operators below could contain; each breaks a property.        *)

RememberBuilt ==
  last_id' = IF current_msg_'.id # None THEN current_msg_'.id ELSE last_id

--------------------------------------------------------------------------------
(* The client.  Its callback runs inside Continue.                         *)

CInit ==
  /\ Init /\ callback_ # None
  /\ last_id = <<>> /\ connected = FALSE /\ first = TRUE
  /\ pending = <<>> /\ drops = 0

ResumeFrom == IF AsksParser THEN last_event_id_ ELSE last_id

Connect ==
  /\ pc = "idle" /\ ~ connected
  /\ connected' = TRUE /\ first' = TRUE
  /\ \E bom \in {<<>>, BOM} : pending' = bom \o EventsAfter(ResumeFrom)
  /\ UNCHANGED <<vars, last_id, drops>>

Skipped(chunk) == IF first THEN SkipBom(chunk) ELSE chunk

Receive(n) ==
  /\ pc = "idle" /\ connected /\ n <= Len(pending)
  /\ WholeBom /\ first /\ HasBom(pending) => n >= Len(BOM)
  /\ Parse(Skipped(SubSeq(pending, 1, n)))
  /\ first' = FALSE
  /\ pending' = SubSeq(pending, n + 1, Len(pending))
  /\ UNCHANGED <<last_id, connected, drops>>

RememberId ==
  last_id' = IF delivered' # delivered /\ delivered'[Len(delivered')].msg.id # None
             THEN delivered'[Len(delivered')].msg.id ELSE last_id

CContinue ==
  Continue /\ RememberId /\ UNCHANGED <<connected, first, pending, drops>>

Drop ==
  /\ connected /\ drops < MaxDrops
  /\ Reset
  /\ connected' = FALSE /\ pending' = <<>> /\ drops' = drops + 1
  /\ UNCHANGED <<last_id, first>>

ReceiveSome == \E n \in 1 .. MaxChunk : Receive(n)

CNext == Connect \/ ReceiveSome \/ CContinue \/ Drop

(* The client connects and receives as long as there is something to; the  *)
(* connection drops only finitely often.                                   *)
CSpec ==
  /\ CInit /\ [][CNext]_<<vars, client_vars>>
  /\ WF_<<vars, client_vars>>(Connect)
  /\ WF_<<vars, client_vars>>(ReceiveSome)
  /\ WF_<<vars, client_vars>>(CContinue)

--------------------------------------------------------------------------------
Events == [k \in 1 .. Len(Ids) |-> EventMessage(Ids[k])]
Received == [i \in 1 .. Len(delivered) |-> delivered[i].msg]

(* Across dropped connections every event is delivered at most once, in    *)
(* order and unmixed: what was received of an event before the drop leaves *)
(* nothing behind, and its id is not taken for delivered (reset, the       *)
(* callback of example 4).                                                 *)
EveryEventOnce == IsPrefix(Received, Events)

(* No event is lost: if connections stop dropping, all are delivered.      *)
AllDelivered == <>(Received = Events)

(* sse_parser.hpp:559: "SSE streams may include BOM at the start which     *)
(* should be skipped".                                                     *)
BomIsSkipped == EveryEventOnce

(* sse_parser.hpp:1031-1033: "Connection dropped, reconnecting             *)
(* parser.reset(); Reconnect with last_event_id() for server".             *)
ResetThenResume == EveryEventOnce

================================================================================
