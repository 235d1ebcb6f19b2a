----------------------------- MODULE Keepalive -----------------------------
(***************************************************************************)
(* The keepalive of the Client (src/paho/mqtt/client.py) in discrete time, *)
(* one tick being the timeout of the select() in _loop.  Only differences  *)
(* of times matter, so every time stamp of the code is an age here.  The   *)
(* network loop turns at least once a tick, and again at once while there  *)
(* is something to read or to write.  The application does not disconnect. *)
(* Who is told of a connection given up here is the matter of Lifecycle.   *)
(***************************************************************************)
EXTENDS Integers, FiniteSetsExt

CONSTANTS Keepalives,   \* the values of _keepalive, 0 for none
          AnswerWithin, \* a broker that is alive answers within so many ticks
          MaxAge        \* bound: ages are not told apart beyond this one

ASSUME KeepaliveAssumption ==
    /\ Keepalives \subseteq Nat
    /\ AnswerWithin \in Nat
    /\ MaxAge \in Nat /\ \A k \in Keepalives : MaxAge > 2 * k + 2

VARIABLES keepalive,  \* _keepalive, fixed for the run
          state,      \* _state
          sock,       \* _sock is not None
          lastIn,     \* the age of _last_msg_in
          lastOut,    \* the age of _last_msg_out
          pingT,      \* the age of _ping_t, or -1 for no PINGREQ outstanding
          outPacket,  \* the kinds of packets in _out_packet
          inbox,      \* the kinds of packets that have arrived
          alive,      \* the broker works
          owed,       \* the answers the broker has not sent yet
          owedAge,    \* the age of the oldest of them
          sent,       \* the age of the last packet that was really written
          heard,      \* the age of the last packet that was really read
          turned      \* the loop has turned since the last tick

ages == <<lastIn, lastOut, pingT>>
broker == <<inbox, alive, owed, owedAge>>
vars == <<keepalive, state, sock, ages, outPacket, broker, sent, heard, turned>>

Age == 0..MaxAge

TypeOK ==
    /\ keepalive \in Keepalives
    /\ state \in {"CONNECTING", "CONNECTED", "CONNECTION_LOST"}
    /\ sock \in BOOLEAN
    /\ lastIn \in Age /\ lastOut \in Age /\ sent \in Age /\ heard \in Age /\ owedAge \in Age
    /\ pingT \in Age \cup {-1}
    /\ outPacket \subseteq {"CONNECT", "PINGREQ", "other"}
    /\ inbox \subseteq {"CONNACK", "PINGRESP", "other"}
    /\ owed \subseteq {"CONNACK", "PINGRESP"}
    /\ alive \in BOOLEAN /\ turned \in BOOLEAN

(* reconnect() has just queued CONNECT.                                     *)
Init ==
    /\ keepalive \in Keepalives
    /\ state = "CONNECTING"
    /\ sock = TRUE
    /\ lastIn = 0 /\ lastOut = 0 /\ pingT = -1
    /\ outPacket = {"CONNECT"}
    /\ inbox = {} /\ owed = {} /\ owedAge = 0
    /\ alive = TRUE
    /\ sent = 0 /\ heard = 0
    /\ turned = FALSE

-----------------------------------------------------------------------------
(* The parts of one turn of _loop *)

(* _handle_pingresp *)
PingAnswered(p) == IF p = "PINGRESP" THEN -1 ELSE pingT

(* _packet_read and _packet_handle of one packet.                           *)
Read(p) ==
    /\ sock /\ p \in inbox
    /\ inbox' = inbox \ {p}
    /\ lastIn' = 0 /\ heard' = 0
    /\ state' = IF p = "CONNACK" THEN "CONNECTED" ELSE state
    /\ pingT' = PingAnswered(p)
    /\ turned' = FALSE
    /\ UNCHANGED <<keepalive, sock, lastOut, outPacket, alive, owed, owedAge, sent>>

(* _packet_write sends all there is and returns from popleft(): only a      *)
(* write of no bytes would come to its last lines, which set _last_msg_out. *)
Write ==
    /\ sock /\ outPacket # {}
    /\ outPacket' = {}
    /\ sent' = 0
    /\ LET answers == (IF "CONNECT" \in outPacket THEN {"CONNACK"} ELSE {})
                      \cup (IF "PINGREQ" \in outPacket THEN {"PINGRESP"} ELSE {})
       IN  /\ owed' = owed \cup answers
           /\ owedAge' = IF owed = {} THEN 0 ELSE owedAge
    /\ turned' = FALSE
    /\ UNCHANGED <<keepalive, state, sock, ages, inbox, alive, heard>>

(* Does _check_keepalive act?  _keepalive = 0 switches it off.              *)
Stale_LastInOnly == keepalive > 0 /\ lastIn >= keepalive   \* mutant: one time stamp only
Stale_Zero == lastIn >= keepalive \/ lastOut >= keepalive  \* mutant: 0 is not looked for
Stale == keepalive > 0 /\ (lastIn >= keepalive \/ lastOut >= keepalive)

(* loop_misc: no PINGRESP for a keepalive time.                             *)
Unanswered == pingT # -1 /\ pingT >= keepalive

MayPing_Again == state = "CONNECTED"   \* mutant: an outstanding PINGREQ is forgotten
MayPing == state = "CONNECTED" /\ pingT = -1

(* _check_keepalive and, if the socket was open when it began, loop_misc    *)
(* itself: it looks at _ping_t without looking at the socket again.  More   *)
(* may have arrived or been queued since this turn read and wrote.          *)
Misc ==
    /\ sock /\ ~turned
    /\ turned' = TRUE
    /\ \/ /\ Stale /\ MayPing
          /\ outPacket' = outPacket \cup {"PINGREQ"}
          /\ pingT' = 0 /\ lastIn' = 0 /\ lastOut' = 0
          /\ UNCHANGED <<state, sock>>
       \/ /\ (Stale /\ ~MayPing) \/ (~Stale /\ Unanswered)
          /\ sock' = FALSE
          /\ state' = IF Unanswered THEN "CONNECTION_LOST" ELSE state
          /\ UNCHANGED <<outPacket, ages>>
       \/ /\ ~Stale /\ ~Unanswered
          /\ UNCHANGED <<state, sock, ages, outPacket>>
    /\ UNCHANGED <<keepalive, broker, sent, heard>>

-----------------------------------------------------------------------------
(* The application, the broker and time *)

AppSends ==
    /\ sock /\ state = "CONNECTED"
    /\ outPacket' = outPacket \cup {"other"}
    /\ turned' = FALSE
    /\ UNCHANGED <<keepalive, state, sock, ages, broker, sent, heard>>

BrokerAnswers(p) ==
    /\ alive /\ p \in owed
    /\ owed' = owed \ {p}
    /\ inbox' = inbox \cup {p}
    /\ turned' = FALSE
    /\ UNCHANGED <<keepalive, state, sock, ages, outPacket, alive, owedAge, sent, heard>>

BrokerSends ==
    /\ alive /\ state = "CONNECTED"
    /\ inbox' = inbox \cup {"other"}
    /\ turned' = FALSE
    /\ UNCHANGED <<keepalive, state, sock, ages, outPacket, alive, owed, owedAge, sent, heard>>

BrokerDies ==
    /\ alive
    /\ alive' = FALSE
    /\ UNCHANGED <<keepalive, state, sock, ages, outPacket, inbox, owed, owedAge, sent, heard, turned>>

Older(a) == IF a = -1 THEN -1 ELSE Min({a + 1, MaxAge})

Tick ==
    /\ sock => turned /\ inbox = {} /\ outPacket = {}
    /\ alive /\ owed # {} => owedAge < AnswerWithin
    /\ lastIn' = Older(lastIn) /\ lastOut' = Older(lastOut) /\ pingT' = Older(pingT)
    /\ sent' = Older(sent) /\ heard' = Older(heard) /\ owedAge' = Older(owedAge)
    /\ turned' = FALSE
    /\ UNCHANGED <<keepalive, state, sock, outPacket, inbox, alive, owed>>

Next ==
    \/ \E p \in {"CONNACK", "PINGRESP", "other"} : Read(p)
    \/ Write
    \/ Misc
    \/ AppSends
    \/ \E p \in {"CONNACK", "PINGRESP"} : BrokerAnswers(p)
    \/ BrokerSends \/ BrokerDies
    \/ Tick

Spec == Init /\ [][Next]_vars

-----------------------------------------------------------------------------
(* Properties *)

(* connect(): keepalive is the "maximum period in seconds between           *)
(* communications with the broker".  A client that is silent for longer is  *)
(* disconnected by the broker.                                              *)
NeverTooSilent ==
    /\ TypeOK
    /\ sock /\ keepalive > 0 => sent <= keepalive

(* A broker that has gone, in any phase of the connection, is given up at   *)
(* the latest two keepalive times after its last packet, whatever the       *)
(* application keeps sending.                                               *)
DeadBrokerNoticed == sock /\ keepalive > 0 => heard <= 2 * keepalive

(* The keepalive never closes a connection whose broker answers in time,    *)
(* and none at all when it is switched off.                                 *)
LiveBrokerKept ==
    (alive /\ AnswerWithin < keepalive) \/ keepalive = 0 => sock
=============================================================================
