-------------------------- MODULE KeepaliveProofs --------------------------
(***************************************************************************)
(* The three properties of Keepalive for every set of keepalive times and  *)
(* every bound on the broker's answers.  Two reasons carry them, one       *)
(* conjunct each: how old the time stamps may be (Stamps), and where the   *)
(* one question the client waits for is (Question).                        *)
(***************************************************************************)
EXTENDS Keepalive, TLAPS

(* Between a turn of the loop and the next tick neither stamp of            *)
(* _check_keepalive has reached the keepalive time, and what was really     *)
(* written and read is only so much older than the stamps: _last_msg_out is *)
(* reset with PINGREQ, which leaves before time passes, _last_msg_in too,   *)
(* which hides one keepalive time of silence while an answer is awaited.    *)
Stamps ==
    sock /\ keepalive > 0 =>
        /\ lastIn <= keepalive
        /\ turned => lastIn < keepalive /\ lastOut < keepalive
        /\ sent <= keepalive
        /\ sent <= lastOut \/ outPacket # {}
        /\ heard <= lastIn + keepalive
        /\ pingT = -1 => heard <= lastIn

(* A question is in the queue, with the broker or answered, and nowhere     *)
(* twice; age is how long ago it was asked.                                 *)
Waiting(question, answer, age) ==
    \/ question \in outPacket /\ answer \notin owed \cup inbox /\ age = 0
    \/ question \notin outPacket /\ answer \in owed \ inbox /\ age <= owedAge
    \/ question \notin outPacket /\ answer \in inbox \ owed /\ age <= AnswerWithin

Nowhere(question, answer) == question \notin outPacket /\ answer \notin owed \cup inbox

(* While the connection is set up the client waits for CONNACK, afterwards  *)
(* for PINGRESP or for nothing, and a live broker answers in time.          *)
Question ==
    sock /\ alive =>
        /\ owed # {} => owedAge <= AnswerWithin
        /\ state = "CONNECTING" =>
              /\ pingT = -1
              /\ Nowhere("PINGREQ", "PINGRESP")
              /\ Waiting("CONNECT", "CONNACK", lastIn)
              /\ Waiting("CONNECT", "CONNACK", lastOut)
        /\ state # "CONNECTING" =>
              /\ Nowhere("CONNECT", "CONNACK")
              /\ pingT = -1 => Nowhere("PINGREQ", "PINGRESP")
              /\ pingT # -1 =>
                    /\ Waiting("PINGREQ", "PINGRESP", pingT)
                    /\ lastIn <= pingT /\ lastOut <= pingT

(* An open connection was not given up, and keepalive 0 asks nothing.       *)
Open ==
    /\ sock => state # "CONNECTION_LOST"
    /\ keepalive = 0 => pingT = -1

KeepInv == TypeOK /\ Stamps /\ Question /\ Open /\ LiveBrokerKept

-----------------------------------------------------------------------------
(* Time and one turn of loop_misc.                                          *)

(* An age grows by one until it reaches the bound of the model.             *)
LEMMA OlderIs ==
    ASSUME NEW a \in Age \cup {-1}
    PROVE  Older(a) = IF a = -1 THEN -1 ELSE IF a < MaxAge THEN a + 1 ELSE MaxAge
<1>1. ASSUME NEW x \in Int, NEW y \in Int
      PROVE  Min({x, y}) = IF x < y THEN x ELSE y
  BY DEF Min
<1> QED  BY <1>1, KeepaliveAssumption DEF Older, Age, KeepaliveAssumption

(* No age becomes -1: a PINGREQ that is awaited stays so when time passes.  *)
LEMMA OlderStays ==
    ASSUME NEW a \in Age \cup {-1}, Older(a) = -1
    PROVE  a = -1
<1>1. Older(a) = IF a = -1 THEN -1 ELSE IF a < MaxAge THEN a + 1 ELSE MaxAge
  BY OlderIs
<1> QED  BY <1>1, KeepaliveAssumption DEF KeepaliveAssumption, Age

(* What one turn of loop_misc does: it asks, it gives up, or it waits.      *)
LEMMA MiscEffect ==
    ASSUME Misc
    PROVE  /\ sock /\ turned' = TRUE
           /\ UNCHANGED <<keepalive, inbox, alive, owed, owedAge, sent, heard>>
           /\ \/ /\ Stale /\ MayPing
                 /\ UNCHANGED <<state, sock>>
                 /\ outPacket' = outPacket \cup {"PINGREQ"}
                 /\ pingT' = 0 /\ lastIn' = 0 /\ lastOut' = 0
              \/ /\ (Stale /\ ~MayPing) \/ Unanswered
                 /\ sock' = FALSE
                 /\ state' \in {state, "CONNECTION_LOST"}
                 /\ UNCHANGED <<outPacket, pingT, lastIn, lastOut>>
              \/ /\ ~Stale /\ ~Unanswered
                 /\ UNCHANGED <<state, sock, outPacket, pingT, lastIn, lastOut>>
BY DEF Misc, ages, broker

(* loop_misc keeps the types.                                               *)
LEMMA MiscType == ASSUME TypeOK, Misc PROVE TypeOK'
<1>1. pingT' \in {0, pingT} /\ lastIn' \in {0, lastIn} /\ lastOut' \in {0, lastOut}
  BY MiscEffect
<1>2. outPacket' \in {outPacket, outPacket \cup {"PINGREQ"}}
  BY MiscEffect
<1>3. state' \in {state, "CONNECTION_LOST"} /\ sock' \in BOOLEAN
  BY MiscEffect DEF TypeOK
<1>6. turned' = TRUE /\ UNCHANGED <<keepalive, inbox, alive, owed, owedAge, sent, heard>>
  BY DEF Misc, broker
<1>7. (/\ lastIn \in Age /\ lastOut \in Age /\ sent \in Age /\ heard \in Age
       /\ owedAge \in Age /\ pingT \in Age \cup {-1})'
  BY <1>1, <1>6, KeepaliveAssumption DEF TypeOK, Age, KeepaliveAssumption
<1>8. (/\ outPacket \subseteq {"CONNECT", "PINGREQ", "other"}
       /\ inbox \subseteq {"CONNACK", "PINGRESP", "other"}
       /\ owed \subseteq {"CONNACK", "PINGRESP"})'
  BY <1>2, <1>6 DEF TypeOK
<1> QED BY <1>3, <1>6, <1>7, <1>8 DEF TypeOK

(* loop_misc asks only with a keepalive, and closes what it gives up.       *)
LEMMA MiscOpen == ASSUME Open, Misc PROVE Open'
<1>1. keepalive = 0 => ~Stale
  BY DEF Stale
<1> QED  BY <1>1, MiscEffect DEF Open

(* loop_misc finds no reason to give up a broker that answers in time.      *)
LEMMA MiscKeeps == ASSUME KeepInv, Misc PROVE LiveBrokerKept'
<1>1. keepalive = 0 => ~Stale /\ ~Unanswered
  BY DEF KeepInv, Open, Stale, Unanswered
<1>2. ASSUME alive, AnswerWithin < keepalive, sock PROVE ~Unanswered /\ (Stale => MayPing)
  BY <1>2, KeepaliveAssumption
     DEF Stale, MayPing, Unanswered, Question, Waiting, Nowhere, Open, KeepInv, TypeOK,
         Age, KeepaliveAssumption
<1>3. (alive /\ AnswerWithin < keepalive) \/ keepalive = 0 => sock'
  BY <1>1, <1>2, MiscEffect
<1> QED BY <1>3, MiscEffect DEF LiveBrokerKept
-----------------------------------------------------------------------------
(* Each conjunct of KeepInv is kept by every step.                          *)

(* Types.                                                                   *)
LEMMA TypeNext == ASSUME TypeOK, [Next]_vars PROVE TypeOK'
<1> USE KeepaliveAssumption DEF KeepaliveAssumption, TypeOK, Age
<1>1. ASSUME NEW p \in {"CONNACK", "PINGRESP", "other"}, Read(p) PROVE TypeOK'
  <2>1. (/\ keepalive \in Keepalives
         /\ state \in {"CONNECTING", "CONNECTED", "CONNECTION_LOST"})'
    BY <1>1 DEF Read, PingAnswered
  <2>2. (/\ lastIn \in Age /\ lastOut \in Age /\ sent \in Age /\ heard \in Age
         /\ owedAge \in Age)'
    BY <1>1 DEF Read, PingAnswered
  <2>3. (pingT \in Age \cup {-1})'
    BY <1>1 DEF Read, PingAnswered
  <2>4. (/\ outPacket \subseteq {"CONNECT", "PINGREQ", "other"}
         /\ inbox \subseteq {"CONNACK", "PINGRESP", "other"})'
    BY <1>1 DEF Read, PingAnswered
  <2>5. (owed \subseteq {"CONNACK", "PINGRESP"})'
    BY <1>1 DEF Read, PingAnswered
  <2>6. (sock \in BOOLEAN /\ alive \in BOOLEAN /\ turned \in BOOLEAN)'
    BY <1>1 DEF Read, PingAnswered
  <2> QED  BY <2>1, <2>2, <2>3, <2>4, <2>5, <2>6
<1>2. CASE Write
  <2>1. (/\ keepalive \in Keepalives
         /\ state \in {"CONNECTING", "CONNECTED", "CONNECTION_LOST"})'
    BY <1>2 DEF Write, ages
  <2>2. (/\ lastIn \in Age /\ lastOut \in Age /\ sent \in Age /\ heard \in Age
         /\ owedAge \in Age)'
    BY <1>2 DEF Write, ages
  <2>3. (pingT \in Age \cup {-1})'
    BY <1>2 DEF Write, ages
  <2>4. (/\ outPacket \subseteq {"CONNECT", "PINGREQ", "other"}
         /\ inbox \subseteq {"CONNACK", "PINGRESP", "other"})'
    BY <1>2 DEF Write, ages
  <2>5. (owed \subseteq {"CONNACK", "PINGRESP"})'
    BY <1>2 DEF Write, ages
  <2>6. (sock \in BOOLEAN /\ alive \in BOOLEAN /\ turned \in BOOLEAN)'
    BY <1>2 DEF Write, ages
  <2> QED  BY <2>1, <2>2, <2>3, <2>4, <2>5, <2>6
<1>3. CASE Misc
  BY <1>3, MiscType
<1>4. CASE AppSends
  BY <1>4 DEF AppSends, ages, broker
<1>5. ASSUME NEW p \in {"CONNACK", "PINGRESP"}, BrokerAnswers(p) PROVE TypeOK'
  BY <1>5 DEF BrokerAnswers, ages
<1>6. CASE BrokerSends
  BY <1>6 DEF BrokerSends, ages, broker
<1>7. CASE BrokerDies
  BY <1>7 DEF BrokerDies, ages, broker
<1>8. CASE Tick
  <2>1. (/\ lastIn \in Age /\ lastOut \in Age /\ sent \in Age /\ heard \in Age
         /\ owedAge \in Age /\ pingT \in Age \cup {-1})'
    BY <1>8, OlderIs DEF Tick
  <2> QED  BY <1>8, <2>1 DEF Tick
<1>9. CASE UNCHANGED vars
  BY <1>9 DEF vars, ages, broker
<1> QED  BY <1>1, <1>2, <1>3, <1>4, <1>5, <1>6, <1>7, <1>8, <1>9 DEF Next

(* Time passes only after a turn of the loop, which leaves no stamp stale.  *)
LEMMA StampsNext == ASSUME KeepInv, [Next]_vars PROVE Stamps'
<1> USE KeepaliveAssumption DEF KeepaliveAssumption, KeepInv, TypeOK, Age, Stamps, Open
<1>1. ASSUME NEW p \in {"CONNACK", "PINGRESP", "other"}, Read(p) PROVE Stamps'
  BY <1>1 DEF Read, PingAnswered
<1>2. CASE Write
  BY <1>2 DEF Write, ages
<1>3. CASE Misc
  BY <1>3 DEF Misc, ages, broker, Stale, Unanswered, MayPing
<1>4. CASE AppSends
  BY <1>4 DEF AppSends, ages, broker
<1>5. ASSUME NEW p \in {"CONNACK", "PINGRESP"}, BrokerAnswers(p) PROVE Stamps'
  BY <1>5 DEF BrokerAnswers, ages
<1>6. CASE BrokerSends
  BY <1>6 DEF BrokerSends, ages, broker
<1>7. CASE BrokerDies
  BY <1>7 DEF BrokerDies, ages, broker
<1>8. CASE Tick
  <2>1. CASE ~(sock /\ keepalive > 0)
    BY <1>8, <2>1 DEF Tick
  <2>2. CASE sock /\ keepalive > 0
    <3>1. lastIn' = lastIn + 1 /\ lastIn < keepalive
      BY <1>8, <2>2, OlderIs DEF Tick
    <3>2. lastOut < keepalive /\ sent <= lastOut
      BY <1>8, <2>2 DEF Tick
    <3>3. lastOut' = lastOut + 1
      BY <1>8, <2>2, <3>2, OlderIs DEF Tick
    <3>4. sent' = sent + 1
      BY <1>8, <3>2, OlderIs DEF Tick
    <3>5. heard' <= heard + 1
      BY <1>8, OlderIs DEF Tick
    <3>6. pingT' = -1 => pingT = -1
      BY <1>8, OlderStays DEF Tick
    <3> QED  BY <1>8, <2>2, <3>1, <3>2, <3>3, <3>4, <3>5, <3>6 DEF Tick
  <2> QED  BY <2>1, <2>2
<1>9. CASE UNCHANGED vars
  BY <1>9 DEF vars, ages, broker
<1> QED  BY <1>1, <1>2, <1>3, <1>4, <1>5, <1>6, <1>7, <1>8, <1>9 DEF Next

(* A question moves from the queue to the broker and back, once.            *)
LEMMA QuestionNext == ASSUME KeepInv, [Next]_vars PROVE Question'
<1> USE KeepaliveAssumption DEF KeepaliveAssumption, KeepInv, TypeOK, Age, Question, Waiting, Nowhere,
          Open
<1>1. ASSUME NEW p \in {"CONNACK", "PINGRESP", "other"}, Read(p) PROVE Question'
  BY <1>1 DEF Read, PingAnswered
<1>2. CASE Write
  BY <1>2 DEF Write, ages
<1>3. CASE Misc
  BY <1>3 DEF Misc, ages, broker, Stale, Unanswered, MayPing
<1>4. CASE AppSends
  BY <1>4 DEF AppSends, ages, broker
<1>5. ASSUME NEW p \in {"CONNACK", "PINGRESP"}, BrokerAnswers(p) PROVE Question'
  BY <1>5 DEF BrokerAnswers, ages
<1>6. CASE BrokerSends
  BY <1>6 DEF BrokerSends, ages, broker
<1>7. CASE BrokerDies
  BY <1>7 DEF BrokerDies, ages, broker
<1>8. CASE Tick
  BY <1>8, OlderIs DEF Tick
<1>9. CASE UNCHANGED vars
  BY <1>9 DEF vars, ages, broker
<1> QED  BY <1>1, <1>2, <1>3, <1>4, <1>5, <1>6, <1>7, <1>8, <1>9 DEF Next

(* Only loop_misc gives a connection up.                                    *)
LEMMA OpenNext == ASSUME KeepInv, [Next]_vars PROVE Open'
<1> USE DEF KeepInv, TypeOK, Age, Open
<1>1. ASSUME NEW p \in {"CONNACK", "PINGRESP", "other"}, Read(p) PROVE Open'
  BY <1>1 DEF Read, PingAnswered
<1>2. CASE Write
  BY <1>2 DEF Write, ages
<1>3. CASE Misc
  BY <1>3, MiscOpen
<1>4. CASE AppSends
  BY <1>4 DEF AppSends, ages, broker
<1>5. ASSUME NEW p \in {"CONNACK", "PINGRESP"}, BrokerAnswers(p) PROVE Open'
  BY <1>5 DEF BrokerAnswers, ages
<1>6. CASE BrokerSends
  BY <1>6 DEF BrokerSends, ages, broker
<1>7. CASE BrokerDies
  BY <1>7 DEF BrokerDies, ages, broker
<1>8. CASE Tick
  BY <1>8, OlderIs DEF Tick
<1>9. CASE UNCHANGED vars
  BY <1>9 DEF vars, ages, broker
<1> QED  BY <1>1, <1>2, <1>3, <1>4, <1>5, <1>6, <1>7, <1>8, <1>9 DEF Next

(* The same, for a broker that answers in time.                             *)
LEMMA KeptNext == ASSUME KeepInv, [Next]_vars PROVE LiveBrokerKept'
<1> USE DEF KeepInv, LiveBrokerKept
<1>1. ASSUME NEW p \in {"CONNACK", "PINGRESP", "other"}, Read(p) PROVE LiveBrokerKept'
  BY <1>1 DEF Read, PingAnswered
<1>2. CASE Write
  BY <1>2 DEF Write, ages
<1>3. CASE Misc
  BY <1>3, MiscKeeps
<1>4. CASE AppSends
  BY <1>4 DEF AppSends, ages, broker
<1>5. ASSUME NEW p \in {"CONNACK", "PINGRESP"}, BrokerAnswers(p) PROVE LiveBrokerKept'
  BY <1>5 DEF BrokerAnswers, ages
<1>6. CASE BrokerSends
  BY <1>6 DEF BrokerSends, ages, broker
<1>7. CASE BrokerDies
  BY <1>7 DEF BrokerDies, ages, broker
<1>8. CASE Tick
  BY <1>8 DEF Tick
<1>9. CASE UNCHANGED vars
  BY <1>9 DEF vars, ages, broker
<1> QED  BY <1>1, <1>2, <1>3, <1>4, <1>5, <1>6, <1>7, <1>8, <1>9 DEF Next

-----------------------------------------------------------------------------
(* reconnect() has queued CONNECT and asked nothing else.                   *)
LEMMA KeepInit == Init => KeepInv
<1> SUFFICES ASSUME Init PROVE KeepInv  OBVIOUS
<1> USE KeepaliveAssumption DEF KeepaliveAssumption, Init
<1>1. TypeOK
  <2>1. /\ lastIn \in Age /\ lastOut \in Age /\ sent \in Age /\ heard \in Age
        /\ owedAge \in Age /\ pingT \in Age \cup {-1}
    BY DEF Age
  <2>2. sock \in BOOLEAN /\ alive \in BOOLEAN /\ turned \in BOOLEAN
    OBVIOUS
  <2>3. /\ outPacket \subseteq {"CONNECT", "PINGREQ", "other"}
        /\ inbox \subseteq {"CONNACK", "PINGRESP", "other"}
        /\ owed \subseteq {"CONNACK", "PINGRESP"}
    OBVIOUS
  <2> QED  BY <2>1, <2>2, <2>3 DEF TypeOK
<1>2. Stamps
  BY DEF Stamps
<1>3. Question
  BY DEF Question, Waiting, Nowhere
<1>4. Open /\ LiveBrokerKept
  BY DEF Open, LiveBrokerKept
<1> QED  BY <1>1, <1>2, <1>3, <1>4 DEF KeepInv

(* The inductive invariant.                                                 *)
LEMMA KeepInductive == Spec => []KeepInv
<1>1. KeepInv /\ [Next]_vars => KeepInv'
  BY TypeNext, StampsNext, QuestionNext, OpenNext, KeptNext DEF KeepInv
<1> QED  BY KeepInit, <1>1, PTL DEF Spec

(* While it holds a connection with a keepalive, the client is never silent *)
(* for longer than the keepalive time it told the broker in CONNECT,        *)
(* although a normal write does not refresh _last_msg_out.                  *)
THEOREM ClientIsHeard == Spec => []NeverTooSilent
<1>1. KeepInv => NeverTooSilent
  BY DEF KeepInv, Stamps, NeverTooSilent
<1> QED  BY KeepInductive, <1>1, PTL

(* _check_keepalive and loop_misc give a broker that has gone up at the     *)
(* latest two keepalive times after its last packet.                        *)
THEOREM DeadBrokerIsNoticed == Spec => []DeadBrokerNoticed
<1>1. KeepInv => DeadBrokerNoticed
  BY KeepaliveAssumption DEF KeepaliveAssumption, KeepInv, TypeOK, Age, Stamps, DeadBrokerNoticed
<1> QED  BY KeepInductive, <1>1, PTL

(* A broker that answers CONNECT and PINGREQ in less than the keepalive     *)
(* time is never given up by them, and no broker is if the keepalive is 0.  *)
THEOREM LiveBrokerIsKept == Spec => []LiveBrokerKept
<1>1. KeepInv => LiveBrokerKept
  BY DEF KeepInv
<1> QED  BY KeepInductive, <1>1, PTL
=============================================================================
