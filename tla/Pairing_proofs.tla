--------------------------- MODULE Pairing_proofs ---------------------------
(***************************************************************************)
(* Proofs about Pairing, for any number of Pair calls and polling rounds.  *)
(***************************************************************************)
EXTENDS Pairing, TLAPS

USE DEF flags, bluez, webVars, btVars, vars, WebGoto, BtGoto

\* Every message the bluetooth thread handles is a ReplyMessage.
LEMMA MessagesType ==
    /\ NoMessage \in Messages
    /\ \A a \in Nat : AgentMessages(a) \subseteq Messages /\ PairReplies(a) \subseteq Messages
    /\ \A a \in Nat : \A m \in AgentMessages(a) : m.of = a /\ ~m.final
    /\ \A a \in Nat : \A m \in PairReplies(a) : m.of = a /\ m.final
BY DEF NoMessage, Messages, Statuses, AgentMessages, PairReplies

\* A copy is a ReplyMessage, or torn.
LEMMA CopiesType == TypeOK => Copies \subseteq Messages \cup {Torn}
BY DEF TypeOK, Copies

\* Every answer is one of Answers.
LEMMA AnswersType ==
    /\ NoAnswer \in Answers
    /\ TypeOK => \A to \in {"begin", "end"}, why \in Reasons : Failure(to, why) \in Answers
    /\ TypeOK => \A to \in {"begin", "end"}, m \in Copies : Reply(to, m) \in Answers
<1>1. NoAnswer \in Answers
  BY MessagesType DEF NoAnswer, Answers, Reasons
<1>2. TypeOK => attempt \in Nat
  BY DEF TypeOK
<1>3. "reply" \in Reasons
  BY DEF Reasons
<1>4. TypeOK => \A to \in {"begin", "end"}, why \in Reasons : Failure(to, why) \in Answers
  BY <1>2, MessagesType DEF Failure, Answers
<1>5. TypeOK => \A to \in {"begin", "end"}, m \in Copies : Reply(to, m) \in Answers
  BY <1>2, <1>3, CopiesType DEF Reply, Answers
<1> QED BY <1>1, <1>4, <1>5

\* The globals of bt.cpp start with the right types.
LEMMA InitType == Init => TypeOK
<1>1. "idle" \in WebAt /\ "idle" \in BtAt
  BY DEF WebAt, BtAt
<1>2. NoMessage \in Messages /\ NoAnswer \in Answers
  BY MessagesType, AnswersType
<1> SUFFICES ASSUME Init PROVE TypeOK
  OBVIOUS
<1>3. /\ g_bIsPairing \in BOOLEAN
      /\ g_bHasPairingReplyMessage \in BOOLEAN
      /\ count \in Nat /\ attempt \in Nat
  BY DEF Init
<1>4. calls \in SUBSET Nat
  BY DEF Init
<1>5. /\ g_pairingReplyMessage \in Messages
      /\ incoming \in Messages
      /\ answer \in Answers
  BY <1>2 DEF Init
<1>6. web \in WebAt /\ bt \in BtAt
  BY <1>1 DEF Init
<1> QED BY <1>3, <1>4, <1>5, <1>6 DEF TypeOK

\* Every step of either thread keeps the types.
LEMMA NextType == TypeOK /\ [Next]_vars => TypeOK'
<1> SUFFICES ASSUME TypeOK, [Next]_vars PROVE TypeOK'
  OBVIOUS
<1>1. CASE BeginPairDevice
  BY <1>1 DEF BeginPairDevice, WebAt, TypeOK
<1>2. CASE EndPairDevice
  BY <1>2 DEF EndPairDevice, WebAt, TypeOK
<1>3. CASE BeginRefused
  BY <1>3, AnswersType DEF BeginRefused, Reasons, WebAt, TypeOK
<1>4. CASE BeginLocked
  BY <1>4 DEF BeginLocked, WebAt, TypeOK
<1>5. CASE BeginNotAvailable
  BY <1>5, AnswersType DEF BeginNotAvailable, Reasons, WebAt, TypeOK
<1>6. CASE BeginFound
  BY <1>6 DEF BeginFound, WebAt, TypeOK
<1>7. CASE BeginNotSent
  BY <1>7, AnswersType DEF BeginNotSent, Reasons, WebAt, TypeOK
<1>8. CASE BeginSent
  BY <1>8 DEF BeginSent, WebAt, TypeOK
<1>9. CASE BeginPollsAgain
  BY <1>9 DEF BeginPollsAgain, PollAgain, WebAt, TypeOK
<1>10. CASE BeginPolled
  BY <1>10 DEF BeginPolled, PollDone, WebAt, TypeOK
<1>11. CASE BeginTakes
  BY <1>11 DEF BeginTakes, WebAt, TypeOK
<1>12. CASE BeginClears
  BY <1>12 DEF BeginClears, WebAt, TypeOK
<1>13. CASE BeginReturns
  BY <1>13, AnswersType DEF BeginReturns, WebAt, TypeOK
<1>14. CASE BeginGivesUp
  BY <1>14 DEF BeginGivesUp, WebAt, TypeOK
<1>15. CASE BeginTimesOut
  BY <1>15, AnswersType DEF BeginTimesOut, Reasons, WebAt, TypeOK
<1>16. CASE EndPollsAgain
  BY <1>16 DEF EndPollsAgain, PollAgain, WebAt, TypeOK
<1>17. CASE EndPolled
  BY <1>17 DEF EndPolled, PollDone, WebAt, TypeOK
<1>18. CASE EndTakes
  BY <1>18 DEF EndTakes, WebAt, TypeOK
<1>19. CASE EndTimesOut
  BY <1>19, AnswersType DEF EndTimesOut, Reasons, WebAt, TypeOK
<1>20. CASE EndReturns
  BY <1>20, AnswersType DEF EndReturns, WebAt, TypeOK
<1>21. CASE OnAgentNotify
  <2>1. \A a \in calls : a \in Nat
    BY DEF TypeOK
  <2> QED BY <1>21, <2>1, MessagesType DEF OnAgentNotify, BtAt, TypeOK
<1>22. CASE NotifyTested
  BY <1>22 DEF NotifyTested, BtAt, TypeOK
<1>23. CASE NotifyAssigns
  BY <1>23 DEF NotifyAssigns, Assign, BtAt, TypeOK
<1>24. CASE NotifyPublishes
  BY <1>24 DEF NotifyPublishes, Publish, BtAt, TypeOK
<1>25. CASE ReplyLocked
  BY <1>25 DEF ReplyLocked, BtAt, TypeOK
<1>26. CASE ReplyAssigns
  BY <1>26 DEF ReplyAssigns, Assign, BtAt, TypeOK
<1>27. CASE ReplyPublishes
  BY <1>27 DEF ReplyPublishes, Publish, BtAt, TypeOK
<1>28. CASE OnPairDeviceReply
  <2>1. PICK a \in calls : incoming' \in PairReplies(a) /\ calls' = calls \ {a}
    BY <1>28 DEF OnPairDeviceReply
  <2>2. a \in Nat
    BY DEF TypeOK
  <2>3. incoming' \in Messages
    BY <2>1, <2>2, MessagesType
  <2> QED BY <1>28, <2>1, <2>3 DEF OnPairDeviceReply, BtAt, TypeOK
<1>29. CASE UNCHANGED vars
  BY <1>29 DEF TypeOK
<1> QED BY <1>1, <1>2, <1>3, <1>4, <1>5, <1>6, <1>7, <1>8, <1>9, <1>10, <1>11, <1>12, <1>13, <1>14, <1>15, <1>16, <1>17, <1>18, <1>19, <1>20, <1>21, <1>22, <1>23, <1>24, <1>25, <1>26, <1>27, <1>28, <1>29 DEF Next, Request, WebStep, BtStep

\* Every variable keeps its type, whatever order the two threads run in.
THEOREM TypeCorrect == Spec => []TypeOK
<1> QED BY InitType, NextType, PTL DEF Spec

-----------------------------------------------------------------------------
(* One pairing at a time, and where the answers come from.                 *)

\* The part of the invariant that is about whose message is where.
Origins == /\ OnePairingAtATime /\ BeginExclusive
           /\ IncomingOrigin /\ PublishedOrigin
           /\ BeginAnswerOrigin

\* Every step of either thread keeps the invariant.
LEMMA NextOrigins == IInv /\ TypeOK' /\ [Next]_vars => Origins'
<1> SUFFICES ASSUME TypeOK, Origins, TypeOK', [Next]_vars PROVE Origins'
  BY DEF IInv, Origins
<1> USE DEF Origins, OnePairingAtATime, BeginExclusive, IncomingOrigin, PublishedOrigin,
            BeginAnswerOrigin, Outstanding, InNotify, InReply, Fresh
<1>0. /\ attempt \in Nat /\ incoming \in Messages
      /\ g_pairingReplyMessage \in Messages /\ calls \in SUBSET Nat
  BY DEF TypeOK
<1>1. CASE BeginPairDevice
  BY <1>0, <1>1 DEF BeginPairDevice
<1>2. CASE EndPairDevice
  BY <1>0, <1>2 DEF EndPairDevice
<1>3. CASE BeginRefused
  BY <1>0, <1>3 DEF BeginRefused, Failure
<1>4. CASE BeginLocked
  BY <1>0, <1>4 DEF BeginLocked
<1>5. CASE BeginNotAvailable
  BY <1>0, <1>5 DEF BeginNotAvailable, Failure
<1>6. CASE BeginFound
  BY <1>0, <1>6 DEF BeginFound
<1>7. CASE BeginNotSent
  BY <1>0, <1>7 DEF BeginNotSent, Failure
<1>8. CASE BeginSent
  BY <1>0, <1>8 DEF BeginSent
<1>9. CASE BeginPollsAgain
  BY <1>0, <1>9 DEF BeginPollsAgain, PollAgain
<1>10. CASE BeginPolled
  BY <1>0, <1>10 DEF BeginPolled, PollDone
<1>11. CASE BeginTakes
  BY <1>0, <1>11 DEF BeginTakes
<1>12. CASE BeginClears
  BY <1>0, <1>12 DEF BeginClears
<1>13. CASE BeginReturns
  BY <1>0, <1>13 DEF BeginReturns, Reply, Copies
<1>14. CASE BeginGivesUp
  BY <1>0, <1>14 DEF BeginGivesUp
<1>15. CASE BeginTimesOut
  BY <1>0, <1>15 DEF BeginTimesOut, Failure
<1>16. CASE EndPollsAgain
  BY <1>0, <1>16 DEF EndPollsAgain, PollAgain
<1>17. CASE EndPolled
  BY <1>0, <1>17 DEF EndPolled, PollDone
<1>18. CASE EndTakes
  BY <1>0, <1>18 DEF EndTakes
<1>19. CASE EndTimesOut
  BY <1>0, <1>19 DEF EndTimesOut, Failure
<1>20. CASE EndReturns
  BY <1>0, <1>20 DEF EndReturns, Reply, Copies
<1>21. CASE OnAgentNotify
  BY <1>0, <1>21, MessagesType DEF OnAgentNotify
<1>22. CASE NotifyTested
  BY <1>0, <1>22 DEF NotifyTested
<1>23. CASE NotifyAssigns
  BY <1>0, <1>23 DEF NotifyAssigns, Assign
<1>24. CASE NotifyPublishes
  BY <1>0, <1>24 DEF NotifyPublishes, Publish
<1>25. CASE ReplyLocked
  <2>0. g_bIsPairing
    BY <1>25 DEF ReplyLocked
  <2>1. /\ bt = "replyLock" /\ bt' = "replyAssign"
        /\ g_bIsPairing' = FALSE
        /\ UNCHANGED <<g_bHasPairingReplyMessage, g_pairingReplyMessage, attempt, calls,
                       web, answer, incoming>>
    BY <1>25, <2>0 DEF ReplyLocked
  <2>2. incoming.final /\ incoming.of = attempt /\ calls = {}
    <3>1. incoming.of \in Outstanding /\ calls \subseteq Outstanding
      BY <2>1
    <3>2. incoming.of = attempt /\ \A a \in calls : a = attempt
      BY <3>1
    <3>3. incoming.final /\ incoming.of \notin calls
      BY <2>1
    <3> QED BY <3>2, <3>3
  <2>3. web \notin {"beginFind", "beginCall"}
    BY <2>1
  <2>4. Outstanding' = {}
    BY <2>1, <2>2
  <2>5. OnePairingAtATime' /\ BeginExclusive' /\ IncomingOrigin'
    BY <2>1, <2>2, <2>3, <2>4
  <2> QED BY <2>1, <2>5
<1>26. CASE ReplyAssigns
  BY <1>0, <1>26 DEF ReplyAssigns, Assign
<1>27. CASE ReplyPublishes
  BY <1>0, <1>27 DEF ReplyPublishes, Publish
<1>28. CASE OnPairDeviceReply
  BY <1>0, <1>28, MessagesType DEF OnPairDeviceReply
<1>29. CASE UNCHANGED vars
  BY <1>29
<1> QED
  BY <1>1, <1>2, <1>3, <1>4, <1>5, <1>6, <1>7, <1>8, <1>9, <1>10,
     <1>11, <1>12, <1>13, <1>14, <1>15, <1>16, <1>17, <1>18, <1>19, <1>20,
     <1>21, <1>22, <1>23, <1>24, <1>25, <1>26, <1>27, <1>28,
     <1>29
  DEF Next, Request, WebStep, BtStep

\* The inductive invariant holds of every interleaving of the two threads.
LEMMA Invariance == Spec => []IInv
<1>1. Init => IInv
  <2> SUFFICES ASSUME Init PROVE IInv
    OBVIOUS
  <2>1. OnePairingAtATime /\ BeginExclusive /\ IncomingOrigin /\ PublishedOrigin
    BY DEF Init, OnePairingAtATime, BeginExclusive, IncomingOrigin, PublishedOrigin,
           Outstanding, InNotify, InReply
  <2>2. BeginAnswerOrigin
    BY DEF Init, BeginAnswerOrigin, NoAnswer
  <2> QED BY <2>1, <2>2, InitType DEF IInv
<1>2. IInv /\ [Next]_vars => IInv'
  <2>1. IInv /\ [Next]_vars => TypeOK'
    BY NextType DEF IInv
  <2>2. IInv /\ [Next]_vars => Origins'
    BY <2>1, NextOrigins
  <2> QED BY <2>1, <2>2 DEF IInv, Origins
<1> QED BY <1>1, <1>2, PTL DEF Spec

\* The flag and the mutex keep pairings apart: a Pair call is sent only when the
\* reply to the one before has been handled, in every interleaving.
THEOREM PairingExclusive == Spec => []OnePairingAtATime
<1>1. IInv => OnePairingAtATime
  BY DEF IInv
<1> QED BY <1>1, Invariance, PTL

\* A pin code is never shown for a later pairing, and a reply at most for the next.
THEOREM AnswerOrigin == Spec => []BeginAnswerOrigin
<1>1. IInv => BeginAnswerOrigin
  BY DEF IInv
<1> QED BY <1>1, Invariance, PTL

-----------------------------------------------------------------------------
(* What the functions promise: Pairing implements PairingSpec.             *)

\* Every step of either thread keeps what is known of the message slot.
LEMMA NextKnown == IInv /\ SlotKnown /\ TypeOK' /\ [Next]_vars => SlotKnown'
<1> SUFFICES ASSUME TypeOK, Origins, SlotKnown, TypeOK', [Next]_vars PROVE SlotKnown'
  BY DEF IInv, Origins
<1> USE DEF SlotKnown, Origins, OnePairingAtATime, BeginExclusive, IncomingOrigin,
            Outstanding, InNotify, InReply
<1>0. /\ attempt \in Nat /\ incoming \in Messages /\ incoming.of \in Nat
      /\ g_pairingReplyMessage \in Messages /\ g_pairingReplyMessage.of \in Nat
      /\ calls \in SUBSET Nat
  BY DEF TypeOK, Messages
<1>1. CASE BeginPairDevice
  BY <1>1, <1>0 DEF BeginPairDevice
<1>2. CASE EndPairDevice
  BY <1>2, <1>0 DEF EndPairDevice
<1>3. CASE BeginRefused
  BY <1>3, <1>0 DEF BeginRefused, Failure
<1>4. CASE BeginLocked
  BY <1>4, <1>0 DEF BeginLocked
<1>5. CASE BeginNotAvailable
  BY <1>5, <1>0 DEF BeginNotAvailable, Failure
<1>6. CASE BeginFound
  BY <1>6, <1>0 DEF BeginFound
<1>7. CASE BeginNotSent
  BY <1>7, <1>0 DEF BeginNotSent, Failure
<1>8. CASE BeginSent
  BY <1>8, <1>0 DEF BeginSent
<1>9. CASE BeginPollsAgain
  BY <1>9, <1>0 DEF BeginPollsAgain, PollAgain
<1>10. CASE BeginPolled
  BY <1>10, <1>0 DEF BeginPolled, PollDone
<1>11. CASE BeginTakes
  BY <1>11, <1>0 DEF BeginTakes
<1>12. CASE BeginClears
  BY <1>12, <1>0 DEF BeginClears
<1>13. CASE BeginReturns
  BY <1>13, <1>0 DEF BeginReturns, Reply, Copies
<1>14. CASE BeginGivesUp
  BY <1>14, <1>0 DEF BeginGivesUp
<1>15. CASE BeginTimesOut
  BY <1>15, <1>0 DEF BeginTimesOut, Failure
<1>16. CASE EndPollsAgain
  BY <1>16, <1>0 DEF EndPollsAgain, PollAgain
<1>17. CASE EndPolled
  BY <1>17, <1>0 DEF EndPolled, PollDone
<1>18. CASE EndTakes
  BY <1>18, <1>0 DEF EndTakes
<1>19. CASE EndTimesOut
  BY <1>19, <1>0 DEF EndTimesOut, Failure
<1>20. CASE EndReturns
  BY <1>20, <1>0 DEF EndReturns, Reply, Copies
<1>21. CASE OnAgentNotify
  BY <1>21, <1>0, MessagesType DEF OnAgentNotify
<1>22. CASE NotifyTested
  BY <1>22, <1>0 DEF NotifyTested
<1>23. CASE NotifyAssigns
  BY <1>23, <1>0 DEF NotifyAssigns, Assign
<1>24. CASE NotifyPublishes
  BY <1>24, <1>0 DEF NotifyPublishes, Publish
<1>25. CASE ReplyLocked
  BY <1>25, <1>0 DEF ReplyLocked
<1>26. CASE ReplyAssigns
  BY <1>26, <1>0 DEF ReplyAssigns, Assign
<1>27. CASE ReplyPublishes
  BY <1>27, <1>0 DEF ReplyPublishes, Publish
<1>28. CASE OnPairDeviceReply
  BY <1>28, <1>0, MessagesType DEF OnPairDeviceReply
<1>29. CASE UNCHANGED vars
  BY <1>29
<1> QED
  BY <1>1, <1>2, <1>3, <1>4, <1>5, <1>6, <1>7, <1>8, <1>9, <1>10,
     <1>11, <1>12, <1>13, <1>14, <1>15, <1>16, <1>17, <1>18, <1>19, <1>20,
     <1>21, <1>22, <1>23, <1>24, <1>25, <1>26, <1>27, <1>28, <1>29
  DEF Next, Request, WebStep, BtStep

\* A step is one of the promise, or nothing that it tells.
LEMMA NextPromise ==
    IInv /\ SlotKnown /\ IInv' /\ [Next]_vars => [Promise!Next]_(Promise!vars)
<1> SUFFICES ASSUME TypeOK, Origins, SlotKnown, [Next]_vars
             PROVE  [Promise!Next]_(Promise!vars)
  BY DEF IInv, Origins
<1> USE DEF Promise!vars, Serving
<1>0. /\ attempt \in Nat /\ g_pairingReplyMessage \in Messages /\ incoming \in Messages
      /\ calls \in SUBSET Nat
  BY DEF TypeOK
<1>1. CASE BeginPairDevice
  <2>1. Promise!Asked
    BY <1>1, <1>0 DEF Outstanding, BeginPairDevice, Promise!Asked
  <2> QED BY <2>1 DEF Promise!Next
<1>2. CASE EndPairDevice
  <2>1. Promise!Asked
    BY <1>2, <1>0 DEF Outstanding, EndPairDevice, Promise!Asked
  <2> QED BY <2>1 DEF Promise!Next
<1>3. CASE BeginRefused
  <2>1. Promise!BeginFailed
    BY <1>3, <1>0 DEF Outstanding, BeginRefused, Failure, Promise!BeginFailed, Promise!Answers
  <2> QED BY <2>1 DEF Promise!Next
<1>4. CASE BeginLocked
  BY <1>4, <1>0 DEF Outstanding, BeginLocked
<1>5. CASE BeginNotAvailable
  <2>1. Promise!BeginFailed
    BY <1>5, <1>0 DEF Outstanding, BeginNotAvailable, Failure, Promise!BeginFailed, Promise!Answers
  <2> QED BY <2>1 DEF Promise!Next
<1>6. CASE BeginFound
  BY <1>6, <1>0 DEF Outstanding, BeginFound
<1>7. CASE BeginNotSent
  <2>1. Promise!BeginFailed
    BY <1>7, <1>0 DEF Outstanding, BeginNotSent, Failure, Promise!BeginFailed, Promise!Answers
  <2> QED BY <2>1 DEF Promise!Next
<1>8. CASE BeginSent
  <2>1. Promise!Begun
    <3>1. Outstanding = {}
      BY <1>8 DEF BeginSent, Origins, BeginExclusive, Outstanding
    <3>2. calls = {} /\ bt # "replyLock"
      BY <3>1 DEF Outstanding
    <3>3. Outstanding' = {attempt + 1}
      BY <1>8, <3>2 DEF BeginSent, Outstanding
    <3>4. Serving = "begin" /\ Serving' = "waiting"
      BY <1>8 DEF BeginSent
    <3> QED BY <1>8, <3>1, <3>3, <3>4 DEF BeginSent, Promise!Begun
  <2> QED BY <2>1 DEF Promise!Next
<1>9. CASE BeginPollsAgain
  BY <1>9, <1>0 DEF Outstanding, BeginPollsAgain, PollAgain
<1>10. CASE BeginPolled
  BY <1>10, <1>0 DEF Outstanding, BeginPolled, PollDone
<1>11. CASE BeginTakes
  BY <1>11, <1>0 DEF Outstanding, BeginTakes
<1>12. CASE BeginClears
  BY <1>12, <1>0 DEF Outstanding, BeginClears
<1>13. CASE BeginReturns
  <2>1. Promise!BeginAnswered
    <3>1. PICK m \in Copies : answer' = Reply("begin", m)
      BY <1>13 DEF BeginReturns
    <3>2. /\ Serving = "waiting" /\ Serving' = "none"
          /\ UNCHANGED attempt /\ Outstanding' = Outstanding
      BY <1>13 DEF BeginReturns, Outstanding
    <3>3. /\ answer'.to = "begin" /\ answer'.during = attempt
          /\ answer'.why = "reply" /\ answer'.msg = m
      BY <3>1 DEF Reply
    <3>4. \/ m = Torn
          \/ /\ m.of = attempt \/ (m.of = attempt - 1 /\ m.final)
             /\ m.final => m.of \notin Outstanding
      <4>1. web = "beginCopy"
        BY <1>13 DEF BeginReturns
      <4>2. CASE m = g_pairingReplyMessage
        BY <4>1, <4>2 DEF Origins, PublishedOrigin, Fresh, SlotKnown
      <4>3. CASE m = incoming /\ bt \in {"notifyAssign", "replyAssign"}
        BY <1>0, <4>3 DEF Origins, IncomingOrigin, OnePairingAtATime, InNotify, InReply,
                          Outstanding
      <4> QED BY <4>2, <4>3 DEF Copies
    <3>5. m = Torn => m.status = "Torn"
      BY DEF Torn
    <3> QED BY <1>0, <3>2, <3>3, <3>4, <3>5
            DEF Promise!BeginAnswered, Promise!Answers, Promise!About, Promise!Told
  <2> QED BY <2>1 DEF Promise!Next
<1>14. CASE BeginGivesUp
  BY <1>14, <1>0 DEF Outstanding, BeginGivesUp
<1>15. CASE BeginTimesOut
  <2>1. Promise!BeginFailed
    BY <1>15, <1>0 DEF Outstanding, BeginTimesOut, Failure, Promise!BeginFailed, Promise!Answers
  <2> QED BY <2>1 DEF Promise!Next
<1>16. CASE EndPollsAgain
  BY <1>16, <1>0 DEF Outstanding, EndPollsAgain, PollAgain
<1>17. CASE EndPolled
  BY <1>17, <1>0 DEF Outstanding, EndPolled, PollDone
<1>18. CASE EndTakes
  BY <1>18, <1>0 DEF Outstanding, EndTakes
<1>19. CASE EndTimesOut
  <2>1. Promise!EndFailed
    BY <1>19, <1>0 DEF Outstanding, EndTimesOut, Failure, Promise!EndFailed, Promise!Answers
  <2> QED BY <2>1 DEF Promise!Next
<1>20. CASE EndReturns
  <2>1. Promise!EndAnswered
    <3>1. PICK m \in Copies : answer' = Reply("end", m)
      BY <1>20 DEF EndReturns
    <3>2. /\ Serving = "end" /\ Serving' = "none"
          /\ UNCHANGED attempt /\ Outstanding' = Outstanding
      BY <1>20 DEF EndReturns, Outstanding
    <3>3. /\ answer'.to = "end" /\ answer'.during = attempt
          /\ answer'.why = "reply" /\ answer'.msg = m
      BY <3>1 DEF Reply
    <3>4. \/ m = Torn
          \/ /\ m.of \in 1 .. attempt
             /\ m.final => m.of \notin Outstanding
      <4>1. web = "endCopy"
        BY <1>20 DEF EndReturns
      <4>2. CASE m = g_pairingReplyMessage
        BY <1>0, <4>1, <4>2 DEF SlotKnown
      <4>3. CASE m = incoming /\ bt \in {"notifyAssign", "replyAssign"}
        BY <1>0, <4>3 DEF Origins, IncomingOrigin, OnePairingAtATime, InNotify, InReply,
                          Outstanding, SlotKnown
      <4> QED BY <4>2, <4>3 DEF Copies
    <3>5. m = Torn => m.status = "Torn"
      BY DEF Torn
    <3> QED BY <1>0, <3>2, <3>3, <3>4, <3>5
            DEF Promise!EndAnswered, Promise!Answers, Promise!About, Promise!Told
  <2> QED BY <2>1 DEF Promise!Next
<1>21. CASE OnAgentNotify
  BY <1>21, <1>0 DEF Outstanding, OnAgentNotify
<1>22. CASE NotifyTested
  BY <1>22, <1>0 DEF Outstanding, NotifyTested
<1>23. CASE NotifyAssigns
  BY <1>23, <1>0 DEF Outstanding, NotifyAssigns, Assign
<1>24. CASE NotifyPublishes
  BY <1>24, <1>0 DEF Outstanding, NotifyPublishes, Publish
<1>25. CASE ReplyLocked
  <2>1. Promise!Ended
    <3>1. incoming.of \in Outstanding
      BY <1>25 DEF ReplyLocked, Outstanding
    <3>2. \A a \in calls : a = incoming.of
      BY <3>1 DEF Origins, OnePairingAtATime, Outstanding
    <3>3. incoming.of \notin calls
      BY <1>25 DEF ReplyLocked, Origins, IncomingOrigin
    <3>4. calls = {}
      BY <3>2, <3>3
    <3>5. Outstanding' = {}
      BY <1>25, <3>4 DEF ReplyLocked, Outstanding
    <3> QED BY <1>25, <3>1, <3>5 DEF ReplyLocked, Promise!Ended
  <2> QED BY <2>1 DEF Promise!Next
<1>26. CASE ReplyAssigns
  BY <1>26, <1>0 DEF Outstanding, ReplyAssigns, Assign
<1>27. CASE ReplyPublishes
  BY <1>27, <1>0 DEF Outstanding, ReplyPublishes, Publish
<1>28. CASE OnPairDeviceReply
  <2>1. PICK a \in calls : incoming' \in PairReplies(a) /\ calls' = calls \ {a}
    BY <1>28 DEF OnPairDeviceReply
  <2>2. incoming'.of = a
    BY <1>0, <2>1, MessagesType
  <2>3. Outstanding' = Outstanding
    BY <1>28, <2>1, <2>2 DEF OnPairDeviceReply, Outstanding
  <2> QED BY <1>28, <2>3 DEF OnPairDeviceReply
<1>29. CASE UNCHANGED vars
  BY <1>29 DEF Outstanding
<1> QED
  BY <1>1, <1>2, <1>3, <1>4, <1>5, <1>6, <1>7, <1>8, <1>9, <1>10,
     <1>11, <1>12, <1>13, <1>14, <1>15, <1>16, <1>17, <1>18, <1>19, <1>20,
     <1>21, <1>22, <1>23, <1>24, <1>25, <1>26, <1>27, <1>28, <1>29
  DEF Next, Request, WebStep, BtStep

\* For any number of Pair calls and polling rounds, what bluetoothd and the user see of
\* the two threads is what PairingSpec allows.
THEOREM PairingImplements == Spec => PairingAsPromised
<1>1. Init => Promise!Init
  BY DEF Init, Promise!Init, Serving, Outstanding, NoAnswer
<1>2. Init => SlotKnown
  BY DEF Init, SlotKnown, Outstanding, NoMessage
<1>3. IInv /\ SlotKnown /\ IInv' /\ [Next]_vars => SlotKnown'
  BY NextKnown DEF IInv
<1>4. IInv /\ SlotKnown /\ IInv' /\ [Next]_vars => [Promise!Next]_(Promise!vars)
  BY NextPromise
<1> QED BY <1>1, <1>2, <1>3, <1>4, Invariance, PTL DEF Spec, PairingAsPromised, Promise!Spec

-----------------------------------------------------------------------------
(* Why every request is answered: how many steps are left to either thread. *)

\* Where a thread is, the most steps it can still take; in a polling loop, had it
\* made no round yet.
WebMost == [idle |-> 0, beginLock |-> BeginPolls + 7, beginFind |-> BeginPolls + 6,
            beginCall |-> BeginPolls + 5, beginPoll |-> BeginPolls + 4, beginTest |-> 3,
            beginTake |-> 2, beginCopy |-> 1, beginGiveUp |-> 1,
            endPoll |-> EndPolls + 3, endTest |-> 2, endCopy |-> 1]
BtMost  == [idle |-> 0, notifyTest |-> 3, notifyAssign |-> 2, notifyPublish |-> 1,
            replyLock |-> 3, replyAssign |-> 2, replyPublish |-> 1]

Rounds  == IF web \in {"beginPoll", "endPoll"} THEN count ELSE 0
WebLeft == WebMost[web] - Rounds
BtLeft  == BtMost[bt]

\* The counter of a polling loop never reaches its bound inside the loop.
CountOK == /\ web = "beginPoll" => count < BeginPolls
           /\ web = "endPoll" => count < EndPolls

LEMMA WebStepCounts ==
    ASSUME TypeOK, CountOK, WebStep
    PROVE  CountOK' /\ WebLeft' < WebLeft
<1>0. count \in Nat /\ BeginPolls \in Nat \ {0} /\ EndPolls \in Nat \ {0}
  BY PollsAssumption DEF TypeOK
<1>1. CASE BeginPollsAgain \/ EndPollsAgain
  <2>1. /\ web' = web /\ count' = count + 1
        /\ \/ web = "beginPoll" /\ count + 1 < BeginPolls
           \/ web = "endPoll" /\ count + 1 < EndPolls
    BY <1>1 DEF BeginPollsAgain, EndPollsAgain, PollAgain
  <2> QED BY <1>0, <2>1 DEF CountOK, WebLeft, Rounds, WebMost
<1>2. CASE BeginPolled \/ EndPolled
  <2>1. \/ web = "beginPoll" /\ web' = "beginTest"
        \/ web = "endPoll" /\ web' = "endTest"
    BY <1>2 DEF BeginPolled, EndPolled, PollDone
  <2> QED BY <1>0, <2>1 DEF CountOK, WebLeft, Rounds, WebMost
<1>3. CASE BeginSent
  <2>1. web = "beginCall" /\ web' = "beginPoll" /\ count' = 0
    BY <1>3 DEF BeginSent
  <2> QED BY <1>0, <2>1 DEF CountOK, WebLeft, Rounds, WebMost
<1>4. CASE BeginRefused \/ BeginLocked \/ BeginNotAvailable \/ BeginFound \/ BeginNotSent
  <2>1. \/ web = "beginLock" /\ web' \in {"idle", "beginFind"}
        \/ web = "beginFind" /\ web' \in {"idle", "beginCall"}
        \/ web = "beginCall" /\ web' = "idle"
    BY <1>4 DEF BeginRefused, BeginLocked, BeginNotAvailable, BeginFound, BeginNotSent
  <2> QED BY <1>0, <2>1 DEF CountOK, WebLeft, Rounds, WebMost
<1>5. CASE BeginTakes \/ BeginClears \/ BeginReturns \/ BeginGivesUp \/ BeginTimesOut
  <2>1. \/ web = "beginTest" /\ web' \in {"beginTake", "beginGiveUp"}
        \/ web = "beginTake" /\ web' = "beginCopy"
        \/ web \in {"beginCopy", "beginGiveUp"} /\ web' = "idle"
    BY <1>5 DEF BeginTakes, BeginClears, BeginReturns, BeginGivesUp, BeginTimesOut
  <2> QED BY <1>0, <2>1 DEF CountOK, WebLeft, Rounds, WebMost
<1>6. CASE EndTakes \/ EndTimesOut \/ EndReturns
  <2>1. \/ web = "endTest" /\ web' \in {"endCopy", "idle"}
        \/ web = "endCopy" /\ web' = "idle"
    BY <1>6 DEF EndTakes, EndTimesOut, EndReturns
  <2> QED BY <1>0, <2>1 DEF CountOK, WebLeft, Rounds, WebMost
<1> QED BY <1>1, <1>2, <1>3, <1>4, <1>5, <1>6 DEF WebStep

LEMMA BtStepCounts ==
    ASSUME BtStep
    PROVE  UNCHANGED <<web, count>> /\ BtLeft' < BtLeft
<1> USE DEF BtLeft, BtMost
<1>1. CASE NotifyTested \/ NotifyAssigns \/ NotifyPublishes
  BY <1>1 DEF NotifyTested, NotifyAssigns, NotifyPublishes, Assign, Publish
<1>2. CASE ReplyLocked \/ ReplyAssigns \/ ReplyPublishes
  BY <1>2 DEF ReplyLocked, ReplyAssigns, ReplyPublishes, Assign, Publish
<1> QED BY <1>1, <1>2 DEF BtStep

\* A step of the web thread leaves the bluetooth thread where it is.
LEMMA WebStepAlone == WebStep \/ Request => UNCHANGED bt
<1> QED BY DEF WebStep, Request, BeginPairDevice, EndPairDevice, BeginRefused, BeginLocked,
               BeginNotAvailable, BeginFound, BeginNotSent, BeginSent, BeginPollsAgain,
               BeginPolled, PollAgain, PollDone, BeginTakes, BeginClears, BeginReturns,
               BeginGivesUp, BeginTimesOut, EndPollsAgain, EndPolled, EndTakes,
               EndTimesOut, EndReturns

\* A request begins with nothing counted, and a message from D-Bus touches no counter.
LEMMA ArrivalCounts ==
    ASSUME Request \/ OnAgentNotify \/ OnPairDeviceReply
    PROVE  /\ Request => web = "idle" /\ web' \in {"beginLock", "endPoll"}
                                      /\ (web' = "endPoll" => count' = 0)
           /\ ~Request => bt = "idle" /\ UNCHANGED <<web, count>>
<1>1. CASE Request
  BY <1>1 DEF Request, BeginPairDevice, EndPairDevice
<1>2. CASE ~Request
  BY <1>2 DEF OnAgentNotify, OnPairDeviceReply
<1> QED BY <1>1, <1>2

LEMMA CountInvariance == Spec => []CountOK
<1>1. Init => CountOK
  BY DEF Init, CountOK
<1>2. TypeOK /\ CountOK /\ [Next]_vars => CountOK'
  <2> SUFFICES ASSUME TypeOK, CountOK, [Next]_vars PROVE CountOK'
    OBVIOUS
  <2>1. CASE WebStep
    BY <2>1, WebStepCounts
  <2>2. CASE BtStep
    BY <2>2, BtStepCounts DEF CountOK
  <2>3. CASE Request \/ OnAgentNotify \/ OnPairDeviceReply
    BY <2>3, ArrivalCounts, PollsAssumption DEF CountOK
  <2>4. CASE UNCHANGED vars
    BY <2>4 DEF CountOK
  <2> QED BY <2>1, <2>2, <2>3, <2>4 DEF Next
<1> QED BY <1>1, <1>2, TypeCorrect, PTL DEF Spec

\* No request and no callback can go on for ever, for any bounds of the polling loops:
\* each step of a thread leaves it fewer steps to its end, of which there are never more
\* than BeginPolls + 7 (of the web thread, EndPolls + 3 for EndPairDevice) and 3,
\* and no step of the other thread, no request and no message gives it any back
\* while it is busy.  With the fairness of the two threads this is why every request is
\* answered.
THEOREM RequestsAreBounded ==
    Spec => /\ [](/\ WebLeft \in 0 .. (IF web \in {"endPoll", "endTest", "endCopy"}
                                         THEN EndPolls + 3 ELSE BeginPolls + 7)
                  /\ WebLeft = 0 <=> web = "idle"
                  /\ BtLeft \in 0 .. 3
                  /\ BtLeft = 0 <=> bt = "idle")
            /\ [][/\ WebStep => WebLeft' < WebLeft
                  /\ BtStep => BtLeft' < BtLeft
                  /\ ~WebStep => web = "idle" \/ WebLeft' = WebLeft
                  /\ ~BtStep => bt = "idle" \/ BtLeft' = BtLeft]_vars
<1>1. TypeOK /\ CountOK =>
        /\ WebLeft \in 0 .. (IF web \in {"endPoll", "endTest", "endCopy"}
                               THEN EndPolls + 3 ELSE BeginPolls + 7)
        /\ WebLeft = 0 <=> web = "idle"
  BY PollsAssumption DEF TypeOK, CountOK, WebAt, WebLeft, WebMost, Rounds
<1>2. TypeOK => /\ BtLeft \in 0 .. 3
                /\ BtLeft = 0 <=> bt = "idle"
  BY DEF TypeOK, BtAt, BtLeft, BtMost
<1>3. TypeOK /\ CountOK /\ [Next]_vars =>
        [/\ WebStep => WebLeft' < WebLeft
         /\ BtStep => BtLeft' < BtLeft
         /\ ~WebStep => web = "idle" \/ WebLeft' = WebLeft
         /\ ~BtStep => bt = "idle" \/ BtLeft' = BtLeft]_vars
  <2> SUFFICES ASSUME TypeOK, CountOK, Next
               PROVE  /\ WebStep => WebLeft' < WebLeft
                      /\ BtStep => BtLeft' < BtLeft
                      /\ ~WebStep => web = "idle" \/ WebLeft' = WebLeft
                      /\ ~BtStep => bt = "idle" \/ BtLeft' = BtLeft
    OBVIOUS
  <2>1. UNCHANGED <<web, count>> => WebLeft' = WebLeft
    BY DEF WebLeft, Rounds
  <2>2. UNCHANGED bt => BtLeft' = BtLeft
    BY DEF BtLeft
  <2>3. WebStep => WebLeft' < WebLeft
    BY WebStepCounts
  <2>4. BtStep => BtLeft' < BtLeft /\ WebLeft' = WebLeft
    BY <2>1, BtStepCounts
  <2>5. WebStep \/ Request => BtLeft' = BtLeft
    BY <2>2, WebStepAlone
  <2>6. Request => web = "idle"
    BY ArrivalCounts
  <2>7. OnAgentNotify \/ OnPairDeviceReply => Request \/ (bt = "idle" /\ WebLeft' = WebLeft)
    BY <2>1, ArrivalCounts
  <2> QED BY <2>3, <2>4, <2>5, <2>6, <2>7 DEF Next
<1> QED BY <1>1, <1>2, <1>3, TypeCorrect, CountInvariance, PTL DEF Spec

=============================================================================
