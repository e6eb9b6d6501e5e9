-------------------------- MODULE ElicitationProofs --------------------------
(***************************************************************************)
(* Proofs about Elicitation, for any calls, streams, elicitations and      *)
(* handlers, with waiters and handlers that may be dropped and call ids    *)
(* that may be dispatched again.  The argument: response_tx is there until *)
(* one handler takes it (Taken); whoever holds a claim keeps both the      *)
(* mutex and the sender (Claimed), so a deadline cannot take it away; and  *)
(* an elicitation the user has seen is past the point where                *)
(* request_and_wait can fail to send it (SeenIsSent).  That the sender of  *)
(* a stream stays registered rests on what is nested in a call finding the *)
(* stream of that call while it is open (OwnStreams).                      *)
(***************************************************************************)
EXTENDS Elicitation, SequenceTheorems, WellFoundedInduction, TLAPS

WaitTypes ==
  /\ wpc \in [Requests -> {"idle", "asked", "found", "inserted", "waiting",
                           "expired", "drained", "leaving", "done", "dropped"}]
  /\ tx \in [Requests -> BOOLEAN]
  /\ chan \in [Requests -> Answerers \cup {None}]
  /\ outcome \in [Requests -> Answerers \cup {None, "failed"}]

AnswerTypes ==
  /\ apc \in [Answerers -> {"idle", "fetched", "claimed", "recorded",
                            "sending", "accepted", "refused", "dropped"}]
  /\ areq \in [Answerers -> Requests \cup {None}]
  /\ lock \in [Requests -> Answerers \cup {None}]
  /\ shown \subseteq Requests
  /\ recorded \subseteq Answerers

QueueTypes == queue \in [Dispatches -> Seq(Requests)]

\* The message of r has been sent.
Sent(r) == wpc[r] \notin {"idle", "asked", "found", "inserted"}

SeenIsSent ==
  /\ \A r \in shown : Sent(r)
  /\ \A d \in Dispatches : \A i \in 1..Len(queue[d]) : Sent(queue[d][i])

AnswersSeen == \A a \in Answerers : apc[a] # "idle" => areq[a] \in shown

\* A waiter that has not got its result, or never will.
Open(r) == wpc[r] \in {"waiting", "expired", "drained", "dropped"}

Claimed ==
  \A a \in Answerers : apc[a] \in {"claimed", "recorded"} =>
     lock[areq[a]] = a /\ tx[areq[a]] /\ Open(areq[a])

Taken ==
  /\ \A a \in recorded : apc[a] \in {"recorded", "sending", "accepted", "refused", "dropped"}
  /\ \A a \in Answerers : apc[a] \in {"recorded", "sending", "accepted"} => a \in recorded
  /\ \A a \in recorded : apc[a] \notin {"recorded", "dropped"} => ~tx[areq[a]]

Delivered ==
  /\ \A r \in Requests : chan[r] # None =>
        apc[chan[r]] = "accepted" /\ areq[chan[r]] = r
  /\ \A a \in Answerers : apc[a] = "accepted" => chan[areq[a]] = a
  /\ \A r \in Requests : outcome[r] \in Answerers => chan[r] = outcome[r]

Waits ==
  /\ \A a \in Answerers : apc[a] = "sending" => Open(areq[a])
  /\ \A a \in recorded : apc[a] = "refused" => wpc[areq[a]] = "dropped"

\* At most one answer's handler was not dropped while it wrote.
OneLives ==
  \A a, b \in recorded :
     apc[a] # "dropped" /\ apc[b] # "dropped" /\ areq[a] = areq[b] => a = b

IInv ==
  /\ WaitTypes /\ AnswerTypes /\ QueueTypes
  /\ SeenIsSent /\ AnswersSeen /\ Claimed /\ Taken /\ Delivered /\ Waits
  /\ OneLives /\ RecordedIsHeard

-----------------------------------------------------------------------------
LEMMA FrameKeeps ==
  ASSUME IInv, UNCHANGED <<wpc, tx, chan, outcome, apc, areq, lock, recorded, shown, queue>>
  PROVE  IInv'
BY DEF IInv, WaitTypes, AnswerTypes, QueueTypes, SeenIsSent, AnswersSeen, Claimed, Taken,
       Delivered, Waits, OneLives, RecordedIsHeard, Sent, Open

LEMMA DropCallKeeps ==
  ASSUME IInv, NEW d \in Dispatches, DropCall(d)
  PROVE  IInv'
<1>0. WaitTypes /\ AnswerTypes /\ QueueTypes /\ SeenIsSent /\ AnswersSeen /\ Claimed
      /\ Taken /\ Delivered /\ Waits /\ OneLives /\ RecordedIsHeard
  BY DEF IInv
<1>1. WaitTypes'
  BY <1>0, ElicitationAssumption DEF DropCall, WaitTypes, AnswerTypes, callVars, waitVars, answerVars
<1>2. AnswerTypes'
  BY <1>0, ElicitationAssumption DEF DropCall, AnswerTypes, WaitTypes, QueueTypes, callVars, waitVars, answerVars
<1>3. QueueTypes'
  BY <1>0, ElicitationAssumption DEF DropCall, QueueTypes, callVars, waitVars, answerVars
<1>4. SeenIsSent'
  BY <1>0, ElicitationAssumption DEF DropCall, WaitTypes, AnswerTypes, QueueTypes, SeenIsSent, Sent, callVars, waitVars, answerVars
<1>5. AnswersSeen'
  BY <1>0, ElicitationAssumption DEF DropCall, AnswerTypes, AnswersSeen, callVars, waitVars, answerVars
<1>6. Claimed'
  BY <1>0, ElicitationAssumption DEF DropCall, WaitTypes, AnswerTypes, SeenIsSent, AnswersSeen, Claimed, Taken, Delivered, Open, Sent, callVars, waitVars, answerVars
<1>7. Taken'
  BY <1>0, ElicitationAssumption DEF DropCall, WaitTypes, AnswerTypes, SeenIsSent, AnswersSeen, Claimed, Taken, Delivered, Open, Sent, callVars, waitVars, answerVars
<1>8. Delivered'
  BY <1>0, ElicitationAssumption DEF DropCall, WaitTypes, AnswerTypes, AnswersSeen, SeenIsSent, Claimed, Taken, Delivered, OneLives, Open, Sent, callVars, waitVars, answerVars
<1>9. Waits'
  BY <1>0, ElicitationAssumption DEF DropCall, WaitTypes, AnswerTypes, AnswersSeen, SeenIsSent, Claimed, Taken, Delivered, Waits, OneLives, Open, Sent, callVars, waitVars, answerVars
<1>10. OneLives'
  BY <1>0, ElicitationAssumption DEF DropCall, WaitTypes, AnswerTypes, AnswersSeen, Claimed, Taken, OneLives, callVars, waitVars, answerVars
<1>11. RecordedIsHeard'
  BY <1>0, ElicitationAssumption DEF DropCall, WaitTypes, AnswerTypes, AnswersSeen, SeenIsSent, Claimed, Taken, Delivered, Waits, OneLives, RecordedIsHeard, Open, Sent, callVars, waitVars, answerVars
<1> QED  BY <1>1, <1>2, <1>3, <1>4, <1>5, <1>6, <1>7, <1>8, <1>9, <1>10, <1>11 DEF IInv

LEMMA ShowKeeps ==
  ASSUME IInv, NEW d \in Dispatches, Show(d)
  PROVE  IInv'
<1>0. WaitTypes /\ AnswerTypes /\ QueueTypes /\ SeenIsSent /\ AnswersSeen /\ Claimed
      /\ Taken /\ Delivered /\ Waits /\ OneLives /\ RecordedIsHeard
  BY DEF IInv
<1>1. WaitTypes'
  BY <1>0, ElicitationAssumption DEF Show, WaitTypes, AnswerTypes, callVars, waitVars, answerVars
<1>2. AnswerTypes'
  BY <1>0, ElicitationAssumption DEF Show, AnswerTypes, WaitTypes, QueueTypes, callVars, waitVars, answerVars
<1>3. QueueTypes'
  BY <1>0, ElicitationAssumption DEF Show, QueueTypes, callVars, waitVars, answerVars
<1>4. SeenIsSent'
  BY <1>0, ElicitationAssumption DEF Show, WaitTypes, AnswerTypes, QueueTypes, SeenIsSent, Sent, callVars, waitVars, answerVars
<1>5. AnswersSeen'
  BY <1>0, ElicitationAssumption DEF Show, AnswerTypes, AnswersSeen, callVars, waitVars, answerVars
<1>6. Claimed'
  BY <1>0, ElicitationAssumption DEF Show, WaitTypes, AnswerTypes, SeenIsSent, AnswersSeen, Claimed, Taken, Delivered, Open, Sent, callVars, waitVars, answerVars
<1>7. Taken'
  BY <1>0, ElicitationAssumption DEF Show, WaitTypes, AnswerTypes, SeenIsSent, AnswersSeen, Claimed, Taken, Delivered, Open, Sent, callVars, waitVars, answerVars
<1>8. Delivered'
  BY <1>0, ElicitationAssumption DEF Show, WaitTypes, AnswerTypes, AnswersSeen, SeenIsSent, Claimed, Taken, Delivered, OneLives, Open, Sent, callVars, waitVars, answerVars
<1>9. Waits'
  BY <1>0, ElicitationAssumption DEF Show, WaitTypes, AnswerTypes, AnswersSeen, SeenIsSent, Claimed, Taken, Delivered, Waits, OneLives, Open, Sent, callVars, waitVars, answerVars
<1>10. OneLives'
  BY <1>0, ElicitationAssumption DEF Show, WaitTypes, AnswerTypes, AnswersSeen, Claimed, Taken, OneLives, callVars, waitVars, answerVars
<1>11. RecordedIsHeard'
  BY <1>0, ElicitationAssumption DEF Show, WaitTypes, AnswerTypes, AnswersSeen, SeenIsSent, Claimed, Taken, Delivered, Waits, OneLives, RecordedIsHeard, Open, Sent, callVars, waitVars, answerVars
<1> QED  BY <1>1, <1>2, <1>3, <1>4, <1>5, <1>6, <1>7, <1>8, <1>9, <1>10, <1>11 DEF IInv

LEMMA AskKeeps ==
  ASSUME IInv, NEW r \in Requests, Ask(r)
  PROVE  IInv'
<1>0. WaitTypes /\ AnswerTypes /\ QueueTypes /\ SeenIsSent /\ AnswersSeen /\ Claimed
      /\ Taken /\ Delivered /\ Waits /\ OneLives /\ RecordedIsHeard
  BY DEF IInv
<1>1. WaitTypes'
  BY <1>0, ElicitationAssumption DEF Ask, WaitTypes, AnswerTypes, callVars, waitVars, answerVars
<1>2. AnswerTypes'
  BY <1>0, ElicitationAssumption DEF Ask, AnswerTypes, WaitTypes, QueueTypes, callVars, waitVars, answerVars
<1>3. QueueTypes'
  BY <1>0, ElicitationAssumption DEF Ask, QueueTypes, callVars, waitVars, answerVars
<1>4. SeenIsSent'
  BY <1>0, ElicitationAssumption DEF Ask, WaitTypes, AnswerTypes, QueueTypes, SeenIsSent, Sent, callVars, waitVars, answerVars
<1>5. AnswersSeen'
  BY <1>0, ElicitationAssumption DEF Ask, AnswerTypes, AnswersSeen, callVars, waitVars, answerVars
<1>6. Claimed'
  BY <1>0, ElicitationAssumption DEF Ask, WaitTypes, AnswerTypes, SeenIsSent, AnswersSeen, Claimed, Taken, Delivered, Open, Sent, callVars, waitVars, answerVars
<1>7. Taken'
  BY <1>0, ElicitationAssumption DEF Ask, WaitTypes, AnswerTypes, SeenIsSent, AnswersSeen, Claimed, Taken, Delivered, Open, Sent, callVars, waitVars, answerVars
<1>8. Delivered'
  BY <1>0, ElicitationAssumption DEF Ask, WaitTypes, AnswerTypes, AnswersSeen, SeenIsSent, Claimed, Taken, Delivered, OneLives, Open, Sent, callVars, waitVars, answerVars
<1>9. Waits'
  BY <1>0, ElicitationAssumption DEF Ask, WaitTypes, AnswerTypes, AnswersSeen, SeenIsSent, Claimed, Taken, Delivered, Waits, OneLives, Open, Sent, callVars, waitVars, answerVars
<1>10. OneLives'
  BY <1>0, ElicitationAssumption DEF Ask, WaitTypes, AnswerTypes, AnswersSeen, Claimed, Taken, OneLives, callVars, waitVars, answerVars
<1>11. RecordedIsHeard'
  BY <1>0, ElicitationAssumption DEF Ask, WaitTypes, AnswerTypes, AnswersSeen, SeenIsSent, Claimed, Taken, Delivered, Waits, OneLives, RecordedIsHeard, Open, Sent, callVars, waitVars, answerVars
<1> QED  BY <1>1, <1>2, <1>3, <1>4, <1>5, <1>6, <1>7, <1>8, <1>9, <1>10, <1>11 DEF IInv

LEMMA LookUpKeeps ==
  ASSUME IInv, NEW r \in Requests, LookUp(r)
  PROVE  IInv'
<1>0. WaitTypes /\ AnswerTypes /\ QueueTypes /\ SeenIsSent /\ AnswersSeen /\ Claimed
      /\ Taken /\ Delivered /\ Waits /\ OneLives /\ RecordedIsHeard
  BY DEF IInv
<1>1. WaitTypes'
  BY <1>0, ElicitationAssumption DEF LookUp, WaitTypes, AnswerTypes, callVars, waitVars, answerVars
<1>2. AnswerTypes'
  BY <1>0, ElicitationAssumption DEF LookUp, AnswerTypes, WaitTypes, QueueTypes, callVars, waitVars, answerVars
<1>3. QueueTypes'
  BY <1>0, ElicitationAssumption DEF LookUp, QueueTypes, callVars, waitVars, answerVars
<1>4. SeenIsSent'
  BY <1>0, ElicitationAssumption DEF LookUp, WaitTypes, AnswerTypes, QueueTypes, SeenIsSent, Sent, callVars, waitVars, answerVars
<1>5. AnswersSeen'
  BY <1>0, ElicitationAssumption DEF LookUp, AnswerTypes, AnswersSeen, callVars, waitVars, answerVars
<1>6. Claimed'
  BY <1>0, ElicitationAssumption DEF LookUp, WaitTypes, AnswerTypes, SeenIsSent, AnswersSeen, Claimed, Taken, Delivered, Open, Sent, callVars, waitVars, answerVars
<1>7. Taken'
  BY <1>0, ElicitationAssumption DEF LookUp, WaitTypes, AnswerTypes, SeenIsSent, AnswersSeen, Claimed, Taken, Delivered, Open, Sent, callVars, waitVars, answerVars
<1>8. Delivered'
  BY <1>0, ElicitationAssumption DEF LookUp, WaitTypes, AnswerTypes, AnswersSeen, SeenIsSent, Claimed, Taken, Delivered, OneLives, Open, Sent, callVars, waitVars, answerVars
<1>9. Waits'
  BY <1>0, ElicitationAssumption DEF LookUp, WaitTypes, AnswerTypes, AnswersSeen, SeenIsSent, Claimed, Taken, Delivered, Waits, OneLives, Open, Sent, callVars, waitVars, answerVars
<1>10. OneLives'
  BY <1>0, ElicitationAssumption DEF LookUp, WaitTypes, AnswerTypes, AnswersSeen, Claimed, Taken, OneLives, callVars, waitVars, answerVars
<1>11. RecordedIsHeard'
  BY <1>0, ElicitationAssumption DEF LookUp, WaitTypes, AnswerTypes, AnswersSeen, SeenIsSent, Claimed, Taken, Delivered, Waits, OneLives, RecordedIsHeard, Open, Sent, callVars, waitVars, answerVars
<1> QED  BY <1>1, <1>2, <1>3, <1>4, <1>5, <1>6, <1>7, <1>8, <1>9, <1>10, <1>11 DEF IInv

LEMMA InsertKeeps ==
  ASSUME IInv, NEW r \in Requests, Insert(r)
  PROVE  IInv'
<1>0. WaitTypes /\ AnswerTypes /\ QueueTypes /\ SeenIsSent /\ AnswersSeen /\ Claimed
      /\ Taken /\ Delivered /\ Waits /\ OneLives /\ RecordedIsHeard
  BY DEF IInv
<1>1. WaitTypes'
  BY <1>0, ElicitationAssumption DEF Insert, WaitTypes, AnswerTypes, callVars, waitVars, answerVars
<1>2. AnswerTypes'
  BY <1>0, ElicitationAssumption DEF Insert, AnswerTypes, WaitTypes, QueueTypes, callVars, waitVars, answerVars
<1>3. QueueTypes'
  BY <1>0, ElicitationAssumption DEF Insert, QueueTypes, callVars, waitVars, answerVars
<1>4. SeenIsSent'
  BY <1>0, ElicitationAssumption DEF Insert, WaitTypes, AnswerTypes, QueueTypes, SeenIsSent, Sent, callVars, waitVars, answerVars
<1>5. AnswersSeen'
  BY <1>0, ElicitationAssumption DEF Insert, AnswerTypes, AnswersSeen, callVars, waitVars, answerVars
<1>6. Claimed'
  BY <1>0, ElicitationAssumption DEF Insert, WaitTypes, AnswerTypes, SeenIsSent, AnswersSeen, Claimed, Taken, Delivered, Open, Sent, callVars, waitVars, answerVars
<1>7. Taken'
  BY <1>0, ElicitationAssumption DEF Insert, WaitTypes, AnswerTypes, SeenIsSent, AnswersSeen, Claimed, Taken, Delivered, Open, Sent, callVars, waitVars, answerVars
<1>8. Delivered'
  BY <1>0, ElicitationAssumption DEF Insert, WaitTypes, AnswerTypes, AnswersSeen, SeenIsSent, Claimed, Taken, Delivered, OneLives, Open, Sent, callVars, waitVars, answerVars
<1>9. Waits'
  BY <1>0, ElicitationAssumption DEF Insert, WaitTypes, AnswerTypes, AnswersSeen, SeenIsSent, Claimed, Taken, Delivered, Waits, OneLives, Open, Sent, callVars, waitVars, answerVars
<1>10. OneLives'
  BY <1>0, ElicitationAssumption DEF Insert, WaitTypes, AnswerTypes, AnswersSeen, Claimed, Taken, OneLives, callVars, waitVars, answerVars
<1>11. RecordedIsHeard'
  BY <1>0, ElicitationAssumption DEF Insert, WaitTypes, AnswerTypes, AnswersSeen, SeenIsSent, Claimed, Taken, Delivered, Waits, OneLives, RecordedIsHeard, Open, Sent, callVars, waitVars, answerVars
<1> QED  BY <1>1, <1>2, <1>3, <1>4, <1>5, <1>6, <1>7, <1>8, <1>9, <1>10, <1>11 DEF IInv

LEMMA TrySendKeeps ==
  ASSUME IInv, NEW r \in Requests, TrySend(r)
  PROVE  IInv'
<1>0. WaitTypes /\ AnswerTypes /\ QueueTypes /\ SeenIsSent /\ AnswersSeen /\ Claimed
      /\ Taken /\ Delivered /\ Waits /\ OneLives /\ RecordedIsHeard
  BY DEF IInv
<1>c1. CASE stream[via[r]] = "open" /\ Len(queue[via[r]]) < Capacity
  <2>0. /\ wpc[r] = "inserted"
        /\ queue' = [queue EXCEPT ![via[r]] = Append(@, r)]
        /\ wpc' = [wpc EXCEPT ![r] = "waiting"]
        /\ UNCHANGED <<tx, outcome, areq, apc, lock, shown, recorded, chan>>
    BY <1>0, <1>c1 DEF TrySend, answerVars
  <2>1. WaitTypes'
    BY <1>0, <1>c1, <2>0, ElicitationAssumption DEF WaitTypes, AnswerTypes
  <2>2. AnswerTypes'
    BY <1>0, <1>c1, <2>0, ElicitationAssumption DEF AnswerTypes, WaitTypes, QueueTypes
  <2>3. QueueTypes'
    <3>1. CASE via[r] \in Dispatches
      <4>1. queue[via[r]] \in Seq(Requests)
        BY <1>0, <3>1 DEF QueueTypes
      <4>2. Append(queue[via[r]], r) \in Seq(Requests)
        BY <4>1
      <4> QED  BY <1>0, <2>0, <3>1, <4>2 DEF QueueTypes
    <3>2. CASE via[r] \notin Dispatches
      BY <1>0, <2>0, <3>2 DEF QueueTypes
    <3> QED  BY <3>1, <3>2
  <2>4. SeenIsSent'
    BY <1>0, <1>c1, <2>0, ElicitationAssumption DEF WaitTypes, AnswerTypes, QueueTypes, SeenIsSent, Sent
  <2>5. AnswersSeen'
    BY <1>0, <1>c1, <2>0, ElicitationAssumption DEF AnswerTypes, AnswersSeen
  <2>6. Claimed'
    BY <1>0, <1>c1, <2>0, ElicitationAssumption DEF WaitTypes, AnswerTypes, SeenIsSent, AnswersSeen, Claimed, Taken, Delivered, Open, Sent
  <2>7. Taken'
    BY <1>0, <1>c1, <2>0, ElicitationAssumption DEF WaitTypes, AnswerTypes, SeenIsSent, AnswersSeen, Claimed, Taken, Delivered, Open, Sent
  <2>8. Delivered'
    BY <1>0, <1>c1, <2>0, ElicitationAssumption DEF WaitTypes, AnswerTypes, AnswersSeen, SeenIsSent, Claimed, Taken, Delivered, OneLives, Open, Sent
  <2>9. Waits'
    BY <1>0, <1>c1, <2>0, ElicitationAssumption DEF WaitTypes, AnswerTypes, AnswersSeen, SeenIsSent, Claimed, Taken, Delivered, Waits, OneLives, Open, Sent
  <2>10. OneLives'
    BY <1>0, <1>c1, <2>0, ElicitationAssumption DEF WaitTypes, AnswerTypes, AnswersSeen, Claimed, Taken, OneLives
  <2>11. RecordedIsHeard'
    BY <1>0, <1>c1, <2>0, ElicitationAssumption DEF WaitTypes, AnswerTypes, AnswersSeen, SeenIsSent, Claimed, Taken, Delivered, Waits, OneLives, RecordedIsHeard, Open, Sent
  <2> QED  BY <2>1, <2>2, <2>3, <2>4, <2>5, <2>6, <2>7, <2>8, <2>9, <2>10, <2>11 DEF IInv
<1>c2. CASE ~(stream[via[r]] = "open" /\ Len(queue[via[r]]) < Capacity)
  <2>0. /\ wpc[r] = "inserted"
        /\ wpc' = [wpc EXCEPT ![r] = "leaving"]
        /\ outcome' = [outcome EXCEPT ![r] = "failed"]
        /\ UNCHANGED <<tx, areq, apc, lock, shown, recorded, queue, chan>>
    BY <1>0, <1>c2 DEF TrySend, answerVars
  <2>1. WaitTypes'
    BY <1>0, <1>c2, <2>0, ElicitationAssumption DEF WaitTypes, AnswerTypes
  <2>2. AnswerTypes'
    BY <1>0, <1>c2, <2>0, ElicitationAssumption DEF AnswerTypes, WaitTypes, QueueTypes
  <2>3. QueueTypes'
    BY <1>0, <1>c2, <2>0, ElicitationAssumption DEF QueueTypes
  <2>4. SeenIsSent'
    BY <1>0, <1>c2, <2>0, ElicitationAssumption DEF WaitTypes, AnswerTypes, QueueTypes, SeenIsSent, Sent
  <2>5. AnswersSeen'
    BY <1>0, <1>c2, <2>0, ElicitationAssumption DEF AnswerTypes, AnswersSeen
  <2>6. Claimed'
    BY <1>0, <1>c2, <2>0, ElicitationAssumption DEF WaitTypes, AnswerTypes, SeenIsSent, AnswersSeen, Claimed, Taken, Delivered, Open, Sent
  <2>7. Taken'
    BY <1>0, <1>c2, <2>0, ElicitationAssumption DEF WaitTypes, AnswerTypes, SeenIsSent, AnswersSeen, Claimed, Taken, Delivered, Open, Sent
  <2>8. Delivered'
    BY <1>0, <1>c2, <2>0, ElicitationAssumption DEF WaitTypes, AnswerTypes, AnswersSeen, SeenIsSent, Claimed, Taken, Delivered, OneLives, Open, Sent
  <2>9. Waits'
    BY <1>0, <1>c2, <2>0, ElicitationAssumption DEF WaitTypes, AnswerTypes, AnswersSeen, SeenIsSent, Claimed, Taken, Delivered, Waits, OneLives, Open, Sent
  <2>10. OneLives'
    BY <1>0, <1>c2, <2>0, ElicitationAssumption DEF WaitTypes, AnswerTypes, AnswersSeen, Claimed, Taken, OneLives
  <2>11. RecordedIsHeard'
    BY <1>0, <1>c2, <2>0, ElicitationAssumption DEF WaitTypes, AnswerTypes, AnswersSeen, SeenIsSent, Claimed, Taken, Delivered, Waits, OneLives, RecordedIsHeard, Open, Sent
  <2> QED  BY <2>1, <2>2, <2>3, <2>4, <2>5, <2>6, <2>7, <2>8, <2>9, <2>10, <2>11 DEF IInv
<1> QED  BY <1>c1, <1>c2

LEMMA ReceiveKeeps ==
  ASSUME IInv, NEW r \in Requests, Receive(r)
  PROVE  IInv'
<1>0. WaitTypes /\ AnswerTypes /\ QueueTypes /\ SeenIsSent /\ AnswersSeen /\ Claimed
      /\ Taken /\ Delivered /\ Waits /\ OneLives /\ RecordedIsHeard
  BY DEF IInv
<1>1. WaitTypes'
  BY <1>0, ElicitationAssumption DEF Receive, WaitTypes, AnswerTypes, callVars, waitVars, answerVars
<1>2. AnswerTypes'
  BY <1>0, ElicitationAssumption DEF Receive, AnswerTypes, WaitTypes, QueueTypes, callVars, waitVars, answerVars
<1>3. QueueTypes'
  BY <1>0, ElicitationAssumption DEF Receive, QueueTypes, callVars, waitVars, answerVars
<1>4. SeenIsSent'
  BY <1>0, ElicitationAssumption DEF Receive, WaitTypes, AnswerTypes, QueueTypes, SeenIsSent, Sent, callVars, waitVars, answerVars
<1>5. AnswersSeen'
  BY <1>0, ElicitationAssumption DEF Receive, AnswerTypes, AnswersSeen, callVars, waitVars, answerVars
<1>6. Claimed'
  BY <1>0, ElicitationAssumption DEF Receive, WaitTypes, AnswerTypes, SeenIsSent, AnswersSeen, Claimed, Taken, Delivered, Open, Sent, callVars, waitVars, answerVars
<1>7. Taken'
  BY <1>0, ElicitationAssumption DEF Receive, WaitTypes, AnswerTypes, SeenIsSent, AnswersSeen, Claimed, Taken, Delivered, Open, Sent, callVars, waitVars, answerVars
<1>8. Delivered'
  BY <1>0, ElicitationAssumption DEF Receive, WaitTypes, AnswerTypes, AnswersSeen, SeenIsSent, Claimed, Taken, Delivered, OneLives, Open, Sent, callVars, waitVars, answerVars
<1>9. Waits'
  BY <1>0, ElicitationAssumption DEF Receive, WaitTypes, AnswerTypes, AnswersSeen, SeenIsSent, Claimed, Taken, Delivered, Waits, OneLives, Open, Sent, callVars, waitVars, answerVars
<1>10. OneLives'
  BY <1>0, ElicitationAssumption DEF Receive, WaitTypes, AnswerTypes, AnswersSeen, Claimed, Taken, OneLives, callVars, waitVars, answerVars
<1>11. RecordedIsHeard'
  BY <1>0, ElicitationAssumption DEF Receive, WaitTypes, AnswerTypes, AnswersSeen, SeenIsSent, Claimed, Taken, Delivered, Waits, OneLives, RecordedIsHeard, Open, Sent, callVars, waitVars, answerVars
<1> QED  BY <1>1, <1>2, <1>3, <1>4, <1>5, <1>6, <1>7, <1>8, <1>9, <1>10, <1>11 DEF IInv

LEMMA DeadlineKeeps ==
  ASSUME IInv, NEW r \in Requests, Deadline(r)
  PROVE  IInv'
<1>0. WaitTypes /\ AnswerTypes /\ QueueTypes /\ SeenIsSent /\ AnswersSeen /\ Claimed
      /\ Taken /\ Delivered /\ Waits /\ OneLives /\ RecordedIsHeard
  BY DEF IInv
<1>1. WaitTypes'
  BY <1>0, ElicitationAssumption DEF Deadline, WaitTypes, AnswerTypes, callVars, waitVars, answerVars
<1>2. AnswerTypes'
  BY <1>0, ElicitationAssumption DEF Deadline, AnswerTypes, WaitTypes, QueueTypes, callVars, waitVars, answerVars
<1>3. QueueTypes'
  BY <1>0, ElicitationAssumption DEF Deadline, QueueTypes, callVars, waitVars, answerVars
<1>4. SeenIsSent'
  BY <1>0, ElicitationAssumption DEF Deadline, WaitTypes, AnswerTypes, QueueTypes, SeenIsSent, Sent, callVars, waitVars, answerVars
<1>5. AnswersSeen'
  BY <1>0, ElicitationAssumption DEF Deadline, AnswerTypes, AnswersSeen, callVars, waitVars, answerVars
<1>6. Claimed'
  BY <1>0, ElicitationAssumption DEF Deadline, WaitTypes, AnswerTypes, SeenIsSent, AnswersSeen, Claimed, Taken, Delivered, Open, Sent, callVars, waitVars, answerVars
<1>7. Taken'
  BY <1>0, ElicitationAssumption DEF Deadline, WaitTypes, AnswerTypes, SeenIsSent, AnswersSeen, Claimed, Taken, Delivered, Open, Sent, callVars, waitVars, answerVars
<1>8. Delivered'
  BY <1>0, ElicitationAssumption DEF Deadline, WaitTypes, AnswerTypes, AnswersSeen, SeenIsSent, Claimed, Taken, Delivered, OneLives, Open, Sent, callVars, waitVars, answerVars
<1>9. Waits'
  BY <1>0, ElicitationAssumption DEF Deadline, WaitTypes, AnswerTypes, AnswersSeen, SeenIsSent, Claimed, Taken, Delivered, Waits, OneLives, Open, Sent, callVars, waitVars, answerVars
<1>10. OneLives'
  BY <1>0, ElicitationAssumption DEF Deadline, WaitTypes, AnswerTypes, AnswersSeen, Claimed, Taken, OneLives, callVars, waitVars, answerVars
<1>11. RecordedIsHeard'
  BY <1>0, ElicitationAssumption DEF Deadline, WaitTypes, AnswerTypes, AnswersSeen, SeenIsSent, Claimed, Taken, Delivered, Waits, OneLives, RecordedIsHeard, Open, Sent, callVars, waitVars, answerVars
<1> QED  BY <1>1, <1>2, <1>3, <1>4, <1>5, <1>6, <1>7, <1>8, <1>9, <1>10, <1>11 DEF IInv

LEMMA GiveUpKeeps ==
  ASSUME IInv, NEW r \in Requests, GiveUp(r)
  PROVE  IInv'
<1>0. WaitTypes /\ AnswerTypes /\ QueueTypes /\ SeenIsSent /\ AnswersSeen /\ Claimed
      /\ Taken /\ Delivered /\ Waits /\ OneLives /\ RecordedIsHeard
  BY DEF IInv
<1>c1. CASE tx[r]
  <2>0. /\ wpc[r] = "expired" /\ lock[r] = None
        /\ tx' = [tx EXCEPT ![r] = FALSE]
        /\ outcome' = [outcome EXCEPT ![r] = "failed"]
        /\ wpc' = [wpc EXCEPT ![r] = "leaving"]
        /\ UNCHANGED <<areq, apc, lock, shown, recorded, queue, chan>>
    BY <1>0, <1>c1 DEF GiveUp, callVars, answerVars
  <2>1. WaitTypes'
    BY <1>0, <1>c1, <2>0, ElicitationAssumption DEF WaitTypes, AnswerTypes
  <2>2. AnswerTypes'
    BY <1>0, <1>c1, <2>0, ElicitationAssumption DEF AnswerTypes, WaitTypes, QueueTypes
  <2>3. QueueTypes'
    BY <1>0, <1>c1, <2>0, ElicitationAssumption DEF QueueTypes
  <2>4. SeenIsSent'
    BY <1>0, <1>c1, <2>0, ElicitationAssumption DEF WaitTypes, AnswerTypes, QueueTypes, SeenIsSent, Sent
  <2>5. AnswersSeen'
    BY <1>0, <1>c1, <2>0, ElicitationAssumption DEF AnswerTypes, AnswersSeen
  <2>6. Claimed'
    BY <1>0, <1>c1, <2>0, ElicitationAssumption DEF WaitTypes, AnswerTypes, SeenIsSent, AnswersSeen, Claimed, Taken, Delivered, Open, Sent
  <2>7. Taken'
    BY <1>0, <1>c1, <2>0, ElicitationAssumption DEF WaitTypes, AnswerTypes, SeenIsSent, AnswersSeen, Claimed, Taken, Delivered, Open, Sent
  <2>8. Delivered'
    BY <1>0, <1>c1, <2>0, ElicitationAssumption DEF WaitTypes, AnswerTypes, AnswersSeen, SeenIsSent, Claimed, Taken, Delivered, OneLives, Open, Sent
  <2>9. Waits'
    BY <1>0, <1>c1, <2>0, ElicitationAssumption DEF WaitTypes, AnswerTypes, AnswersSeen, SeenIsSent, Claimed, Taken, Delivered, Waits, OneLives, Open, Sent
  <2>10. OneLives'
    BY <1>0, <1>c1, <2>0, ElicitationAssumption DEF WaitTypes, AnswerTypes, AnswersSeen, Claimed, Taken, OneLives
  <2>11. RecordedIsHeard'
    BY <1>0, <1>c1, <2>0, ElicitationAssumption DEF WaitTypes, AnswerTypes, AnswersSeen, SeenIsSent, Claimed, Taken, Delivered, Waits, OneLives, RecordedIsHeard, Open, Sent
  <2> QED  BY <2>1, <2>2, <2>3, <2>4, <2>5, <2>6, <2>7, <2>8, <2>9, <2>10, <2>11 DEF IInv
<1>c2. CASE ~tx[r]
  <2>0. /\ wpc[r] = "expired" /\ lock[r] = None
        /\ wpc' = [wpc EXCEPT ![r] = "drained"]
        /\ UNCHANGED <<tx, outcome, areq, apc, lock, shown, recorded, queue, chan>>
    BY <1>0, <1>c2 DEF GiveUp, callVars, answerVars
  <2>1. WaitTypes'
    BY <1>0, <1>c2, <2>0, ElicitationAssumption DEF WaitTypes, AnswerTypes
  <2>2. AnswerTypes'
    BY <1>0, <1>c2, <2>0, ElicitationAssumption DEF AnswerTypes, WaitTypes, QueueTypes
  <2>3. QueueTypes'
    BY <1>0, <1>c2, <2>0, ElicitationAssumption DEF QueueTypes
  <2>4. SeenIsSent'
    BY <1>0, <1>c2, <2>0, ElicitationAssumption DEF WaitTypes, AnswerTypes, QueueTypes, SeenIsSent, Sent
  <2>5. AnswersSeen'
    BY <1>0, <1>c2, <2>0, ElicitationAssumption DEF AnswerTypes, AnswersSeen
  <2>6. Claimed'
    BY <1>0, <1>c2, <2>0, ElicitationAssumption DEF WaitTypes, AnswerTypes, SeenIsSent, AnswersSeen, Claimed, Taken, Delivered, Open, Sent
  <2>7. Taken'
    BY <1>0, <1>c2, <2>0, ElicitationAssumption DEF WaitTypes, AnswerTypes, SeenIsSent, AnswersSeen, Claimed, Taken, Delivered, Open, Sent
  <2>8. Delivered'
    BY <1>0, <1>c2, <2>0, ElicitationAssumption DEF WaitTypes, AnswerTypes, AnswersSeen, SeenIsSent, Claimed, Taken, Delivered, OneLives, Open, Sent
  <2>9. Waits'
    BY <1>0, <1>c2, <2>0, ElicitationAssumption DEF WaitTypes, AnswerTypes, AnswersSeen, SeenIsSent, Claimed, Taken, Delivered, Waits, OneLives, Open, Sent
  <2>10. OneLives'
    BY <1>0, <1>c2, <2>0, ElicitationAssumption DEF WaitTypes, AnswerTypes, AnswersSeen, Claimed, Taken, OneLives
  <2>11. RecordedIsHeard'
    BY <1>0, <1>c2, <2>0, ElicitationAssumption DEF WaitTypes, AnswerTypes, AnswersSeen, SeenIsSent, Claimed, Taken, Delivered, Waits, OneLives, RecordedIsHeard, Open, Sent
  <2> QED  BY <2>1, <2>2, <2>3, <2>4, <2>5, <2>6, <2>7, <2>8, <2>9, <2>10, <2>11 DEF IInv
<1> QED  BY <1>c1, <1>c2

LEMMA RemoveKeeps ==
  ASSUME IInv, NEW r \in Requests, Remove(r)
  PROVE  IInv'
<1>0. WaitTypes /\ AnswerTypes /\ QueueTypes /\ SeenIsSent /\ AnswersSeen /\ Claimed
      /\ Taken /\ Delivered /\ Waits /\ OneLives /\ RecordedIsHeard
  BY DEF IInv
<1>1. WaitTypes'
  BY <1>0, ElicitationAssumption DEF Remove, WaitTypes, AnswerTypes, callVars, waitVars, answerVars
<1>2. AnswerTypes'
  BY <1>0, ElicitationAssumption DEF Remove, AnswerTypes, WaitTypes, QueueTypes, callVars, waitVars, answerVars
<1>3. QueueTypes'
  BY <1>0, ElicitationAssumption DEF Remove, QueueTypes, callVars, waitVars, answerVars
<1>4. SeenIsSent'
  BY <1>0, ElicitationAssumption DEF Remove, WaitTypes, AnswerTypes, QueueTypes, SeenIsSent, Sent, callVars, waitVars, answerVars
<1>5. AnswersSeen'
  BY <1>0, ElicitationAssumption DEF Remove, AnswerTypes, AnswersSeen, callVars, waitVars, answerVars
<1>6. Claimed'
  BY <1>0, ElicitationAssumption DEF Remove, WaitTypes, AnswerTypes, SeenIsSent, AnswersSeen, Claimed, Taken, Delivered, Open, Sent, callVars, waitVars, answerVars
<1>7. Taken'
  BY <1>0, ElicitationAssumption DEF Remove, WaitTypes, AnswerTypes, SeenIsSent, AnswersSeen, Claimed, Taken, Delivered, Open, Sent, callVars, waitVars, answerVars
<1>8. Delivered'
  BY <1>0, ElicitationAssumption DEF Remove, WaitTypes, AnswerTypes, AnswersSeen, SeenIsSent, Claimed, Taken, Delivered, OneLives, Open, Sent, callVars, waitVars, answerVars
<1>9. Waits'
  BY <1>0, ElicitationAssumption DEF Remove, WaitTypes, AnswerTypes, AnswersSeen, SeenIsSent, Claimed, Taken, Delivered, Waits, OneLives, Open, Sent, callVars, waitVars, answerVars
<1>10. OneLives'
  BY <1>0, ElicitationAssumption DEF Remove, WaitTypes, AnswerTypes, AnswersSeen, Claimed, Taken, OneLives, callVars, waitVars, answerVars
<1>11. RecordedIsHeard'
  BY <1>0, ElicitationAssumption DEF Remove, WaitTypes, AnswerTypes, AnswersSeen, SeenIsSent, Claimed, Taken, Delivered, Waits, OneLives, RecordedIsHeard, Open, Sent, callVars, waitVars, answerVars
<1> QED  BY <1>1, <1>2, <1>3, <1>4, <1>5, <1>6, <1>7, <1>8, <1>9, <1>10, <1>11 DEF IInv

LEMMA DropWaitKeeps ==
  ASSUME IInv, NEW r \in Requests, DropWait(r)
  PROVE  IInv'
<1>0. WaitTypes /\ AnswerTypes /\ QueueTypes /\ SeenIsSent /\ AnswersSeen /\ Claimed
      /\ Taken /\ Delivered /\ Waits /\ OneLives /\ RecordedIsHeard
  BY DEF IInv
<1>1. WaitTypes'
  BY <1>0, ElicitationAssumption DEF DropWait, WaitTypes, AnswerTypes, callVars, waitVars, answerVars
<1>2. AnswerTypes'
  BY <1>0, ElicitationAssumption DEF DropWait, AnswerTypes, WaitTypes, QueueTypes, callVars, waitVars, answerVars
<1>3. QueueTypes'
  BY <1>0, ElicitationAssumption DEF DropWait, QueueTypes, callVars, waitVars, answerVars
<1>4. SeenIsSent'
  BY <1>0, ElicitationAssumption DEF DropWait, WaitTypes, AnswerTypes, QueueTypes, SeenIsSent, Sent, callVars, waitVars, answerVars
<1>5. AnswersSeen'
  BY <1>0, ElicitationAssumption DEF DropWait, AnswerTypes, AnswersSeen, callVars, waitVars, answerVars
<1>6. Claimed'
  BY <1>0, ElicitationAssumption DEF DropWait, WaitTypes, AnswerTypes, SeenIsSent, AnswersSeen, Claimed, Taken, Delivered, Open, Sent, callVars, waitVars, answerVars
<1>7. Taken'
  BY <1>0, ElicitationAssumption DEF DropWait, WaitTypes, AnswerTypes, SeenIsSent, AnswersSeen, Claimed, Taken, Delivered, Open, Sent, callVars, waitVars, answerVars
<1>8. Delivered'
  BY <1>0, ElicitationAssumption DEF DropWait, WaitTypes, AnswerTypes, AnswersSeen, SeenIsSent, Claimed, Taken, Delivered, OneLives, Open, Sent, callVars, waitVars, answerVars
<1>9. Waits'
  BY <1>0, ElicitationAssumption DEF DropWait, WaitTypes, AnswerTypes, AnswersSeen, SeenIsSent, Claimed, Taken, Delivered, Waits, OneLives, Open, Sent, callVars, waitVars, answerVars
<1>10. OneLives'
  BY <1>0, ElicitationAssumption DEF DropWait, WaitTypes, AnswerTypes, AnswersSeen, Claimed, Taken, OneLives, callVars, waitVars, answerVars
<1>11. RecordedIsHeard'
  BY <1>0, ElicitationAssumption DEF DropWait, WaitTypes, AnswerTypes, AnswersSeen, SeenIsSent, Claimed, Taken, Delivered, Waits, OneLives, RecordedIsHeard, Open, Sent, callVars, waitVars, answerVars
<1> QED  BY <1>1, <1>2, <1>3, <1>4, <1>5, <1>6, <1>7, <1>8, <1>9, <1>10, <1>11 DEF IInv

LEMMA FetchKeeps ==
  ASSUME IInv, NEW a \in Answerers, NEW r \in Requests, NEW own \in BOOLEAN, Fetch(a, r, own)
  PROVE  IInv'
<1>0. WaitTypes /\ AnswerTypes /\ QueueTypes /\ SeenIsSent /\ AnswersSeen /\ Claimed
      /\ Taken /\ Delivered /\ Waits /\ OneLives /\ RecordedIsHeard
  BY DEF IInv
<1>1. WaitTypes'
  BY <1>0, ElicitationAssumption DEF Fetch, WaitTypes, AnswerTypes, callVars, waitVars, answerVars
<1>2. AnswerTypes'
  BY <1>0, ElicitationAssumption DEF Fetch, AnswerTypes, WaitTypes, QueueTypes, callVars, waitVars, answerVars
<1>3. QueueTypes'
  BY <1>0, ElicitationAssumption DEF Fetch, QueueTypes, callVars, waitVars, answerVars
<1>4. SeenIsSent'
  BY <1>0, ElicitationAssumption DEF Fetch, WaitTypes, AnswerTypes, QueueTypes, SeenIsSent, Sent, callVars, waitVars, answerVars
<1>5. AnswersSeen'
  BY <1>0, ElicitationAssumption DEF Fetch, AnswerTypes, AnswersSeen, callVars, waitVars, answerVars
<1>6. Claimed'
  BY <1>0, ElicitationAssumption DEF Fetch, WaitTypes, AnswerTypes, SeenIsSent, AnswersSeen, Claimed, Taken, Delivered, Open, Sent, callVars, waitVars, answerVars
<1>7. Taken'
  BY <1>0, ElicitationAssumption DEF Fetch, WaitTypes, AnswerTypes, SeenIsSent, AnswersSeen, Claimed, Taken, Delivered, Open, Sent, callVars, waitVars, answerVars
<1>8. Delivered'
  BY <1>0, ElicitationAssumption DEF Fetch, WaitTypes, AnswerTypes, AnswersSeen, SeenIsSent, Claimed, Taken, Delivered, OneLives, Open, Sent, callVars, waitVars, answerVars
<1>9. Waits'
  BY <1>0, ElicitationAssumption DEF Fetch, WaitTypes, AnswerTypes, AnswersSeen, SeenIsSent, Claimed, Taken, Delivered, Waits, OneLives, Open, Sent, callVars, waitVars, answerVars
<1>10. OneLives'
  BY <1>0, ElicitationAssumption DEF Fetch, WaitTypes, AnswerTypes, AnswersSeen, Claimed, Taken, OneLives, callVars, waitVars, answerVars
<1>11. RecordedIsHeard'
  BY <1>0, ElicitationAssumption DEF Fetch, WaitTypes, AnswerTypes, AnswersSeen, SeenIsSent, Claimed, Taken, Delivered, Waits, OneLives, RecordedIsHeard, Open, Sent, callVars, waitVars, answerVars
<1> QED  BY <1>1, <1>2, <1>3, <1>4, <1>5, <1>6, <1>7, <1>8, <1>9, <1>10, <1>11 DEF IInv

LEMMA ClaimKeeps ==
  ASSUME IInv, NEW a \in Answerers, Claim(a)
  PROVE  IInv'
<1>0. WaitTypes /\ AnswerTypes /\ QueueTypes /\ SeenIsSent /\ AnswersSeen /\ Claimed
      /\ Taken /\ Delivered /\ Waits /\ OneLives /\ RecordedIsHeard
  BY DEF IInv
<1>r. areq[a] \in Requests /\ areq[a] \in shown
  BY <1>0 DEF Claim, AnswersSeen, AnswerTypes
<1>c1. CASE mine[a] /\ tx[areq[a]] /\ Receiving(areq[a])
  <2>0. /\ apc[a] = "fetched" /\ lock[areq[a]] = None
        /\ apc' = [apc EXCEPT ![a] = "claimed"]
        /\ lock' = [lock EXCEPT ![areq[a]] = a]
        /\ UNCHANGED <<areq, shown, recorded, queue, wpc, tx, chan, outcome>>
    BY <1>0, <1>r, <1>c1 DEF Claim, callVars
  <2>1. WaitTypes'
    BY <1>0, <1>r, <1>c1, <2>0, ElicitationAssumption DEF WaitTypes, AnswerTypes, Receiving
  <2>2. AnswerTypes'
    BY <1>0, <1>r, <1>c1, <2>0, ElicitationAssumption DEF AnswerTypes, WaitTypes, QueueTypes, Receiving
  <2>3. QueueTypes'
    BY <1>0, <1>r, <1>c1, <2>0, ElicitationAssumption DEF QueueTypes, Receiving
  <2>4. SeenIsSent'
    BY <1>0, <1>r, <1>c1, <2>0, ElicitationAssumption DEF WaitTypes, AnswerTypes, QueueTypes, SeenIsSent, Sent, Receiving
  <2>5. AnswersSeen'
    BY <1>0, <1>r, <1>c1, <2>0, ElicitationAssumption DEF AnswerTypes, AnswersSeen, Receiving
  <2>6. Claimed'
    BY <1>0, <1>r, <1>c1, <2>0, ElicitationAssumption DEF WaitTypes, AnswerTypes, SeenIsSent, AnswersSeen, Claimed, Taken, Delivered, Open, Sent, Receiving
  <2>7. Taken'
    BY <1>0, <1>r, <1>c1, <2>0, ElicitationAssumption DEF WaitTypes, AnswerTypes, SeenIsSent, AnswersSeen, Claimed, Taken, Delivered, Open, Sent, Receiving
  <2>8. Delivered'
    BY <1>0, <1>r, <1>c1, <2>0, ElicitationAssumption DEF WaitTypes, AnswerTypes, AnswersSeen, SeenIsSent, Claimed, Taken, Delivered, OneLives, Open, Sent, Receiving
  <2>9. Waits'
    BY <1>0, <1>r, <1>c1, <2>0, ElicitationAssumption DEF WaitTypes, AnswerTypes, AnswersSeen, SeenIsSent, Claimed, Taken, Delivered, Waits, OneLives, Open, Sent, Receiving
  <2>10. OneLives'
    BY <1>0, <1>r, <1>c1, <2>0, ElicitationAssumption DEF WaitTypes, AnswerTypes, AnswersSeen, Claimed, Taken, OneLives, Receiving
  <2>11. RecordedIsHeard'
    BY <1>0, <1>r, <1>c1, <2>0, ElicitationAssumption DEF WaitTypes, AnswerTypes, AnswersSeen, SeenIsSent, Claimed, Taken, Delivered, Waits, OneLives, RecordedIsHeard, Open, Sent, Receiving
  <2> QED  BY <2>1, <2>2, <2>3, <2>4, <2>5, <2>6, <2>7, <2>8, <2>9, <2>10, <2>11 DEF IInv
<1>c2. CASE ~(mine[a] /\ tx[areq[a]] /\ Receiving(areq[a]))
  <2>0. /\ apc[a] = "fetched" /\ lock[areq[a]] = None
        /\ apc' = [apc EXCEPT ![a] = "refused"]
        /\ tx' = tx \/ tx' = [tx EXCEPT ![areq[a]] = FALSE]
        /\ UNCHANGED <<areq, lock, shown, recorded, queue, wpc, chan, outcome>>
    BY <1>0, <1>r, <1>c2 DEF Claim, callVars, WaitTypes
  <2>1. WaitTypes'
    BY <1>0, <1>r, <1>c2, <2>0, ElicitationAssumption DEF WaitTypes, AnswerTypes, Receiving
  <2>2. AnswerTypes'
    BY <1>0, <1>r, <1>c2, <2>0, ElicitationAssumption DEF AnswerTypes, WaitTypes, QueueTypes, Receiving
  <2>3. QueueTypes'
    BY <1>0, <1>r, <1>c2, <2>0, ElicitationAssumption DEF QueueTypes, Receiving
  <2>4. SeenIsSent'
    BY <1>0, <1>r, <1>c2, <2>0, ElicitationAssumption DEF WaitTypes, AnswerTypes, QueueTypes, SeenIsSent, Sent, Receiving
  <2>5. AnswersSeen'
    BY <1>0, <1>r, <1>c2, <2>0, ElicitationAssumption DEF AnswerTypes, AnswersSeen, Receiving
  <2>6. Claimed'
    BY <1>0, <1>r, <1>c2, <2>0, ElicitationAssumption DEF WaitTypes, AnswerTypes, SeenIsSent, AnswersSeen, Claimed, Taken, Delivered, Open, Sent, Receiving
  <2>7. Taken'
    BY <1>0, <1>r, <1>c2, <2>0, ElicitationAssumption DEF WaitTypes, AnswerTypes, SeenIsSent, AnswersSeen, Claimed, Taken, Delivered, Open, Sent, Receiving
  <2>8. Delivered'
    BY <1>0, <1>r, <1>c2, <2>0, ElicitationAssumption DEF WaitTypes, AnswerTypes, AnswersSeen, SeenIsSent, Claimed, Taken, Delivered, OneLives, Open, Sent, Receiving
  <2>9. Waits'
    BY <1>0, <1>r, <1>c2, <2>0, ElicitationAssumption DEF WaitTypes, AnswerTypes, AnswersSeen, SeenIsSent, Claimed, Taken, Delivered, Waits, OneLives, Open, Sent, Receiving
  <2>10. OneLives'
    BY <1>0, <1>r, <1>c2, <2>0, ElicitationAssumption DEF WaitTypes, AnswerTypes, AnswersSeen, Claimed, Taken, OneLives, Receiving
  <2>11. RecordedIsHeard'
    BY <1>0, <1>r, <1>c2, <2>0, ElicitationAssumption DEF WaitTypes, AnswerTypes, AnswersSeen, SeenIsSent, Claimed, Taken, Delivered, Waits, OneLives, RecordedIsHeard, Open, Sent, Receiving
  <2> QED  BY <2>1, <2>2, <2>3, <2>4, <2>5, <2>6, <2>7, <2>8, <2>9, <2>10, <2>11 DEF IInv
<1> QED  BY <1>c1, <1>c2

LEMMA RecordKeeps ==
  ASSUME IInv, NEW a \in Answerers, Record(a)
  PROVE  IInv'
<1>0. WaitTypes /\ AnswerTypes /\ QueueTypes /\ SeenIsSent /\ AnswersSeen /\ Claimed
      /\ Taken /\ Delivered /\ Waits /\ OneLives /\ RecordedIsHeard
  BY DEF IInv
<1>1. WaitTypes'
  BY <1>0, ElicitationAssumption DEF Record, WaitTypes, AnswerTypes, callVars, waitVars, answerVars
<1>2. AnswerTypes'
  BY <1>0, ElicitationAssumption DEF Record, AnswerTypes, WaitTypes, QueueTypes, callVars, waitVars, answerVars
<1>3. QueueTypes'
  BY <1>0, ElicitationAssumption DEF Record, QueueTypes, callVars, waitVars, answerVars
<1>4. SeenIsSent'
  BY <1>0, ElicitationAssumption DEF Record, WaitTypes, AnswerTypes, QueueTypes, SeenIsSent, Sent, callVars, waitVars, answerVars
<1>5. AnswersSeen'
  BY <1>0, ElicitationAssumption DEF Record, AnswerTypes, AnswersSeen, callVars, waitVars, answerVars
<1>6. Claimed'
  BY <1>0, ElicitationAssumption DEF Record, WaitTypes, AnswerTypes, SeenIsSent, AnswersSeen, Claimed, Taken, Delivered, Open, Sent, callVars, waitVars, answerVars
<1>7. Taken'
  BY <1>0, ElicitationAssumption DEF Record, WaitTypes, AnswerTypes, SeenIsSent, AnswersSeen, Claimed, Taken, Delivered, Open, Sent, callVars, waitVars, answerVars
<1>8. Delivered'
  BY <1>0, ElicitationAssumption DEF Record, WaitTypes, AnswerTypes, AnswersSeen, SeenIsSent, Claimed, Taken, Delivered, OneLives, Open, Sent, callVars, waitVars, answerVars
<1>9. Waits'
  BY <1>0, ElicitationAssumption DEF Record, WaitTypes, AnswerTypes, AnswersSeen, SeenIsSent, Claimed, Taken, Delivered, Waits, OneLives, Open, Sent, callVars, waitVars, answerVars
<1>10. OneLives'
  BY <1>0, ElicitationAssumption DEF Record, WaitTypes, AnswerTypes, AnswersSeen, Claimed, Taken, OneLives, callVars, waitVars, answerVars
<1>11. RecordedIsHeard'
  BY <1>0, ElicitationAssumption DEF Record, WaitTypes, AnswerTypes, AnswersSeen, SeenIsSent, Claimed, Taken, Delivered, Waits, OneLives, RecordedIsHeard, Open, Sent, callVars, waitVars, answerVars
<1> QED  BY <1>1, <1>2, <1>3, <1>4, <1>5, <1>6, <1>7, <1>8, <1>9, <1>10, <1>11 DEF IInv

LEMMA RecordFailsKeeps ==
  ASSUME IInv, NEW a \in Answerers, RecordFails(a)
  PROVE  IInv'
<1>0. WaitTypes /\ AnswerTypes /\ QueueTypes /\ SeenIsSent /\ AnswersSeen /\ Claimed
      /\ Taken /\ Delivered /\ Waits /\ OneLives /\ RecordedIsHeard
  BY DEF IInv
<1>1. WaitTypes'
  BY <1>0, ElicitationAssumption DEF RecordFails, WaitTypes, AnswerTypes, callVars, waitVars, answerVars
<1>2. AnswerTypes'
  BY <1>0, ElicitationAssumption DEF RecordFails, AnswerTypes, WaitTypes, QueueTypes, callVars, waitVars, answerVars
<1>3. QueueTypes'
  BY <1>0, ElicitationAssumption DEF RecordFails, QueueTypes, callVars, waitVars, answerVars
<1>4. SeenIsSent'
  BY <1>0, ElicitationAssumption DEF RecordFails, WaitTypes, AnswerTypes, QueueTypes, SeenIsSent, Sent, callVars, waitVars, answerVars
<1>5. AnswersSeen'
  BY <1>0, ElicitationAssumption DEF RecordFails, AnswerTypes, AnswersSeen, callVars, waitVars, answerVars
<1>6. Claimed'
  BY <1>0, ElicitationAssumption DEF RecordFails, WaitTypes, AnswerTypes, SeenIsSent, AnswersSeen, Claimed, Taken, Delivered, Open, Sent, callVars, waitVars, answerVars
<1>7. Taken'
  BY <1>0, ElicitationAssumption DEF RecordFails, WaitTypes, AnswerTypes, SeenIsSent, AnswersSeen, Claimed, Taken, Delivered, Open, Sent, callVars, waitVars, answerVars
<1>8. Delivered'
  BY <1>0, ElicitationAssumption DEF RecordFails, WaitTypes, AnswerTypes, AnswersSeen, SeenIsSent, Claimed, Taken, Delivered, OneLives, Open, Sent, callVars, waitVars, answerVars
<1>9. Waits'
  BY <1>0, ElicitationAssumption DEF RecordFails, WaitTypes, AnswerTypes, AnswersSeen, SeenIsSent, Claimed, Taken, Delivered, Waits, OneLives, Open, Sent, callVars, waitVars, answerVars
<1>10. OneLives'
  BY <1>0, ElicitationAssumption DEF RecordFails, WaitTypes, AnswerTypes, AnswersSeen, Claimed, Taken, OneLives, callVars, waitVars, answerVars
<1>11. RecordedIsHeard'
  BY <1>0, ElicitationAssumption DEF RecordFails, WaitTypes, AnswerTypes, AnswersSeen, SeenIsSent, Claimed, Taken, Delivered, Waits, OneLives, RecordedIsHeard, Open, Sent, callVars, waitVars, answerVars
<1> QED  BY <1>1, <1>2, <1>3, <1>4, <1>5, <1>6, <1>7, <1>8, <1>9, <1>10, <1>11 DEF IInv

LEMMA SubmitKeeps ==
  ASSUME IInv, NEW a \in Answerers, Submit(a)
  PROVE  IInv'
<1>0. WaitTypes /\ AnswerTypes /\ QueueTypes /\ SeenIsSent /\ AnswersSeen /\ Claimed
      /\ Taken /\ Delivered /\ Waits /\ OneLives /\ RecordedIsHeard
  BY DEF IInv
<1>1. WaitTypes'
  BY <1>0, ElicitationAssumption DEF Submit, WaitTypes, AnswerTypes, callVars, waitVars, answerVars
<1>2. AnswerTypes'
  BY <1>0, ElicitationAssumption DEF Submit, AnswerTypes, WaitTypes, QueueTypes, callVars, waitVars, answerVars
<1>3. QueueTypes'
  BY <1>0, ElicitationAssumption DEF Submit, QueueTypes, callVars, waitVars, answerVars
<1>4. SeenIsSent'
  BY <1>0, ElicitationAssumption DEF Submit, WaitTypes, AnswerTypes, QueueTypes, SeenIsSent, Sent, callVars, waitVars, answerVars
<1>5. AnswersSeen'
  BY <1>0, ElicitationAssumption DEF Submit, AnswerTypes, AnswersSeen, callVars, waitVars, answerVars
<1>6. Claimed'
  BY <1>0, ElicitationAssumption DEF Submit, WaitTypes, AnswerTypes, SeenIsSent, AnswersSeen, Claimed, Taken, Delivered, Open, Sent, callVars, waitVars, answerVars
<1>7. Taken'
  BY <1>0, ElicitationAssumption DEF Submit, WaitTypes, AnswerTypes, SeenIsSent, AnswersSeen, Claimed, Taken, Delivered, Open, Sent, callVars, waitVars, answerVars
<1>8. Delivered'
  BY <1>0, ElicitationAssumption DEF Submit, WaitTypes, AnswerTypes, AnswersSeen, SeenIsSent, Claimed, Taken, Delivered, OneLives, Open, Sent, callVars, waitVars, answerVars
<1>9. Waits'
  BY <1>0, ElicitationAssumption DEF Submit, WaitTypes, AnswerTypes, AnswersSeen, SeenIsSent, Claimed, Taken, Delivered, Waits, OneLives, Open, Sent, callVars, waitVars, answerVars
<1>10. OneLives'
  BY <1>0, ElicitationAssumption DEF Submit, WaitTypes, AnswerTypes, AnswersSeen, Claimed, Taken, OneLives, callVars, waitVars, answerVars
<1>11. RecordedIsHeard'
  BY <1>0, ElicitationAssumption DEF Submit, WaitTypes, AnswerTypes, AnswersSeen, SeenIsSent, Claimed, Taken, Delivered, Waits, OneLives, RecordedIsHeard, Open, Sent, callVars, waitVars, answerVars
<1> QED  BY <1>1, <1>2, <1>3, <1>4, <1>5, <1>6, <1>7, <1>8, <1>9, <1>10, <1>11 DEF IInv

LEMMA SendKeeps ==
  ASSUME IInv, NEW a \in Answerers, Send(a)
  PROVE  IInv'
<1>0. WaitTypes /\ AnswerTypes /\ QueueTypes /\ SeenIsSent /\ AnswersSeen /\ Claimed
      /\ Taken /\ Delivered /\ Waits /\ OneLives /\ RecordedIsHeard
  BY DEF IInv
<1>r. areq[a] \in Requests /\ areq[a] \in shown
  BY <1>0 DEF Send, AnswersSeen, AnswerTypes
<1>c1. CASE Receiving(areq[a])
  <2>0. /\ apc[a] = "sending"
        /\ chan' = [chan EXCEPT ![areq[a]] = a]
        /\ apc' = [apc EXCEPT ![a] = "accepted"]
        /\ UNCHANGED <<areq, lock, shown, recorded, queue, wpc, tx, outcome>>
    BY <1>0, <1>r, <1>c1 DEF Send, callVars
  <2>1. WaitTypes'
    BY <1>0, <1>r, <1>c1, <2>0, ElicitationAssumption DEF WaitTypes, AnswerTypes, Receiving
  <2>2. AnswerTypes'
    BY <1>0, <1>r, <1>c1, <2>0, ElicitationAssumption DEF AnswerTypes, WaitTypes, QueueTypes, Receiving
  <2>3. QueueTypes'
    BY <1>0, <1>r, <1>c1, <2>0, ElicitationAssumption DEF QueueTypes, Receiving
  <2>4. SeenIsSent'
    BY <1>0, <1>r, <1>c1, <2>0, ElicitationAssumption DEF WaitTypes, AnswerTypes, QueueTypes, SeenIsSent, Sent, Receiving
  <2>5. AnswersSeen'
    BY <1>0, <1>r, <1>c1, <2>0, ElicitationAssumption DEF AnswerTypes, AnswersSeen, Receiving
  <2>6. Claimed'
    BY <1>0, <1>r, <1>c1, <2>0, ElicitationAssumption DEF WaitTypes, AnswerTypes, SeenIsSent, AnswersSeen, Claimed, Taken, Delivered, Open, Sent, Receiving
  <2>7. Taken'
    BY <1>0, <1>r, <1>c1, <2>0, ElicitationAssumption DEF WaitTypes, AnswerTypes, SeenIsSent, AnswersSeen, Claimed, Taken, Delivered, Open, Sent, Receiving
  <2>8. Delivered'
    BY <1>0, <1>r, <1>c1, <2>0, ElicitationAssumption DEF WaitTypes, AnswerTypes, AnswersSeen, SeenIsSent, Claimed, Taken, Delivered, OneLives, Open, Sent, Receiving
  <2>9. Waits'
    BY <1>0, <1>r, <1>c1, <2>0, ElicitationAssumption DEF WaitTypes, AnswerTypes, AnswersSeen, SeenIsSent, Claimed, Taken, Delivered, Waits, OneLives, Open, Sent, Receiving
  <2>10. OneLives'
    BY <1>0, <1>r, <1>c1, <2>0, ElicitationAssumption DEF WaitTypes, AnswerTypes, AnswersSeen, Claimed, Taken, OneLives, Receiving
  <2>11. RecordedIsHeard'
    BY <1>0, <1>r, <1>c1, <2>0, ElicitationAssumption DEF WaitTypes, AnswerTypes, AnswersSeen, SeenIsSent, Claimed, Taken, Delivered, Waits, OneLives, RecordedIsHeard, Open, Sent, Receiving
  <2> QED  BY <2>1, <2>2, <2>3, <2>4, <2>5, <2>6, <2>7, <2>8, <2>9, <2>10, <2>11 DEF IInv
<1>c2. CASE ~Receiving(areq[a])
  <2>0. /\ apc[a] = "sending"
        /\ apc' = [apc EXCEPT ![a] = "refused"]
        /\ UNCHANGED <<areq, lock, shown, recorded, queue, wpc, tx, chan, outcome>>
    BY <1>0, <1>r, <1>c2 DEF Send, callVars
  <2>1. WaitTypes'
    BY <1>0, <1>r, <1>c2, <2>0, ElicitationAssumption DEF WaitTypes, AnswerTypes, Receiving
  <2>2. AnswerTypes'
    BY <1>0, <1>r, <1>c2, <2>0, ElicitationAssumption DEF AnswerTypes, WaitTypes, QueueTypes, Receiving
  <2>3. QueueTypes'
    BY <1>0, <1>r, <1>c2, <2>0, ElicitationAssumption DEF QueueTypes, Receiving
  <2>4. SeenIsSent'
    BY <1>0, <1>r, <1>c2, <2>0, ElicitationAssumption DEF WaitTypes, AnswerTypes, QueueTypes, SeenIsSent, Sent, Receiving
  <2>5. AnswersSeen'
    BY <1>0, <1>r, <1>c2, <2>0, ElicitationAssumption DEF AnswerTypes, AnswersSeen, Receiving
  <2>6. Claimed'
    BY <1>0, <1>r, <1>c2, <2>0, ElicitationAssumption DEF WaitTypes, AnswerTypes, SeenIsSent, AnswersSeen, Claimed, Taken, Delivered, Open, Sent, Receiving
  <2>7. Taken'
    BY <1>0, <1>r, <1>c2, <2>0, ElicitationAssumption DEF WaitTypes, AnswerTypes, SeenIsSent, AnswersSeen, Claimed, Taken, Delivered, Open, Sent, Receiving
  <2>8. Delivered'
    BY <1>0, <1>r, <1>c2, <2>0, ElicitationAssumption DEF WaitTypes, AnswerTypes, AnswersSeen, SeenIsSent, Claimed, Taken, Delivered, OneLives, Open, Sent, Receiving
  <2>9. Waits'
    BY <1>0, <1>r, <1>c2, <2>0, ElicitationAssumption DEF WaitTypes, AnswerTypes, AnswersSeen, SeenIsSent, Claimed, Taken, Delivered, Waits, OneLives, Open, Sent, Receiving
  <2>10. OneLives'
    BY <1>0, <1>r, <1>c2, <2>0, ElicitationAssumption DEF WaitTypes, AnswerTypes, AnswersSeen, Claimed, Taken, OneLives, Receiving
  <2>11. RecordedIsHeard'
    BY <1>0, <1>r, <1>c2, <2>0, ElicitationAssumption DEF WaitTypes, AnswerTypes, AnswersSeen, SeenIsSent, Claimed, Taken, Delivered, Waits, OneLives, RecordedIsHeard, Open, Sent, Receiving
  <2> QED  BY <2>1, <2>2, <2>3, <2>4, <2>5, <2>6, <2>7, <2>8, <2>9, <2>10, <2>11 DEF IInv
<1> QED  BY <1>c1, <1>c2

LEMMA DropHandlerKeeps ==
  ASSUME IInv, NEW a \in Answerers, DropHandler(a)
  PROVE  IInv'
<1>0. WaitTypes /\ AnswerTypes /\ QueueTypes /\ SeenIsSent /\ AnswersSeen /\ Claimed
      /\ Taken /\ Delivered /\ Waits /\ OneLives /\ RecordedIsHeard
  BY DEF IInv
<1>r. areq[a] \in Requests /\ areq[a] \in shown
  BY <1>0 DEF DropHandler, AnswersSeen, AnswerTypes
<1>c1. CASE apc[a] = "fetched"
  <2>0. /\ apc[a] = "fetched"
        /\ apc' = [apc EXCEPT ![a] = "dropped"]
        /\ UNCHANGED <<areq, lock, shown, recorded, queue, wpc, tx, chan, outcome>>
    BY <1>c1 DEF DropHandler, callVars, waitVars
  <2>1. WaitTypes'
    BY <1>0, <1>r, <2>0, ElicitationAssumption DEF WaitTypes, AnswerTypes
  <2>2. AnswerTypes'
    BY <1>0, <1>r, <2>0, ElicitationAssumption DEF AnswerTypes, WaitTypes, QueueTypes
  <2>3. QueueTypes'
    BY <1>0, <1>r, <2>0, ElicitationAssumption DEF QueueTypes
  <2>4. SeenIsSent'
    BY <1>0, <1>r, <2>0, ElicitationAssumption DEF WaitTypes, AnswerTypes, QueueTypes, SeenIsSent, Sent
  <2>5. AnswersSeen'
    BY <1>0, <1>r, <2>0, ElicitationAssumption DEF AnswerTypes, AnswersSeen
  <2>6. Claimed'
    BY <1>0, <1>r, <2>0, ElicitationAssumption DEF WaitTypes, AnswerTypes, SeenIsSent, AnswersSeen, Claimed, Taken, Delivered, Open, Sent
  <2>7. Taken'
    BY <1>0, <1>r, <2>0, ElicitationAssumption DEF WaitTypes, AnswerTypes, SeenIsSent, AnswersSeen, Claimed, Taken, Delivered, Open, Sent
  <2>8. Delivered'
    BY <1>0, <1>r, <2>0, ElicitationAssumption DEF WaitTypes, AnswerTypes, AnswersSeen, SeenIsSent, Claimed, Taken, Delivered, OneLives, Open, Sent
  <2>9. Waits'
    BY <1>0, <1>r, <2>0, ElicitationAssumption DEF WaitTypes, AnswerTypes, AnswersSeen, SeenIsSent, Claimed, Taken, Delivered, Waits, OneLives, Open, Sent
  <2>10. OneLives'
    BY <1>0, <1>r, <2>0, ElicitationAssumption DEF WaitTypes, AnswerTypes, AnswersSeen, Claimed, Taken, OneLives
  <2>11. RecordedIsHeard'
    BY <1>0, <1>r, <2>0, ElicitationAssumption DEF WaitTypes, AnswerTypes, AnswersSeen, SeenIsSent, Claimed, Taken, Delivered, Waits, OneLives, RecordedIsHeard, Open, Sent
  <2> QED  BY <2>1, <2>2, <2>3, <2>4, <2>5, <2>6, <2>7, <2>8, <2>9, <2>10, <2>11 DEF IInv
<1>c2. CASE apc[a] = "claimed"
  <2>0. /\ apc[a] = "claimed"
        /\ apc' = [apc EXCEPT ![a] = "dropped"]
        /\ lock' = [lock EXCEPT ![areq[a]] = None]
        /\ recorded' = recorded \/ recorded' = recorded \cup {a}
        /\ UNCHANGED <<areq, shown, queue, wpc, tx, chan, outcome>>
    BY <1>c2 DEF DropHandler, callVars, waitVars
  <2>1. WaitTypes'
    BY <1>0, <1>r, <2>0, ElicitationAssumption DEF WaitTypes, AnswerTypes
  <2>2. AnswerTypes'
    BY <1>0, <1>r, <2>0, ElicitationAssumption DEF AnswerTypes, WaitTypes, QueueTypes
  <2>3. QueueTypes'
    BY <1>0, <1>r, <2>0, ElicitationAssumption DEF QueueTypes
  <2>4. SeenIsSent'
    BY <1>0, <1>r, <2>0, ElicitationAssumption DEF WaitTypes, AnswerTypes, QueueTypes, SeenIsSent, Sent
  <2>5. AnswersSeen'
    BY <1>0, <1>r, <2>0, ElicitationAssumption DEF AnswerTypes, AnswersSeen
  <2>6. Claimed'
    BY <1>0, <1>r, <2>0, ElicitationAssumption DEF WaitTypes, AnswerTypes, SeenIsSent, AnswersSeen, Claimed, Taken, Delivered, Open, Sent
  <2>7. Taken'
    BY <1>0, <1>r, <2>0, ElicitationAssumption DEF WaitTypes, AnswerTypes, SeenIsSent, AnswersSeen, Claimed, Taken, Delivered, Open, Sent
  <2>8. Delivered'
    BY <1>0, <1>r, <2>0, ElicitationAssumption DEF WaitTypes, AnswerTypes, AnswersSeen, SeenIsSent, Claimed, Taken, Delivered, OneLives, Open, Sent
  <2>9. Waits'
    BY <1>0, <1>r, <2>0, ElicitationAssumption DEF WaitTypes, AnswerTypes, AnswersSeen, SeenIsSent, Claimed, Taken, Delivered, Waits, OneLives, Open, Sent
  <2>10. OneLives'
    BY <1>0, <1>r, <2>0, ElicitationAssumption DEF WaitTypes, AnswerTypes, AnswersSeen, Claimed, Taken, OneLives
  <2>11. RecordedIsHeard'
    BY <1>0, <1>r, <2>0, ElicitationAssumption DEF WaitTypes, AnswerTypes, AnswersSeen, SeenIsSent, Claimed, Taken, Delivered, Waits, OneLives, RecordedIsHeard, Open, Sent
  <2> QED  BY <2>1, <2>2, <2>3, <2>4, <2>5, <2>6, <2>7, <2>8, <2>9, <2>10, <2>11 DEF IInv
<1> QED  BY <1>c1, <1>c2 DEF DropHandler

-----------------------------------------------------------------------------
LEMMA StepKeeps == IInv /\ [Next]_vars => IInv'
<1> SUFFICES ASSUME IInv, [Next]_vars PROVE IInv'
  OBVIOUS
<1>1. ASSUME NEW d \in Dispatches, CallStep(d) PROVE IInv'
  <2>1. CASE CheckStream(d)
    BY <2>1, FrameKeeps DEF CheckStream, waitVars, answerVars
  <2>2. CASE RegisterStream(d)
    BY <2>2, FrameKeeps DEF RegisterStream, waitVars, answerVars
  <2>3. CASE Call(d)
    BY <2>3, FrameKeeps DEF Call, waitVars, answerVars
  <2>4. CASE Return(d)
    BY <2>4, FrameKeeps DEF Return, waitVars, answerVars
  <2>5. CASE Unregister(d)
    BY <2>5, FrameKeeps DEF Unregister, waitVars, answerVars
  <2> QED  BY <1>1, <2>1, <2>2, <2>3, <2>4, <2>5, DropCallKeeps, ShowKeeps DEF CallStep
<1>2. ASSUME NEW r \in Requests, WaitStep(r) PROVE IInv'
  BY <1>2, AskKeeps, LookUpKeeps, InsertKeeps, TrySendKeeps, ReceiveKeeps,
     DeadlineKeeps, GiveUpKeeps, RemoveKeeps, DropWaitKeeps DEF WaitStep
<1>3. ASSUME NEW a \in Answerers, AnswerStep(a) PROVE IInv'
  <2>1. CASE \E r \in Requests, own \in BOOLEAN : Fetch(a, r, own)
    BY <2>1, FetchKeeps
  <2> QED  BY <1>3, <2>1, ClaimKeeps, RecordKeeps, RecordFailsKeeps, SubmitKeeps,
              SendKeeps, DropHandlerKeeps DEF AnswerStep
<1>4. CASE UNCHANGED vars
  BY <1>4, FrameKeeps DEF vars, callVars, waitVars, answerVars
<1> QED  BY <1>1, <1>2, <1>3, <1>4 DEF Next

LEMMA InitHolds == Init => IInv
BY ElicitationAssumption
   DEF Init, IInv, WaitTypes, AnswerTypes, QueueTypes, SeenIsSent, AnswersSeen, Claimed,
       Taken, Delivered, Waits, OneLives, RecordedIsHeard, Sent, Open

LEMMA InvariantHolds == Spec => []IInv
BY InitHolds, StepKeeps, PTL DEF Spec

\* A handler that writes still has the claim, and with it the sender that every
\* other handler which wrote, and was not dropped over it, has taken.
LEMMA RecordsAlone ==
  ASSUME IInv, [Next]_vars, NEW a \in recorded' \ recorded, NEW b \in recorded,
         areq[a] = areq[b]
  PROVE  apc[b] = "dropped"
<1>1. a \in Answerers /\ apc[a] = "claimed"
  <2>1. ASSUME NEW c \in Answerers, AnswerStep(c), recorded' # recorded
        PROVE  recorded' \subseteq recorded \cup {c} /\ apc[c] = "claimed"
    BY <2>1 DEF AnswerStep, Fetch, Claim, Record, RecordFails, Submit, Send, DropHandler
  <2>2. ASSUME NEW d \in Dispatches, CallStep(d) PROVE recorded' = recorded
    BY <2>2 DEF CallStep, CheckStream, RegisterStream, Call, Return, DropCall, Unregister,
                Show, answerVars
  <2>3. ASSUME NEW r \in Requests, WaitStep(r) PROVE recorded' = recorded
    BY <2>3 DEF WaitStep, Ask, LookUp, Insert, TrySend, Receive, Deadline, GiveUp, Remove,
                DropWait, answerVars
  <2>4. UNCHANGED vars => recorded' = recorded
    BY DEF vars, answerVars
  <2> QED  BY <2>1, <2>2, <2>3, <2>4 DEF Next
<1>2. lock[areq[a]] = a /\ tx[areq[a]]
  BY <1>1 DEF IInv, Claimed
<1>3. b \in Answerers /\ (apc[b] \notin {"recorded", "dropped"} => ~tx[areq[b]])
  BY DEF IInv, Taken, AnswerTypes
<1>4. apc[b] # "recorded"
  BY <1>1, <1>2, <1>3 DEF IInv, Claimed
<1> QED  BY <1>2, <1>3, <1>4

\* However many handlers race for an elicitation, complete_elicitation_with_message
\* writes a second answer only after every earlier one's handler was dropped in
\* add_message.
THEOREM OneAnswer == Spec => OneAnswerRecorded
<1>1. IInv /\ [Next]_vars =>
        [\A a \in recorded' \ recorded, b \in recorded :
            areq[a] = areq[b] => apc[b] = "dropped"]_vars
  BY RecordsAlone
<1> QED  BY InvariantHolds, <1>1, PTL DEF Spec, OneAnswerRecorded

\* The answer written to the conversation is what request_and_wait returns, unless
\* its handler was dropped before it handed it over.
THEOREM Heard == Spec => []RecordedIsHeard
<1>1. IInv => RecordedIsHeard
  BY DEF IInv
<1> QED  BY InvariantHolds, <1>1, PTL

\* A handler that reports failure has recorded and delivered nothing, unless the
\* waiter was dropped under it.
THEOREM NoTrace == Spec => []RefusedLeavesNoTrace
<1>1. ASSUME IInv, NEW a \in Answerers, apc[a] = "refused", areq[a] # None
      PROVE  outcome[areq[a]] # a /\ (wpc[areq[a]] # "dropped" => a \notin recorded)
  <2>1. areq[a] \in Requests /\ a # None
    BY <1>1, ElicitationAssumption DEF IInv, AnswerTypes
  <2>2. outcome[areq[a]] # a
    BY <1>1, <2>1 DEF IInv, Delivered
  <2>3. wpc[areq[a]] # "dropped" => a \notin recorded
    BY <1>1 DEF IInv, Waits
  <2> QED  BY <2>2, <2>3
<1>2. IInv => RefusedLeavesNoTrace
  BY <1>1 DEF RefusedLeavesNoTrace
<1> QED  BY InvariantHolds, <1>2, PTL
-----------------------------------------------------------------------------
(* Tool calls and their streams.  As long as no other dispatch of a call   *)
(* id has had a stream, the first one registers its own before anything    *)
(* can be nested in it, and what is nested finds that stream until it is   *)
(* dropped: so the entry of the id is that dispatch's while it is open.    *)

CallTypes ==
  /\ dpc \in [Dispatches -> {"new", "absent", "ready", "running", "returning", "ended"}]
  /\ stream \in [Dispatches -> {"none", "open", "dropped"}]
  /\ unreg \subseteq Dispatches /\ working \subseteq Dispatches
  /\ senders \in [CallIds -> Dispatches \cup {None}]
  /\ active \in Seq(Dispatches)

RestTypes ==
  /\ call \in [Requests -> CallIds \cup {None}]
  /\ via \in [Requests -> Dispatches \cup {None}]
  /\ pending \subseteq Requests
  /\ mine \in [Answerers -> BOOLEAN]
  /\ \A r \in Requests : wpc[r] = "asked" => call[r] \in CallIds

UnregDropped == \A d \in unreg : stream[d] = "dropped"

NoneYet == \A d \in Dispatches : ~Begun(d) => stream[d] = "none"

NestedLater ==
  \A e \in Dispatches : Outer[e] # None /\ dpc[e] # "new" => Begun(Outer[e])

\* A registered sender is of the id's own, and its stream open or about to be
\* unregistered.
SendersLive ==
  \A c \in CallIds : senders[c] # None =>
     /\ CallOf[senders[c]] = c
     /\ stream[senders[c]] = "open" \/ senders[c] \in unreg

\* No dispatch of d's id but those nested in d has had a stream.
Alone(d) ==
  \A e \in Dispatches \ {d} : CallOf[e] = CallOf[d] /\ Outer[e] # d => stream[e] = "none"

Settled(d) ==
  /\ Begun(d) => stream[d] # "none"
  /\ stream[d] = "open" =>
        /\ senders[CallOf[d]] = d
        /\ \A e \in Dispatches : Outer[e] = d => dpc[e] # "absent" /\ stream[e] = "none"

OwnStreams == \A d \in Dispatches : Outer[d] = None /\ Alone(d) => Settled(d)

CallInv ==
  CallTypes /\ UnregDropped /\ NoneYet /\ NestedLater /\ SendersLive /\ OwnStreams

\* Leaving one entry out of a sequence gives a sequence.
LEMMA OneLeftOut ==
  ASSUME NEW S, NEW s \in Seq(S), NEW i \in 1..Len(s)
  PROVE  SubSeq(s, 1, i - 1) \o SubSeq(s, i + 1, Len(s)) \in Seq(S)
<1>1. Len(s) \in Nat /\ \A k \in 1..Len(s) : s[k] \in S
  OBVIOUS
<1>2. SubSeq(s, 1, i - 1) \in Seq(S)
  <2>1. 1 \in Int /\ i - 1 \in Int /\ \A k \in 1..(i - 1) : s[k] \in S
    BY <1>1
  <2> QED  BY <2>1, SubSeqProperties
<1>3. SubSeq(s, i + 1, Len(s)) \in Seq(S)
  <2>1. i + 1 \in Int /\ Len(s) \in Int /\ \A k \in (i + 1)..Len(s) : s[k] \in S
    BY <1>1
  <2> QED  BY <2>1, SubSeqProperties
<1> QED  BY <1>2, <1>3, ConcatProperties

\* A set of numbers that is not empty has a least one.
LEMMA LeastNumber ==
  ASSUME NEW T, T \subseteq Nat, T # {}
  PROVE  \E m \in T : \A k \in T : m <= k
<1>1. PICK m \in T : \A k \in T : ~(<<k, m>> \in OpToRel(<, Nat))
  BY NatLessThanWellFounded, WFMin
<1>2. \A k \in T : k < m => <<k, m>> \in OpToRel(<, Nat)
  BY DEF OpToRel
<1>3. \A k \in T : ~(k < m)
  BY <1>1, <1>2, Zenon
<1> QED  BY <1>3

\* ActiveToolCallGuard::drop leaves a sequence of dispatches.
LEMMA WithoutActiveType ==
  ASSUME NEW s \in Seq(Dispatches), NEW c
  PROVE  WithoutActive(s, c) \in Seq(Dispatches)
<1> DEFINE First(j) == CallOf[s[j]] = c /\ \A k \in 1..(j - 1) : CallOf[s[k]] # c
           T == {j \in 1..Len(s) : CallOf[s[j]] = c}
<1>1. CASE T = {}
  BY <1>1 DEF WithoutActive
<1>2. CASE T # {}
  <2>1. T \subseteq Nat
    OBVIOUS
  <2>2. PICK m \in T : \A k \in T : m <= k
    BY <1>2, <2>1, LeastNumber
  <2>3. m \in 1..Len(s) /\ First(m)
    BY <2>2
  <2> DEFINE i == CHOOSE j \in 1..Len(s) : First(j)
  <2>4. i \in 1..Len(s)
    BY <2>3
  <2>5. WithoutActive(s, c) = SubSeq(s, 1, i - 1) \o SubSeq(s, i + 1, Len(s))
    BY <2>3 DEF WithoutActive
  <2> QED  BY <2>4, <2>5, OneLeftOut
<1> QED  BY <1>1, <1>2

LEMMA CallFrame ==
  ASSUME CallInv, UNCHANGED <<dpc, stream, unreg, senders, active, working>>
  PROVE  CallInv'
BY DEF CallInv, CallTypes, UnregDropped, NoneYet, NestedLater, SendersLive, OwnStreams,
       Alone, Settled, Begun

\* Before d has begun nothing of its id is registered, if it is alone.
LEMMA NothingRegistered ==
  ASSUME CallInv, NEW d \in Dispatches, Outer[d] = None, Alone(d), ~Begun(d)
  PROVE  /\ senders[CallOf[d]] = None
         /\ \A e \in Dispatches : Outer[e] = d => dpc[e] = "new" /\ stream[e] = "none"
<1>1. \A e \in Dispatches : Outer[e] = d => dpc[e] = "new" /\ stream[e] = "none"
  BY ElicitationAssumption DEF CallInv, NestedLater, NoneYet, Begun
<1>2. stream[d] = "none" /\ CallOf[d] \in CallIds
  BY ElicitationAssumption DEF CallInv, NoneYet
<1>3. \A e \in Dispatches : CallOf[e] = CallOf[d] => stream[e] = "none"
  BY <1>1, <1>2 DEF Alone
<1>4. senders[CallOf[d]] \in Dispatches \cup {None}
  BY <1>2 DEF CallInv, CallTypes
<1>5. ASSUME senders[CallOf[d]] \in Dispatches, senders[CallOf[d]] # None PROVE FALSE
  BY <1>2, <1>3, <1>5 DEF CallInv, SendersLive, UnregDropped
<1> QED  BY <1>1, <1>4, <1>5

LEMMA CheckStreamKeeps ==
  ASSUME CallInv, NEW d \in Dispatches, CheckStream(d)
  PROVE  CallInv'
<1>0. /\ CallTypes /\ UnregDropped /\ NoneYet /\ NestedLater /\ SendersLive /\ OwnStreams
      /\ dpc[d] = "new" /\ (Outer[d] # None => Begun(Outer[d]))
      /\ dpc' = [dpc EXCEPT ![d] = IF senders[CallOf[d]] # None THEN "ready" ELSE "absent"]
      /\ UNCHANGED <<stream, unreg, senders, active, working>>
  BY DEF CallInv, CheckStream
<1>1. CallTypes' /\ UnregDropped' /\ SendersLive'
  BY <1>0 DEF CallTypes, UnregDropped, SendersLive
<1>2. NoneYet'
  BY <1>0 DEF CallTypes, NoneYet, Begun
<1>3. NestedLater'
  BY <1>0, ElicitationAssumption DEF CallTypes, NestedLater, Begun
<1>4. ASSUME NEW x \in Dispatches, Outer[x] = None, Alone(x)' PROVE Settled(x)'
  <2>1. Alone(x)
    BY <1>0, <1>4 DEF Alone
  <2>2. Settled(x)
    BY <1>0, <1>4, <2>1 DEF OwnStreams
  <2>3. CASE x = d
    <3>1. senders[CallOf[d]] = None /\ stream[d] = "none"
      BY <1>0, <1>4, <2>1, <2>3, NothingRegistered DEF Begun, NoneYet
    <3> QED  BY <1>0, <2>3, <3>1 DEF Settled, Begun, CallTypes
  <2>4. CASE x # d
    <3>1. Begun(x)' = Begun(x)
      BY <1>0, <2>4 DEF CallTypes, Begun
    <3>2. ASSUME stream[x] = "open", NEW e \in Dispatches, Outer[e] = x
          PROVE  dpc'[e] # "absent" /\ stream[e] = "none"
      <4>1. dpc[e] # "absent" /\ stream[e] = "none" /\ senders[CallOf[x]] = x
        BY <2>2, <3>2 DEF Settled
      <4>2. CallOf[e] = CallOf[x] /\ x # None
        BY <3>2, ElicitationAssumption
      <4> QED  BY <1>0, <4>1, <4>2 DEF CallTypes
    <3> QED  BY <1>0, <2>2, <3>1, <3>2 DEF Settled
  <2> QED  BY <2>3, <2>4
<1>5. OwnStreams'
  BY <1>4 DEF OwnStreams
<1> QED  BY <1>1, <1>2, <1>3, <1>5 DEF CallInv

LEMMA RegisterStreamKeeps ==
  ASSUME CallInv, NEW d \in Dispatches, RegisterStream(d)
  PROVE  CallInv'
<1>0. /\ CallTypes /\ UnregDropped /\ NoneYet /\ NestedLater /\ SendersLive /\ OwnStreams
      /\ dpc[d] = "absent"
      /\ dpc' = [dpc EXCEPT ![d] = "ready"]
      /\ stream' = [stream EXCEPT ![d] = "open"]
      /\ senders' = [senders EXCEPT ![CallOf[d]] = d]
      /\ UNCHANGED <<unreg, active, working>>
  BY DEF CallInv, RegisterStream
<1>r. CallOf[d] \in CallIds /\ d # None /\ stream[d] = "none" /\ ~Begun(d)
  BY <1>0, ElicitationAssumption DEF NoneYet, Begun
<1>1. CallTypes' /\ UnregDropped'
  BY <1>0, <1>r DEF CallTypes, UnregDropped
<1>2. NoneYet'
  BY <1>0 DEF CallTypes, NoneYet, Begun
<1>3. NestedLater'
  BY <1>0, ElicitationAssumption DEF CallTypes, NestedLater, Begun
<1>4. SendersLive'
  <2>1. ASSUME NEW c \in CallIds, senders'[c] # None
        PROVE  CallOf[senders'[c]] = c
               /\ (stream'[senders'[c]] = "open" \/ senders'[c] \in unreg)
    <3>1. CASE c = CallOf[d]
      BY <1>0, <1>r, <3>1 DEF CallTypes
    <3>2. CASE c # CallOf[d]
      BY <1>0, <2>1, <3>2 DEF CallTypes, SendersLive
    <3> QED  BY <3>1, <3>2
  <2> QED  BY <1>0, <2>1 DEF SendersLive
<1>5. ASSUME NEW x \in Dispatches, Outer[x] = None, Alone(x)' PROVE Settled(x)'
  <2>1. Alone(x)
    BY <1>0, <1>r, <1>5 DEF Alone, CallTypes
  <2>2. Settled(x)
    BY <1>0, <1>5, <2>1 DEF OwnStreams
  <2>3. CASE x = d
    <3>1. \A e \in Dispatches : Outer[e] = d => dpc[e] = "new" /\ stream[e] = "none"
      BY <1>r, <1>5, <2>1, <2>3, NothingRegistered
    <3>2. \A e \in Dispatches : Outer[e] = d => dpc'[e] # "absent" /\ stream'[e] = "none"
      BY <1>0, <1>r, <1>5, <2>3, <3>1, ElicitationAssumption DEF CallTypes
    <3> QED  BY <1>0, <1>r, <2>3, <3>2 DEF Settled, CallTypes
  <2>4. CASE x # d
    <3>1. Begun(x)' = Begun(x) /\ stream'[x] = stream[x]
      BY <1>0, <2>4 DEF CallTypes, Begun
    <3>2. stream'[d] = "open"
      BY <1>0 DEF CallTypes
    <3>3. stream[x] = "open" => Outer[d] # x
      BY <1>0, <2>2 DEF Settled
    <3>4. stream[x] = "open" => CallOf[d] # CallOf[x]
      BY <1>5, <2>4, <3>2, <3>3 DEF Alone
    <3>5. stream[x] = "open" =>
            /\ senders'[CallOf[x]] = x
            /\ \A e \in Dispatches : Outer[e] = x => dpc'[e] # "absent" /\ stream'[e] = "none"
      BY <1>0, <2>2, <3>3, <3>4, ElicitationAssumption DEF Settled, CallTypes
    <3> QED  BY <2>2, <3>1, <3>5 DEF Settled
  <2> QED  BY <2>3, <2>4
<1>6. OwnStreams'
  BY <1>5 DEF OwnStreams
<1> QED  BY <1>1, <1>2, <1>3, <1>4, <1>6 DEF CallInv

\* Call and Return: d has begun, and goes on.
LEMMA GoesOnKeeps ==
  ASSUME CallInv, CallTypes', NEW d \in Dispatches, Begun(d), Begun(d)',
         \A e \in Dispatches \ {d} : dpc'[e] = dpc[e],
         UNCHANGED <<stream, unreg, senders>>
  PROVE  CallInv'
<1>0. UnregDropped /\ NoneYet /\ NestedLater /\ SendersLive /\ OwnStreams
  BY DEF CallInv
<1>1. \A e \in Dispatches : Begun(e)' = Begun(e)
  BY Zenon DEF Begun
<1>2. UnregDropped' /\ NoneYet' /\ SendersLive'
  BY <1>0, <1>1 DEF UnregDropped, NoneYet, SendersLive
<1>3. NestedLater'
  BY <1>0, <1>1, ElicitationAssumption DEF NestedLater, Begun
<1>4. \A e \in Dispatches : dpc[e] # "absent" => dpc'[e] # "absent"
  BY DEF Begun
<1>5. OwnStreams'
  BY <1>0, <1>1, <1>4 DEF OwnStreams, Alone, Settled
<1> QED  BY <1>2, <1>3, <1>5 DEF CallInv

LEMMA DropStreamKeeps ==
  ASSUME CallInv, NEW d \in Dispatches, DropCall(d)
  PROVE  CallInv'
<1>0. /\ CallTypes /\ UnregDropped /\ NoneYet /\ NestedLater /\ SendersLive /\ OwnStreams
      /\ dpc[d] \in {"ready", "running", "returning"}
      /\ dpc' = [dpc EXCEPT ![d] = "ended"]
      /\ stream' = [stream EXCEPT ![d] = IF @ = "open" THEN "dropped" ELSE @]
      /\ unreg' = IF stream[d] = "open" THEN unreg \cup {d} ELSE unreg
      /\ UNCHANGED <<senders, working>>
  BY DEF CallInv, DropCall, Running
<1>1. active' \in Seq(Dispatches)
  BY <1>0, WithoutActiveType DEF DropCall, CallTypes
<1>2. CallTypes'
  BY <1>0, <1>1 DEF CallTypes
<1>3. UnregDropped' /\ NoneYet'
  BY <1>0 DEF CallTypes, UnregDropped, NoneYet, Begun
<1>4. NestedLater'
  BY <1>0, ElicitationAssumption DEF CallTypes, NestedLater, Begun
<1>5. SendersLive'
  BY <1>0 DEF CallTypes, SendersLive
<1>6. ASSUME NEW x \in Dispatches, Outer[x] = None, Alone(x)' PROVE Settled(x)'
  <2>1. Alone(x)
    BY <1>0, <1>6 DEF Alone, CallTypes
  <2>2. Settled(x)
    BY <1>0, <1>6, <2>1 DEF OwnStreams
  <2> QED  BY <1>0, <2>2 DEF Settled, Begun, CallTypes
<1>7. OwnStreams'
  BY <1>6 DEF OwnStreams
<1> QED  BY <1>2, <1>3, <1>4, <1>5, <1>7 DEF CallInv

LEMMA UnregisterKeeps ==
  ASSUME CallInv, NEW d \in Dispatches, Unregister(d)
  PROVE  CallInv'
<1>0. /\ CallTypes /\ UnregDropped /\ NoneYet /\ NestedLater /\ SendersLive /\ OwnStreams
      /\ d \in unreg
      /\ unreg' = unreg \ {d}
      /\ senders' = [senders EXCEPT ![CallOf[d]] = None]
      /\ UNCHANGED <<dpc, stream, active, working>>
  BY DEF CallInv, Unregister
<1>r. CallOf[d] \in CallIds /\ stream[d] = "dropped"
  BY <1>0, ElicitationAssumption DEF UnregDropped
<1>1. CallTypes' /\ UnregDropped' /\ NoneYet' /\ NestedLater'
  BY <1>0 DEF CallTypes, UnregDropped, NoneYet, NestedLater, Begun
<1>2. SendersLive'
  BY <1>0, <1>r DEF CallTypes, SendersLive
<1>3. ASSUME NEW x \in Dispatches, Outer[x] = None, Alone(x)' PROVE Settled(x)'
  <2>1. Alone(x)
    BY <1>0, <1>3 DEF Alone
  <2>2. Settled(x)
    BY <1>0, <1>3, <2>1 DEF OwnStreams
  <2>3. stream[x] = "open" => CallOf[d] # CallOf[x]
    BY <1>r, <2>1, <2>2 DEF Settled, Alone
  <2> QED  BY <1>0, <2>2, <2>3, ElicitationAssumption DEF Settled, Begun, CallTypes
<1>4. OwnStreams'
  BY <1>3 DEF OwnStreams
<1> QED  BY <1>1, <1>2, <1>4 DEF CallInv

LEMMA CallStepKeeps ==
  ASSUME CallInv, NEW d \in Dispatches, CallStep(d)
  PROVE  CallInv'
<1>0. CallTypes
  BY DEF CallInv
<1>1. CASE Call(d)
  <2>1. CallTypes'
    BY <1>0, <1>1 DEF Call, CallTypes
  <2>2. Begun(d) /\ Begun(d)'
    BY <1>0, <1>1 DEF Call, CallTypes, Begun
  <2>3. UNCHANGED <<stream, unreg, senders>> /\ \A e \in Dispatches \ {d} : dpc'[e] = dpc[e]
    BY <1>0, <1>1 DEF Call, CallTypes
  <2> QED  BY <2>1, <2>2, <2>3, GoesOnKeeps
<1>2. CASE Return(d)
  <2>1. active' \in Seq(Dispatches)
    BY <1>0, <1>2, WithoutActiveType DEF Return, CallTypes
  <2>2. CallTypes'
    BY <1>0, <1>2, <2>1 DEF Return, CallTypes
  <2>3. Begun(d) /\ Begun(d)'
    BY <1>0, <1>2 DEF Return, CallTypes, Begun
  <2>4. UNCHANGED <<stream, unreg, senders>> /\ \A e \in Dispatches \ {d} : dpc'[e] = dpc[e]
    BY <1>0, <1>2 DEF Return, CallTypes
  <2> QED  BY <2>2, <2>3, <2>4, GoesOnKeeps
<1>3. CASE Show(d)
  BY <1>3, CallFrame DEF Show
<1> QED  BY <1>1, <1>2, <1>3, CheckStreamKeeps, RegisterStreamKeeps, DropStreamKeeps,
            UnregisterKeeps DEF CallStep

LEMMA CallInvStep == CallInv /\ [Next]_vars => CallInv'
<1> SUFFICES ASSUME CallInv, [Next]_vars PROVE CallInv'
  OBVIOUS
<1>1. ASSUME NEW r \in Requests, WaitStep(r) PROVE CallInv'
  <2>1. UNCHANGED <<dpc, stream, unreg, senders, active, working>>
    BY <1>1 DEF WaitStep, Ask, LookUp, Insert, TrySend, Receive, Deadline, GiveUp, Remove,
                DropWait, callVars
  <2> QED  BY <2>1, CallFrame
<1>2. ASSUME NEW a \in Answerers, AnswerStep(a) PROVE CallInv'
  <2>1. UNCHANGED <<dpc, stream, unreg, senders, active, working>>
    BY <1>2 DEF AnswerStep, Fetch, Claim, Record, RecordFails, Submit, Send, DropHandler, callVars
  <2> QED  BY <2>1, CallFrame
<1>3. CASE UNCHANGED vars
  BY <1>3, CallFrame DEF vars, callVars
<1> QED  BY <1>1, <1>2, <1>3, CallStepKeeps DEF Next

LEMMA CallInvInit == Init => CallInv
<1> SUFFICES ASSUME Init PROVE CallInv
  OBVIOUS
<1>1. CallTypes
  BY DEF Init, CallTypes
<1>2. UnregDropped /\ NoneYet /\ NestedLater /\ SendersLive /\ OwnStreams
  BY ElicitationAssumption
  DEF Init, UnregDropped, NoneYet, NestedLater, SendersLive, OwnStreams, Settled, Begun
<1> QED  BY <1>1, <1>2 DEF CallInv

-----------------------------------------------------------------------------
(* The waiters' and the handlers' remaining variables.                     *)

LEMMA RestFrame ==
  ASSUME RestTypes, UNCHANGED <<wpc, call, via, pending, mine>>
  PROVE  RestTypes'
BY DEF RestTypes

\* The waiter of r goes on and is not back at its first step.
LEMMA RestGoesOn ==
  ASSUME RestTypes, WaitTypes, NEW r \in Requests, wpc'[r] # "asked",
         \A q \in Requests \ {r} : wpc'[q] = wpc[q],
         call' = call \/ call' = [call EXCEPT ![r] = None],
         via' \in [Requests -> Dispatches \cup {None}],
         pending' \subseteq Requests, UNCHANGED mine
  PROVE  RestTypes'
BY DEF RestTypes

LEMMA RestStep ==
  ASSUME IInv, CallInv, RestTypes, [Next]_vars
  PROVE  RestTypes'
<1>0. WaitTypes /\ CallTypes
  BY DEF IInv, CallInv
<1>1. ASSUME NEW d \in Dispatches, CallStep(d) PROVE RestTypes'
  <2>1. UNCHANGED <<wpc, call, via, pending, mine>>
    BY <1>1 DEF CallStep, CheckStream, RegisterStream, Call, Return, DropCall, Unregister, Show,
                waitVars, answerVars
  <2> QED  BY <2>1, RestFrame
<1>2. ASSUME NEW r \in Requests, WaitStep(r) PROVE RestTypes'
  <2>1. CASE Ask(r)
    <3>1. Resolved(r) \in CallIds \cup {None}
      BY <1>0, ElicitationAssumption DEF Resolved, CallTypes
    <3>2. /\ call' = [call EXCEPT ![r] = Resolved(r)]
          /\ wpc' = [wpc EXCEPT ![r] = IF Resolved(r) = None THEN "done" ELSE "asked"]
          /\ UNCHANGED <<via, pending, mine>>
      BY <2>1 DEF Ask, answerVars
    <3> QED  BY <1>0, <3>1, <3>2 DEF RestTypes, WaitTypes
  <2>2. CASE LookUp(r)
    <3>1. senders[call[r]] \in Dispatches \cup {None}
      BY <1>0, <2>2 DEF LookUp, RestTypes, CallTypes
    <3>2. /\ wpc'[r] # "asked" /\ \A q \in Requests \ {r} : wpc'[q] = wpc[q]
          /\ via' \in [Requests -> Dispatches \cup {None}]
          /\ UNCHANGED <<call, pending, mine>>
      BY <1>0, <2>2, <3>1 DEF LookUp, WaitTypes, RestTypes, answerVars
    <3> QED  BY <1>0, <3>2, RestGoesOn DEF RestTypes
  <2>3. CASE Insert(r) \/ TrySend(r)
    <3>1. /\ wpc'[r] # "asked" /\ \A q \in Requests \ {r} : wpc'[q] = wpc[q]
          /\ pending' \subseteq Requests
          /\ UNCHANGED <<call, via, mine>>
      BY <1>0, <2>3 DEF Insert, TrySend, WaitTypes, RestTypes, answerVars
    <3> QED  BY <1>0, <3>1, RestGoesOn DEF RestTypes
  <2>4. CASE Receive(r) \/ Deadline(r) \/ GiveUp(r)
    <3>1. /\ wpc'[r] # "asked" /\ \A q \in Requests \ {r} : wpc'[q] = wpc[q]
          /\ UNCHANGED <<call, via, pending, mine>>
      BY <1>0, <2>4 DEF Receive, Deadline, GiveUp, WaitTypes, answerVars
    <3> QED  BY <1>0, <3>1, RestGoesOn DEF RestTypes
  <2>5. CASE Remove(r) \/ DropWait(r)
    <3>1. /\ wpc'[r] # "asked" /\ \A q \in Requests \ {r} : wpc'[q] = wpc[q]
          /\ call' = [call EXCEPT ![r] = None] /\ via' = [via EXCEPT ![r] = None]
          /\ pending' \subseteq Requests /\ UNCHANGED mine
      BY <1>0, <2>5 DEF Remove, DropWait, WaitTypes, RestTypes, answerVars
    <3>2. via' \in [Requests -> Dispatches \cup {None}]
      BY <3>1 DEF RestTypes
    <3> QED  BY <1>0, <3>1, <3>2, RestGoesOn
  <2> QED  BY <1>2, <2>1, <2>2, <2>3, <2>4, <2>5 DEF WaitStep
<1>3. ASSUME NEW a \in Answerers, AnswerStep(a) PROVE RestTypes'
  <2>1. UNCHANGED <<wpc, call, via, pending>>
    BY <1>3 DEF AnswerStep, Fetch, Claim, Record, RecordFails, Submit, Send, DropHandler, waitVars
  <2>2. mine' \in [Answerers -> BOOLEAN]
    BY <1>3 DEF AnswerStep, Fetch, Claim, Record, RecordFails, Submit, Send, DropHandler, RestTypes
  <2> QED  BY <2>1, <2>2 DEF RestTypes
<1>4. CASE UNCHANGED vars
  BY <1>4, RestFrame DEF vars, waitVars, answerVars
<1> QED  BY <1>1, <1>2, <1>3, <1>4 DEF Next

\* Insert and Remove are the only steps on the map, at the ends of the wait.
LEMMA PendingStep ==
  ASSUME WaitTypes, RestTypes, PendingIsWaited, [Next]_vars
  PROVE  PendingIsWaited'
<1>0. pending \subseteq Requests
  BY DEF RestTypes
<1>1. ASSUME NEW r \in Requests, WaitStep(r) PROVE PendingIsWaited'
  <2>1. CASE Ask(r) \/ LookUp(r) \/ Insert(r)
    BY <1>0, <2>1 DEF Ask, LookUp, Insert, WaitTypes, PendingIsWaited, answerVars
  <2>2. CASE TrySend(r) \/ Receive(r) \/ Deadline(r) \/ GiveUp(r)
    BY <1>0, <2>2 DEF TrySend, Receive, Deadline, GiveUp, WaitTypes, PendingIsWaited, answerVars
  <2>3. CASE Remove(r) \/ DropWait(r)
    BY <1>0, <2>3 DEF Remove, DropWait, WaitTypes, PendingIsWaited, answerVars
  <2> QED  BY <1>1, <2>1, <2>2, <2>3 DEF WaitStep
<1>2. CASE \/ \E d \in Dispatches : CallStep(d)
           \/ \E a \in Answerers : AnswerStep(a)
           \/ UNCHANGED vars
  <2>1. UNCHANGED <<wpc, pending>>
    BY <1>2 DEF CallStep, CheckStream, RegisterStream, Call, Return, DropCall, Unregister, Show,
                AnswerStep, Fetch, Claim, Record, RecordFails, Submit, Send, DropHandler, vars, waitVars
  <2> QED  BY <2>1 DEF PendingIsWaited
<1> QED  BY <1>1, <1>2 DEF Next

-----------------------------------------------------------------------------
(* Results.                                                                *)

LEMMA CallsInvariant == Spec => []CallInv
BY CallInvInit, CallInvStep, PTL DEF Spec

LEMMA RestInvariant == Spec => []RestTypes
<1>1. Init => RestTypes
  BY DEF Init, RestTypes
<1>2. IInv /\ CallInv /\ RestTypes /\ [Next]_vars => RestTypes'
  BY RestStep
<1> QED  BY <1>1, <1>2, InvariantHolds, CallsInvariant, PTL DEF Spec

\* No dispatch_tool_call nested in a call takes the sender of its open stream out
\* of action_required_senders or puts another in its place; neither does the
\* unregistration a dropped stream spawns, unless the id was dispatched twice.
THEOREM StreamsStay == Spec => []StreamStaysRegistered
<1>1. CallInv => StreamStaysRegistered
  BY DEF CallInv, OwnStreams, Alone, Settled, StreamStaysRegistered
<1> QED  BY <1>1, CallsInvariant, PTL

\* However dispatches share an id, no sender is left in action_required_senders
\* for good: its stream is open or the task that Drop spawned has yet to remove it.
THEOREM NoDeadSender ==
  Spec => [](\A c \in CallIds : senders[c] # None =>
                stream[senders[c]] = "open" \/ senders[c] \in unreg)
<1>1. CallInv => \A c \in CallIds : senders[c] # None =>
                    stream[senders[c]] = "open" \/ senders[c] \in unreg
  BY DEF CallInv, SendersLive
<1> QED  BY <1>1, CallsInvariant, PTL

\* Every way out of request_and_wait, the refused try_send included, takes the
\* entry out of the pending map, unless the waiter itself is dropped.
THEOREM NoEntryOutlives == Spec => []PendingIsWaited
<1>1. Init => PendingIsWaited
  BY DEF Init, PendingIsWaited
<1>2. IInv /\ RestTypes /\ PendingIsWaited /\ [Next]_vars => PendingIsWaited'
  BY PendingStep DEF IInv
<1> QED  BY <1>1, <1>2, InvariantHolds, RestInvariant, PTL DEF Spec

\* The streams, the waiters and the handlers keep their types.
THEOREM TypeCorrect == Spec => []TypeOK
<1>1. IInv /\ CallInv /\ RestTypes => TypeOK
  BY DEF IInv, WaitTypes, AnswerTypes, QueueTypes, CallInv, CallTypes, RestTypes, TypeOK, Optional
<1> QED  BY <1>1, InvariantHolds, CallsInvariant, RestInvariant, PTL

=============================================================================
