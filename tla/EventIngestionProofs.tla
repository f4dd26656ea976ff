------------------------ MODULE EventIngestionProofs ------------------------
(***************************************************************************)
(* What holds of the upload of event batches for every number of devices,  *)
(* requests, events and faults.                                            *)
(***************************************************************************)
EXTENDS EventIngestion, TLAPS

\* The batch of a request and what became of it stay within what its device
\* recorded.
OwnEvents ==
    /\ \A d \in Devices : outbox[d] \subseteq Recorded[d]
    /\ \A r \in Requests :
        /\ phase[r] \in {"received", "open"} => Items(todo[r]) \subseteq Recorded[dev[r]]
        /\ accepted[r] \subseteq Recorded[dev[r]]

\* Nothing was done before the transaction is opened, and nothing is left in
\* it afterwards.
Fresh ==
    \A r \in Requests :
        /\ phase[r] = "received" =>
            accepted[r] = {} /\ rejected[r] = {} /\ ~aborted[r]
        /\ phase[r] # "open" => written[r] = {}

\* A transaction that was not aborted holds or has found every accepted row.
Healthy ==
    \A r \in Requests :
        /\ aborted[r] => written[r] = {}
        /\ phase[r] = "open" /\ ~aborted[r] =>
            /\ written[r] \subseteq accepted[r]
            /\ accepted[r] \subseteq written[r] \union durable
        /\ phase[r] = "answered" /\ ~aborted[r] => accepted[r] \subseteq durable

IInv == TypeOK /\ OwnEvents /\ Fresh /\ Healthy

-----------------------------------------------------------------------------
(* The first event of a batch and the rest of it are events of the batch.  *)
LEMMA HeadAndTail ==
    ASSUME NEW S, NEW s \in Seq(S), s # <<>>
    PROVE  /\ Head(s) \in Items(s) /\ Head(s) \in S
           /\ Tail(s) \in Seq(S)
           /\ Len(Tail(s)) <= Len(s)
           /\ Items(Tail(s)) \subseteq Items(s)
<1>1. Len(s) \in Nat \ {0} /\ Len(Tail(s)) = Len(s) - 1 /\ Tail(s) \in Seq(S)
    OBVIOUS
<1>2. \A i \in 1..Len(Tail(s)) : Tail(s)[i] = s[i + 1] /\ i + 1 \in 1..Len(s)
    BY <1>1
<1>3. DOMAIN s = 1..Len(s) /\ DOMAIN Tail(s) = 1..Len(Tail(s))
    BY <1>1
<1>4. Items(Tail(s)) \subseteq Items(s)
    BY <1>2, <1>3 DEF Items
<1>5. Head(s) \in Items(s) /\ Head(s) \in S
    BY <1>1, <1>3 DEF Items
<1> QED
    BY <1>1, <1>4, <1>5

(* The initial states satisfy the invariant.                               *)
LEMMA InitIInv == Init => IInv
<1> SUFFICES ASSUME Init PROVE IInv
    OBVIOUS
<1>1. TypeOK
    BY RecordedAssumption, BoundsAssumption
    DEF Init, TypeOK, Phases
<1>2. OwnEvents /\ Fresh /\ Healthy
    BY DEF Init, OwnEvents, Fresh, Healthy, Items
<1> QED
    BY <1>1, <1>2 DEF IInv

(* A step of the specification is one of its actions.                      *)
LEMMA StepCases ==
    ASSUME [Next]_vars
    PROVE  \/ \E d \in Devices, r \in Requests : Send(d, r)
           \/ \E d \in Devices : Timeout(d)
           \/ \E r \in Requests : Refuse(r) /\ faults' \in {faults, faults + 1}
                                  /\ (faults' = faults \/ faults < MaxFaults)
           \/ \E r \in Requests :
                \/ Begin(r) \/ Insert(r) \/ EncodeFails(r) \/ RaiseAndAbort(r)
                \/ InsertInAborted(r)
                \/ Commit(r) \/ Deliver(r) \/ Discard(r)
                \/ Drop(r) \/ DropAfterCommit(r)
           \/ UNCHANGED vars
BY DEF Next, Handle, RefuseInvalid, RefuseTooLong, RefuseOverLimit, InsertFails, DeadlockVictim, Fault

(* Types are preserved by every action.                                    *)
LEMMA TypeStep ==
    ASSUME TypeOK, [Next]_vars
    PROVE  TypeOK'
<1> USE RecordedAssumption, BoundsAssumption DEF TypeOK, Phases, StopAwaiting
<1>1. ASSUME NEW d \in Devices, NEW r \in Requests, Send(d, r)
      PROVE  TypeOK'
    BY <1>1, UploadsAssumption DEF Send
<1>2. ASSUME NEW d \in Devices, Timeout(d)
      PROVE  TypeOK'
    BY <1>2 DEF Timeout, Fault, handlerVars, txVars
<1>3. ASSUME NEW r \in Requests, Refuse(r), faults' \in {faults, faults + 1},
             faults' = faults \/ faults < MaxFaults
      PROVE  TypeOK'
    BY <1>3 DEF Refuse, txVars
<1>4. ASSUME NEW r \in Requests, Begin(r)
      PROVE  TypeOK'
    BY <1>4 DEF Begin, clientVars, txVars
<1>5. ASSUME NEW r \in Requests, Insert(r)
      PROVE  TypeOK'
    BY <1>5, HeadAndTail DEF Insert, Executing, clientVars
<1>6. ASSUME NEW r \in Requests, RaiseAndAbort(r)
      PROVE  TypeOK'
    BY <1>6, HeadAndTail DEF RaiseAndAbort, Executing, clientVars
<1>7. ASSUME NEW r \in Requests, InsertInAborted(r)
      PROVE  TypeOK'
    BY <1>7, HeadAndTail DEF InsertInAborted, Executing, clientVars, txVars
<1>8. ASSUME NEW r \in Requests, Commit(r)
      PROVE  TypeOK'
    BY <1>8 DEF Commit, clientVars
<1>9. ASSUME NEW r \in Requests, Deliver(r)
      PROVE  TypeOK'
    BY <1>9 DEF Deliver, txVars
<1>10. ASSUME NEW r \in Requests, Discard(r)
      PROVE  TypeOK'
    BY <1>10 DEF Discard, clientVars, txVars
<1>12. ASSUME NEW r \in Requests, Drop(r)
      PROVE  TypeOK'
    BY <1>12 DEF Drop, Fault
<1>13. ASSUME NEW r \in Requests, DropAfterCommit(r)
      PROVE  TypeOK'
  <2>1. durable' \subseteq Events
    BY <1>13 DEF DropAfterCommit
  <2>2. faults' \in 0..MaxFaults
    BY <1>13 DEF DropAfterCommit, Fault
  <2> QED
    BY <1>13, <2>1, <2>2 DEF DropAfterCommit
<1>11. CASE UNCHANGED vars
    BY <1>11 DEF vars, clientVars, handlerVars, txVars
<1>14. ASSUME NEW r \in Requests, EncodeFails(r)
      PROVE  TypeOK'
    BY <1>14, HeadAndTail DEF EncodeFails, Executing, clientVars, txVars
<1> QED
    BY <1>1, <1>2, <1>3, <1>4, <1>5, <1>6, <1>7, <1>8, <1>9, <1>10, <1>11,
       <1>12, <1>13, <1>14, StepCases

(* Requests stay within the events of their device.                        *)
LEMMA OwnEventsStep ==
    ASSUME IInv, [Next]_vars
    PROVE  OwnEvents'
<1> USE DEF IInv, TypeOK, OwnEvents
<1>1. ASSUME NEW d \in Devices, NEW r \in Requests, Send(d, r)
      PROVE  OwnEvents'
    BY <1>1 DEF Send
<1>2. ASSUME NEW d \in Devices, Timeout(d)
      PROVE  OwnEvents'
    BY <1>2 DEF Timeout, handlerVars, txVars
<1>3. ASSUME NEW r \in Requests, Refuse(r)
      PROVE  OwnEvents'
    BY <1>3 DEF Refuse, StopAwaiting, txVars
<1>4. ASSUME NEW r \in Requests, Begin(r)
      PROVE  OwnEvents'
    BY <1>4 DEF Begin, clientVars, txVars
<1>5. ASSUME NEW r \in Requests, Insert(r)
      PROVE  OwnEvents'
    BY <1>5, HeadAndTail DEF Insert, Executing, Blocks, clientVars
<1>6. ASSUME NEW r \in Requests, RaiseAndAbort(r)
      PROVE  OwnEvents'
    BY <1>6, HeadAndTail DEF RaiseAndAbort, Executing, clientVars
<1>7. ASSUME NEW r \in Requests, InsertInAborted(r)
      PROVE  OwnEvents'
    BY <1>7, HeadAndTail DEF InsertInAborted, Executing, clientVars, txVars
<1>8. ASSUME NEW r \in Requests, Commit(r)
      PROVE  OwnEvents'
    BY <1>8 DEF Commit, clientVars
<1>9. ASSUME NEW r \in Requests, Deliver(r)
      PROVE  OwnEvents'
    BY <1>9 DEF Deliver, StopAwaiting, txVars
<1>10. ASSUME NEW r \in Requests, Discard(r)
      PROVE  OwnEvents'
    BY <1>10 DEF Discard, clientVars, txVars
<1>11. ASSUME NEW r \in Requests, Drop(r)
      PROVE  OwnEvents'
    BY <1>11 DEF Drop, StopAwaiting, Fault
<1>12. ASSUME NEW r \in Requests, DropAfterCommit(r)
      PROVE  OwnEvents'
    BY <1>12 DEF DropAfterCommit, StopAwaiting, Fault
<1>13. CASE UNCHANGED vars
    BY <1>13 DEF vars, clientVars, handlerVars, txVars
<1>14. ASSUME NEW r \in Requests, EncodeFails(r)
      PROVE  OwnEvents'
    BY <1>14, HeadAndTail DEF EncodeFails, Executing, clientVars, txVars
<1> QED
    BY <1>1, <1>2, <1>3, <1>4, <1>5, <1>6, <1>7,
       <1>8, <1>9, <1>10, <1>11, <1>12, <1>13, <1>14, StepCases

(* A request starts from nothing and leaves no row uncommitted.            *)
LEMMA FreshStep ==
    ASSUME IInv, [Next]_vars
    PROVE  Fresh'
<1> USE DEF IInv, TypeOK, Fresh
<1>1. ASSUME NEW d \in Devices, NEW r \in Requests, Send(d, r)
      PROVE  Fresh'
    BY <1>1 DEF Send
<1>2. ASSUME NEW d \in Devices, Timeout(d)
      PROVE  Fresh'
    BY <1>2 DEF Timeout, handlerVars, txVars
<1>3. ASSUME NEW r \in Requests, Refuse(r)
      PROVE  Fresh'
    BY <1>3 DEF Refuse, StopAwaiting, txVars
<1>4. ASSUME NEW r \in Requests, Begin(r)
      PROVE  Fresh'
    BY <1>4 DEF Begin, clientVars, txVars
<1>5. ASSUME NEW r \in Requests, Insert(r)
      PROVE  Fresh'
    BY <1>5, HeadAndTail DEF Insert, Executing, Blocks, clientVars
<1>6. ASSUME NEW r \in Requests, RaiseAndAbort(r)
      PROVE  Fresh'
    BY <1>6, HeadAndTail DEF RaiseAndAbort, Executing, clientVars
<1>7. ASSUME NEW r \in Requests, InsertInAborted(r)
      PROVE  Fresh'
    BY <1>7, HeadAndTail DEF InsertInAborted, Executing, clientVars, txVars
<1>8. ASSUME NEW r \in Requests, Commit(r)
      PROVE  Fresh'
    BY <1>8 DEF Commit, clientVars
<1>9. ASSUME NEW r \in Requests, Deliver(r)
      PROVE  Fresh'
    BY <1>9 DEF Deliver, StopAwaiting, txVars
<1>10. ASSUME NEW r \in Requests, Discard(r)
      PROVE  Fresh'
    BY <1>10 DEF Discard, clientVars, txVars
<1>11. ASSUME NEW r \in Requests, Drop(r)
      PROVE  Fresh'
    BY <1>11 DEF Drop, StopAwaiting, Fault
<1>12. ASSUME NEW r \in Requests, DropAfterCommit(r)
      PROVE  Fresh'
    BY <1>12 DEF DropAfterCommit, StopAwaiting, Fault
<1>13. CASE UNCHANGED vars
    BY <1>13 DEF vars, clientVars, handlerVars, txVars
<1>14. ASSUME NEW r \in Requests, EncodeFails(r)
      PROVE  Fresh'
    BY <1>14, HeadAndTail DEF EncodeFails, Executing, clientVars, txVars
<1> QED
    BY <1>1, <1>2, <1>3, <1>4, <1>5, <1>6, <1>7,
       <1>8, <1>9, <1>10, <1>11, <1>12, <1>13, <1>14, StepCases

(* Without an abort, accepted rows are stored or about to be.              *)
LEMMA HealthyStep ==
    ASSUME IInv, [Next]_vars
    PROVE  Healthy'
<1> USE DEF IInv, TypeOK, Fresh, Healthy
<1>1. ASSUME NEW d \in Devices, NEW r \in Requests, Send(d, r)
      PROVE  Healthy'
    BY <1>1 DEF Send
<1>2. ASSUME NEW d \in Devices, Timeout(d)
      PROVE  Healthy'
    BY <1>2 DEF Timeout, handlerVars, txVars
<1>3. ASSUME NEW r \in Requests, Refuse(r)
      PROVE  Healthy'
    BY <1>3 DEF Refuse, StopAwaiting, txVars
<1>4. ASSUME NEW r \in Requests, Begin(r)
      PROVE  Healthy'
    BY <1>4 DEF Begin, clientVars, txVars
<1>5. ASSUME NEW r \in Requests, Insert(r)
      PROVE  Healthy'
    BY <1>5, HeadAndTail DEF Insert, Executing, Blocks, clientVars
<1>6. ASSUME NEW r \in Requests, RaiseAndAbort(r)
      PROVE  Healthy'
    BY <1>6, HeadAndTail DEF RaiseAndAbort, Executing, clientVars
<1>7. ASSUME NEW r \in Requests, InsertInAborted(r)
      PROVE  Healthy'
    BY <1>7, HeadAndTail DEF InsertInAborted, Executing, clientVars, txVars
<1>8. ASSUME NEW r \in Requests, Commit(r)
      PROVE  Healthy'
    BY <1>8 DEF Commit, clientVars
<1>9. ASSUME NEW r \in Requests, Deliver(r)
      PROVE  Healthy'
    BY <1>9 DEF Deliver, StopAwaiting, txVars
<1>10. ASSUME NEW r \in Requests, Discard(r)
      PROVE  Healthy'
    BY <1>10 DEF Discard, clientVars, txVars
<1>11. ASSUME NEW r \in Requests, Drop(r)
      PROVE  Healthy'
    BY <1>11 DEF Drop, StopAwaiting, Fault
<1>12. ASSUME NEW r \in Requests, DropAfterCommit(r)
      PROVE  Healthy'
    BY <1>12 DEF DropAfterCommit, StopAwaiting, Fault
<1>13. CASE UNCHANGED vars
    BY <1>13 DEF vars, clientVars, handlerVars, txVars
<1>14. ASSUME NEW r \in Requests, EncodeFails(r)
      PROVE  Healthy'
    BY <1>14, HeadAndTail DEF EncodeFails, Executing, clientVars, txVars
<1> QED
    BY <1>1, <1>2, <1>3, <1>4, <1>5, <1>6, <1>7,
       <1>8, <1>9, <1>10, <1>11, <1>12, <1>13, <1>14, StepCases

(* The invariant holds in every reachable state.                           *)
THEOREM Invariance == Spec => []IInv
<1>1. Init => IInv
    BY InitIInv
<1>2. IInv /\ [Next]_vars => IInv'
    BY TypeStep, OwnEventsStep, FreshStep, HealthyStep DEF IInv
<1> QED
    BY <1>1, <1>2, PTL DEF Spec

(* Every variable keeps its type, and no transaction is opened for a batch *)
(* longer than max_batch_size (routes/events.py:44-48).                    *)
THEOREM TypeCorrect == Spec => []TypeOK
<1>1. IInv => TypeOK
    BY DEF IInv
<1> QED
    BY <1>1, Invariance, PTL

-----------------------------------------------------------------------------
(* Only the end of a transaction changes what is stored, and only the      *)
(* delivery of a reply removes anything from an outbox.                    *)
LEMMA WhoChangesWhat ==
    ASSUME IInv, [Next]_vars
    PROVE  \/ \E r \in Requests :
                /\ phase[r] = "open" /\ todo[r] = <<>>
                /\ durable' = durable \union written[r]
                /\ UNCHANGED outbox
           \/ \E r \in Requests :
                /\ phase[r] = "answered" /\ awaiting[dev[r]] = r
                /\ outbox' = [outbox EXCEPT ![dev[r]] = @ \ accepted[r]]
                /\ UNCHANGED durable
           \/ UNCHANGED <<outbox, durable>>
<1>1. ASSUME NEW r \in Requests, Commit(r) \/ DropAfterCommit(r)
      PROVE  /\ phase[r] = "open" /\ todo[r] = <<>>
             /\ durable' = durable \union written[r]
             /\ UNCHANGED outbox
    BY <1>1 DEF Commit, DropAfterCommit, clientVars
<1>2. ASSUME NEW r \in Requests, Deliver(r)
      PROVE  /\ phase[r] = "answered" /\ awaiting[dev[r]] = r
             /\ outbox' = [outbox EXCEPT ![dev[r]] = @ \ accepted[r]]
             /\ UNCHANGED durable
    BY <1>2 DEF Deliver
<1>3. ASSUME NEW d \in Devices, NEW r \in Requests, Send(d, r)
      PROVE  UNCHANGED <<outbox, durable>>
    BY <1>3 DEF Send
<1>4. ASSUME NEW r \in Requests, Refuse(r) \/ Begin(r) \/ Discard(r) \/ Drop(r)
      PROVE  UNCHANGED <<outbox, durable>>
    BY <1>4 DEF Refuse, Begin, Discard, Drop, clientVars
<1>5. ASSUME NEW r \in Requests, Insert(r) \/ EncodeFails(r) \/ RaiseAndAbort(r) \/ InsertInAborted(r)
      PROVE  UNCHANGED <<outbox, durable>>
    BY <1>5 DEF Insert, EncodeFails, RaiseAndAbort, InsertInAborted, clientVars
<1>6. ASSUME NEW d \in Devices, Timeout(d)
      PROVE  UNCHANGED <<outbox, durable>>
    BY <1>6 DEF Timeout
<1>7. CASE UNCHANGED vars
    BY <1>7 DEF vars, clientVars
<1> QED
    BY <1>1, <1>2, <1>3, <1>4, <1>5, <1>6, <1>7, StepCases

(* What a transaction is about to commit is all it accepted, or nothing.   *)
LEMMA CommittedBatch ==
    ASSUME IInv, NEW r \in Requests, phase[r] = "open"
    PROVE  /\ durable \union written[r] # durable =>
                durable \union written[r] = durable \union accepted[r]
           /\ written[r] \subseteq Recorded[dev[r]]
<1>1. CASE aborted[r]
    BY <1>1 DEF IInv, Healthy
<1>2. CASE ~aborted[r]
    BY <1>2 DEF IInv, Healthy, OwnEvents
<1> QED
    BY <1>1, <1>2

(* asset_observation grows by the whole accepted list of one request, at   *)
(* the end of its transaction (event_service.py:62-63), though others of   *)
(* its events were rejected.                                               *)
THEOREM AcceptedAreStoredTogether == Spec => AcceptedTogether
<1> DEFINE Step ==
        durable' # durable =>
            \E r \in Requests :
                /\ phase[r] = "open" /\ todo[r] = <<>>
                /\ durable' = durable \union accepted[r]
<1>1. ASSUME IInv, [Next]_vars PROVE Step
    BY <1>1, WhoChangesWhat, CommittedBatch
<1>2. IInv /\ [Next]_vars => [Step]_vars
    BY <1>1
<1> QED
    BY <1>2, Invariance, PTL DEF Spec, AcceptedTogether

(* An event disappears only with the reply of an aborted batch that lists  *)
(* it as accepted (the `except` in the transaction, event_service.py:64).  *)
THEOREM LossNeedsAbort == Spec => LossOnlyThroughAbort
<1> DEFINE Step ==
        \A d \in Devices : \A e \in Safe(d) \ Safe(d)' :
            \E r \in Requests :
                /\ phase[r] = "answered" /\ awaiting[d] = r
                /\ aborted[r] /\ e \in accepted[r]
<1>1. ASSUME IInv, [Next]_vars
      PROVE  Step
  <2> SUFFICES ASSUME NEW d \in Devices, NEW e \in Safe(d) \ Safe(d)'
               PROVE  \E r \in Requests :
                        /\ phase[r] = "answered" /\ awaiting[d] = r
                        /\ aborted[r] /\ e \in accepted[r]
    OBVIOUS
  <2>1. durable \subseteq durable'
    BY <1>1, WhoChangesWhat
  <2>2. e \in outbox[d] /\ e \notin outbox'[d] /\ e \notin durable
    BY <2>1 DEF Safe
  <2>3. PICK r \in Requests :
            /\ phase[r] = "answered" /\ awaiting[dev[r]] = r
            /\ outbox' = [outbox EXCEPT ![dev[r]] = @ \ accepted[r]]
    BY <1>1, <2>2, WhoChangesWhat
  <2>4. dev[r] = d /\ e \in accepted[r]
    BY <1>1, <2>2, <2>3 DEF IInv, TypeOK
  <2>5. aborted[r]
    BY <1>1, <2>2, <2>3, <2>4 DEF IInv, Healthy
  <2> QED
    BY <2>3, <2>4, <2>5
<1>2. IInv /\ [Next]_vars => [Step]_vars
    BY <1>1
<1> QED
    BY <1>2, Invariance, PTL DEF Spec, LossOnlyThroughAbort

-----------------------------------------------------------------------------
NoBatchAborted == \A r \in Requests : ~aborted[r]

(* As long as no statement raises inside a batch transaction, the upload   *)
(* implements its promise: stored first, deleted from the device after.    *)
THEOREM UploadIsReliable == Spec /\ []NoBatchAborted => ImplementsReliableUpload
<1>1. Init => Promise!Init
    BY DEF Init, Promise!Init
<1>2. ASSUME IInv, [Next]_vars, NoBatchAborted
      PROVE  [Promise!Next]_Promise!vars
  <2>1. ASSUME NEW r \in Requests, phase[r] = "open",
               durable' = durable \union written[r], UNCHANGED outbox
        PROVE  Promise!Next
    <3>1. dev[r] \in Devices /\ written[r] \in SUBSET Recorded[dev[r]]
      BY <1>2, <2>1, CommittedBatch DEF IInv, TypeOK
    <3>2. Promise!Store(written[r])
      BY <2>1 DEF Promise!Store
    <3> QED
      BY <3>1, <3>2 DEF Promise!Next
  <2>2. ASSUME NEW r \in Requests, phase[r] = "answered",
               outbox' = [outbox EXCEPT ![dev[r]] = @ \ accepted[r]],
               UNCHANGED durable
        PROVE  Promise!Next
    <3>1. dev[r] \in Devices /\ accepted[r] \in SUBSET Recorded[dev[r]]
      BY <1>2 DEF IInv, TypeOK, OwnEvents
    <3>2. accepted[r] \subseteq durable
      BY <1>2, <2>2 DEF IInv, Healthy, NoBatchAborted
    <3>3. Promise!Forget(dev[r], accepted[r])
      BY <2>2, <3>2 DEF Promise!Forget
    <3> QED
      BY <3>1, <3>3 DEF Promise!Next
  <2>3. CASE UNCHANGED <<outbox, durable>>
    BY <2>3 DEF Promise!vars
  <2> QED
    BY <1>2, <2>1, <2>2, <2>3, WhoChangesWhat
<1> QED
    BY <1>1, <1>2, Invariance, PTL DEF Spec, Promise!Spec, ImplementsReliableUpload

(* As long as no statement raises inside a batch transaction, no recorded  *)
(* event is lost, whatever is retried, dropped, refused or left unanswered *)
(* (routes/events.py:9-12).                                                *)
THEOREM NothingLost == Spec /\ []NoBatchAborted => []NoEventLost
<1>1. Init => NoEventLost
    BY DEF Init, NoEventLost
<1>2. ASSUME IInv, NoBatchAborted, NoEventLost, [Next]_vars
      PROVE  NoEventLost'
  <2>1. ASSUME NEW r \in Requests, phase[r] = "answered",
               outbox' = [outbox EXCEPT ![dev[r]] = @ \ accepted[r]],
               UNCHANGED durable
        PROVE  NoEventLost'
    BY <1>2, <2>1 DEF IInv, TypeOK, Healthy, NoBatchAborted, NoEventLost
  <2>2. CASE durable \subseteq durable' /\ UNCHANGED outbox
    BY <1>2, <2>2 DEF NoEventLost
  <2> QED
    BY <1>2, <2>1, <2>2, WhoChangesWhat
<1> QED
    BY <1>1, <1>2, Invariance, PTL DEF Spec
=============================================================================
