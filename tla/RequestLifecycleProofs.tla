----------------------- MODULE RequestLifecycleProofs -----------------------
(***************************************************************************)
(* Proofs about RequestLifecycle, for any number of requests and threads    *)
(* and whatever callbacks do with the handles they reach.                   *)
(***************************************************************************)
EXTENDS RequestLifecycle, TLAPS

\* What the trampoline writes back is a CallbackOutcome (request.rs, record_*).
LEMMA OutcomeTypes ==
    ASSUME NEW r \in Requests, outcome[r] \in CallbackOutcome, last[r] \in Event,
           NEW control
    PROVE  /\ record_delivery_thread(r) \in CallbackOutcome
           /\ record_error(r) \in CallbackOutcome
           /\ record_result(r, control) \in CallbackOutcome
<1>1. {r} \in SUBSET Threads
  BY DEF Threads
<1>2. record_delivery_thread(r) \in CallbackOutcome
  BY <1>1 DEF record_delivery_thread, CallbackOutcome
<1>3. record_error(r) \in CallbackOutcome
  BY <1>2 DEF record_error, CallbackOutcome
<1>4. record_result(r, control) \in CallbackOutcome
  BY DEF record_result, CallbackOutcome, Event
<1> QED BY <1>2, <1>3, <1>4

\* Every behaviour of the specification stays within its types.
THEOREM TypeCorrect == Spec => []TypeOK
<1> USE DEF TypeOK
<1>0. /\ Reaper \in Threads /\ Callers \subseteq Threads /\ Requests \subseteq Threads
      /\ {"none", "failed", "live", "queued", "released", "submit", "return", "cancel",
          "wait", "join", "drop_callback", "drop_registration", "drop_engine"}
             \subseteq Stages
  BY DEF Threads, Stages, Submitting, Using, Cleaning
<1> USE <1>0
<1>1. Init => TypeOK
  BY DEF Init, CallbackOutcome, Event, Controls, Results
<1>2. TypeOK /\ [Next]_vars => TypeOK'
  <2> SUFFICES ASSUME TypeOK, [Next]_vars PROVE TypeOK'
    OBVIOUS
  <2> USE DEF processVars, engineVars, handleVars, processorVars, nativeVars,
              Begin, Advance, End
  <2>1. ASSUME NEW c \in Callers, NEW r \in Requests, SubmitFails(c, r)
        PROVE  TypeOK'
    BY <2>1 DEF SubmitFails, cleanup_sender
  <2>2. ASSUME NEW c \in Callers, NEW r \in Requests, SubmitPrepare(c, r)
        PROVE  TypeOK'
    BY <2>2 DEF SubmitPrepare, cleanup_sender
  <2>3. ASSUME NEW r \in Requests, NativeSubmit(r)
        PROVE  TypeOK'
    BY <2>3 DEF NativeSubmit
  <2>4. ASSUME NEW r \in Requests, NativeSubmitFails(r)
        PROVE  TypeOK'
    BY <2>4 DEF NativeSubmitFails
  <2>5. ASSUME NEW r \in Requests, SubmitReturn(r)
        PROVE  TypeOK'
    BY <2>5 DEF SubmitReturn
  <2>6. ASSUME NEW t \in Threads, NEW r \in Requests, CancelProbe(t, r)
        PROVE  TypeOK'
    BY <2>6 DEF CancelProbe, native_done
  <2>7. ASSUME NEW r \in Requests, CancelNative(r)
        PROVE  TypeOK'
    BY <2>7 DEF CancelNative, NativeCancel, native_done
  <2>8. ASSUME NEW r \in Requests, CancelFails(r)
        PROVE  TypeOK'
    BY <2>8 DEF CancelFails
  <2>9. ASSUME NEW t \in Threads, NEW r \in Requests, WaitEnter(t, r)
        PROVE  TypeOK'
    BY <2>9 DEF WaitEnter
  <2>10. ASSUME NEW r \in Requests, WaitReturn(r)
         PROVE  TypeOK'
    <3>1. WaitResult(r) \in Results
      BY DEF WaitResult, CallbackResult, RequestOutcome, Results
    <3> QED BY <2>10, <3>1 DEF WaitReturn
  <2>11. ASSUME NEW t \in Threads, NEW r \in Requests, DropNow(t, r)
         PROVE  TypeOK'
    BY <2>11 DEF DropNow, FreeEnter, NativeCancel, native_done
  <2>12. ASSUME NEW t \in Threads, NEW r \in Requests, DropDeferred(t, r)
         PROVE  TypeOK'
    <3>1. Append(queue, r) \in Seq(Requests)
      OBVIOUS
    <3> QED BY <2>12, <3>1 DEF DropDeferred
  <2>13. ASSUME ReaperReceive
         PROVE  TypeOK'
    <3>1. Head(queue) \in Requests /\ Tail(queue) \in Seq(Requests)
      BY <2>13 DEF ReaperReceive
    <3> QED BY <2>13, <3>1 DEF ReaperReceive, FreeEnter, NativeCancel, native_done
  <2>14. ASSUME NEW r \in Requests, FreeReturn(r)
         PROVE  TypeOK'
    BY <2>14 DEF FreeReturn
  <2>15. ASSUME NEW r \in Requests, DropCallback(r)
         PROVE  TypeOK'
    BY <2>15 DEF DropCallback
  <2>16. ASSUME NEW r \in Requests, DropRegistration(r)
         PROVE  TypeOK'
    BY <2>16 DEF DropRegistration
  <2>17. ASSUME NEW r \in Requests, DropEngine(r)
         PROVE  TypeOK'
    BY <2>17 DEF DropEngine, Release
  <2>18. ASSUME NEW c \in Callers, DropEngineClone(c)
         PROVE  TypeOK'
    BY <2>18 DEF DropEngineClone, Release
  <2>19. ASSUME EngineFreeReturn
         PROVE  TypeOK'
    BY <2>19 DEF EngineFreeReturn
  <2>20. ASSUME NEW r \in Requests, NEW finished \in BOOLEAN, Deliver(r, finished)
         PROVE  TypeOK'
    <3>1. record_delivery_thread(r) \in CallbackOutcome
      BY OutcomeTypes
    <3>2. outcome' \in [Requests -> CallbackOutcome]
      BY <2>20, <3>1 DEF Deliver
    <3>3. last' \in [Requests -> Event]
      BY <2>20 DEF Deliver, Event, Controls
    <3>4. /\ delivery' = [delivery EXCEPT ![r] = "body"]
          /\ events' = [events EXCEPT ![r] = IF finished THEN @ ELSE @ + 1]
          /\ UNCHANGED <<processVars, engineVars, handleVars, box, processorVars,
                         cancelled, cause>>
      BY <2>20 DEF Deliver, CanDeliver
    <3> QED BY <3>2, <3>3, <3>4
  <2>21. ASSUME NEW r \in Requests, NEW finished \in BOOLEAN,
                DeliverInvalid(r, finished)
         PROVE  TypeOK'
    <3>1. record_error(r) \in CallbackOutcome
      BY OutcomeTypes
    <3>2. outcome' \in [Requests -> CallbackOutcome]
      BY <2>21, <3>1 DEF DeliverInvalid
    <3>3. last' \in [Requests -> Event]
      BY <2>21 DEF DeliverInvalid, Event, Controls
    <3>4. /\ events' = [events EXCEPT ![r] = IF finished THEN @ ELSE @ + 1]
          /\ UNCHANGED <<processVars, engineVars, handleVars, box, processorVars,
                         delivery, cancelled, cause>>
      BY <2>21 DEF DeliverInvalid, CanDeliver
    <3> QED BY <3>2, <3>3, <3>4
  <2>22. ASSUME NEW r \in Requests, NEW control \in {"Continue", "Stop", "Panic"},
                CallbackReturn(r, control)
         PROVE  TypeOK'
    <3>1. record_result(r, control) \in CallbackOutcome
      BY OutcomeTypes
    <3>2. outcome' \in [Requests -> CallbackOutcome]
      BY <2>22, <3>1 DEF CallbackReturn
    <3>3. last' \in [Requests -> Event]
      BY <2>22 DEF CallbackReturn, Event, Controls
    <3>4. /\ delivery' = [delivery EXCEPT ![r] = "waiting"]
          /\ UNCHANGED <<processVars, engineVars, handleVars, box, processorVars,
                         cancelled, events, cause>>
      BY <2>22 DEF CallbackReturn
    <3> QED BY <3>2, <3>3, <3>4
  <2>23. ASSUME NEW r \in Requests, DeliveryEnd(r)
         PROVE  TypeOK'
    BY <2>23 DEF DeliveryEnd, EndCauses
  <2>24. ASSUME NEW w \in Workers, NEW r \in Requests, ProcessorEnter(w, r)
         PROVE  TypeOK'
    BY <2>24 DEF ProcessorEnter, CanInvoke
  <2>25. ASSUME NEW w \in Workers, NEW r \in Requests, ProcessorInvalid(w, r)
         PROVE  TypeOK'
    BY <2>25 DEF ProcessorInvalid, CanInvoke
  <2>26. ASSUME NEW w \in Workers, NEW r \in Requests, NEW panics \in BOOLEAN,
                ProcessorReturn(w, r, panics)
         PROVE  TypeOK'
    BY <2>26 DEF ProcessorReturn
  <2>27. ASSUME UNCHANGED vars
         PROVE  TypeOK'
    BY <2>27 DEF vars
  <2> HIDE DEF TypeOK
  <2> QED
    BY <2>1, <2>2, <2>3, <2>4, <2>5, <2>6, <2>7, <2>8, <2>9, <2>10, <2>11, <2>12,
       <2>13, <2>14, <2>15, <2>16, <2>17, <2>18, <2>19, <2>20, <2>21, <2>22,
       <2>23, <2>24, <2>25, <2>26, <2>27
       DEF Next, Resume, Application, Native, Finished
<1> QED
  BY <1>1, <1>2, PTL DEF Spec

\* Initially nothing is owned, and every thread keeps the invariant IInv: the
\* request's owners leave their slots only after native code let go of them.
LEMMA InvInit == Init => IInv
<1> SUFFICES ASSUME Init PROVE IInv
  OBVIOUS
<1>1. QueueInv /\ EngineInv /\ NoSelfJoin /\ process = "running"
  BY DEF Init, QueueInv, EngineInv, NoSelfJoin, Cleaning
<1>2. ASSUME NEW r \in Requests PROVE HandleInv(r) /\ ThreadInv(r)
  BY ThreadsDisjoint DEF Init, HandleInv, ThreadInv, Owned, Acts, InProgress,
         Submitting, Using, Cleaning
<1> QED BY <1>1, <1>2 DEF IInv

\* Every step of the application, of native code and of the reaper keeps IInv.
LEMMA InvStep == ASSUME TypeOK, IInv, [Next]_vars PROVE IInv'
<1> USE ThreadsDisjoint DEF TypeOK, IInv
<1> USE DEF processVars, engineVars, handleVars, processorVars, nativeVars,
            Begin, Advance, End, Submitting, Using, Cleaning
<1>1. ASSUME NEW c \in Callers, NEW r \in Requests, SubmitFails(c, r)
      PROVE  IInv'
  <2>1. QueueInv'
    BY <1>1 DEF QueueInv, SubmitFails, cleanup_sender
  <2>2. EngineInv'
    BY <1>1 DEF EngineInv, HandleInv, SubmitFails, cleanup_sender
  <2>3. ASSUME NEW q \in Requests PROVE HandleInv(q)'
    BY <1>1 DEF HandleInv, Owned, SubmitFails, cleanup_sender
  <2>4. ASSUME NEW q \in Requests PROVE ThreadInv(q)'
    BY <1>1 DEF ThreadInv, Acts, InProgress, SubmitFails, cleanup_sender
  <2>5. NoSelfJoin'
    BY <1>1 DEF NoSelfJoin, ThreadInv, SubmitFails, cleanup_sender
  <2> QED BY <1>1, <2>1, <2>2, <2>3, <2>4, <2>5 DEF SubmitFails, cleanup_sender
<1>2. ASSUME NEW c \in Callers, NEW r \in Requests, SubmitPrepare(c, r)
      PROVE  IInv'
  <2>1. QueueInv'
    BY <1>2 DEF QueueInv, SubmitPrepare, cleanup_sender
  <2>2. EngineInv'
    BY <1>2 DEF EngineInv, HandleInv, SubmitPrepare, cleanup_sender
  <2>3. ASSUME NEW q \in Requests PROVE HandleInv(q)'
    BY <1>2 DEF HandleInv, Owned, SubmitPrepare, cleanup_sender
  <2>4. ASSUME NEW q \in Requests PROVE ThreadInv(q)'
    BY <1>2 DEF ThreadInv, Acts, InProgress, SubmitPrepare, cleanup_sender
  <2>5. NoSelfJoin'
    BY <1>2 DEF NoSelfJoin, ThreadInv, SubmitPrepare, cleanup_sender
  <2> QED BY <1>2, <2>1, <2>2, <2>3, <2>4, <2>5 DEF SubmitPrepare,
     cleanup_sender
<1>3. ASSUME NEW r \in Requests, NativeSubmit(r)
      PROVE  IInv'
  <2>1. QueueInv'
    BY <1>3 DEF QueueInv, NativeSubmit
  <2>2. EngineInv'
    BY <1>3 DEF EngineInv, HandleInv, NativeSubmit
  <2>3. ASSUME NEW q \in Requests PROVE HandleInv(q)'
    BY <1>3 DEF HandleInv, Owned, NativeSubmit
  <2>4. ASSUME NEW q \in Requests PROVE ThreadInv(q)'
    BY <1>3 DEF ThreadInv, Acts, InProgress, NativeSubmit
  <2>5. NoSelfJoin'
    BY <1>3 DEF NoSelfJoin, ThreadInv, NativeSubmit
  <2> QED BY <1>3, <2>1, <2>2, <2>3, <2>4, <2>5 DEF NativeSubmit
<1>4. ASSUME NEW r \in Requests, NativeSubmitFails(r)
      PROVE  IInv'
  <2>1. QueueInv'
    BY <1>4 DEF QueueInv, NativeSubmitFails
  <2>2. EngineInv'
    BY <1>4 DEF EngineInv, HandleInv, NativeSubmitFails
  <2>3. ASSUME NEW q \in Requests PROVE HandleInv(q)'
    BY <1>4 DEF HandleInv, Owned, NativeSubmitFails
  <2>4. ASSUME NEW q \in Requests PROVE ThreadInv(q)'
    BY <1>4 DEF ThreadInv, Acts, InProgress, NativeSubmitFails
  <2>5. NoSelfJoin'
    BY <1>4 DEF NoSelfJoin, ThreadInv, NativeSubmitFails
  <2> QED BY <1>4, <2>1, <2>2, <2>3, <2>4, <2>5 DEF NativeSubmitFails
<1>5. ASSUME NEW r \in Requests, SubmitReturn(r)
      PROVE  IInv'
  <2>1. QueueInv'
    BY <1>5 DEF QueueInv, SubmitReturn
  <2>2. EngineInv'
    BY <1>5 DEF EngineInv, HandleInv, SubmitReturn
  <2>3. ASSUME NEW q \in Requests PROVE HandleInv(q)'
    BY <1>5 DEF HandleInv, Owned, SubmitReturn
  <2>4. ASSUME NEW q \in Requests PROVE ThreadInv(q)'
    BY <1>5 DEF ThreadInv, Acts, InProgress, SubmitReturn
  <2>5. NoSelfJoin'
    BY <1>5 DEF NoSelfJoin, ThreadInv, SubmitReturn
  <2> QED BY <1>5, <2>1, <2>2, <2>3, <2>4, <2>5 DEF SubmitReturn
<1>6. ASSUME NEW t \in Threads, NEW r \in Requests, CancelProbe(t, r)
      PROVE  IInv'
  <2>1. QueueInv'
    BY <1>6 DEF QueueInv, CancelProbe, MayUse, RunsFor
  <2>2. EngineInv'
    BY <1>6 DEF EngineInv, HandleInv, CancelProbe, MayUse, RunsFor
  <2>3. ASSUME NEW q \in Requests PROVE HandleInv(q)'
    BY <1>6 DEF HandleInv, Owned, CancelProbe, MayUse, RunsFor
  <2>4. ASSUME NEW q \in Requests PROVE ThreadInv(q)'
    BY <1>6 DEF ThreadInv, Acts, InProgress, CancelProbe, MayUse, RunsFor
  <2>5. NoSelfJoin'
    BY <1>6 DEF NoSelfJoin, ThreadInv, CancelProbe, MayUse, RunsFor
  <2> QED BY <1>6, <2>1, <2>2, <2>3, <2>4, <2>5 DEF CancelProbe, MayUse, RunsFor
<1>7. ASSUME NEW r \in Requests, CancelNative(r)
      PROVE  IInv'
  <2>1. QueueInv'
    BY <1>7 DEF QueueInv, CancelNative
  <2>2. EngineInv'
    BY <1>7 DEF EngineInv, HandleInv, CancelNative
  <2>3. ASSUME NEW q \in Requests PROVE HandleInv(q)'
    BY <1>7 DEF HandleInv, Owned, CancelNative
  <2>4. ASSUME NEW q \in Requests PROVE ThreadInv(q)'
    BY <1>7 DEF ThreadInv, Acts, InProgress, CancelNative
  <2>5. NoSelfJoin'
    BY <1>7 DEF NoSelfJoin, ThreadInv, CancelNative
  <2> QED BY <1>7, <2>1, <2>2, <2>3, <2>4, <2>5 DEF CancelNative
<1>8. ASSUME NEW r \in Requests, CancelFails(r)
      PROVE  IInv'
  <2>1. QueueInv'
    BY <1>8 DEF QueueInv, CancelFails
  <2>2. EngineInv'
    BY <1>8 DEF EngineInv, HandleInv, CancelFails
  <2>3. ASSUME NEW q \in Requests PROVE HandleInv(q)'
    BY <1>8 DEF HandleInv, Owned, CancelFails
  <2>4. ASSUME NEW q \in Requests PROVE ThreadInv(q)'
    BY <1>8 DEF ThreadInv, Acts, InProgress, CancelFails
  <2>5. NoSelfJoin'
    BY <1>8 DEF NoSelfJoin, ThreadInv, CancelFails
  <2> QED BY <1>8, <2>1, <2>2, <2>3, <2>4, <2>5 DEF CancelFails
<1>9. ASSUME NEW t \in Threads, NEW r \in Requests, WaitEnter(t, r)
      PROVE  IInv'
  <2>1. QueueInv'
    BY <1>9 DEF QueueInv, WaitEnter, MayUse, RunsFor
  <2>2. EngineInv'
    BY <1>9 DEF EngineInv, HandleInv, WaitEnter, MayUse, RunsFor
  <2>3. ASSUME NEW q \in Requests PROVE HandleInv(q)'
    BY <1>9 DEF HandleInv, Owned, WaitEnter, MayUse, RunsFor
  <2>4. ASSUME NEW q \in Requests PROVE ThreadInv(q)'
    BY <1>9 DEF ThreadInv, Acts, InProgress, WaitEnter, MayUse, RunsFor
  <2>5. NoSelfJoin'
    BY <1>9 DEF NoSelfJoin, ThreadInv, is_native_callback_thread,
       is_delivery_thread, is_active_on_current_thread, WaitEnter, MayUse,
       RunsFor
  <2> QED BY <1>9, <2>1, <2>2, <2>3, <2>4, <2>5 DEF WaitEnter, MayUse, RunsFor
<1>10. ASSUME NEW r \in Requests, WaitReturn(r)
       PROVE  IInv'
  <2>1. QueueInv'
    BY <1>10 DEF QueueInv, WaitReturn
  <2>2. EngineInv'
    BY <1>10 DEF EngineInv, HandleInv, WaitReturn
  <2>3. ASSUME NEW q \in Requests PROVE HandleInv(q)'
    BY <1>10 DEF HandleInv, Owned, WaitReturn
  <2>4. ASSUME NEW q \in Requests PROVE ThreadInv(q)'
    BY <1>10 DEF ThreadInv, Acts, InProgress, WaitReturn
  <2>5. NoSelfJoin'
    BY <1>10 DEF NoSelfJoin, ThreadInv, is_native_callback_thread,
       is_delivery_thread, is_active_on_current_thread, WaitReturn
  <2> QED BY <1>10, <2>1, <2>2, <2>3, <2>4, <2>5 DEF WaitReturn
<1>11. ASSUME NEW t \in Threads, NEW r \in Requests, DropNow(t, r)
       PROVE  IInv'
  <2>1. QueueInv'
    BY <1>11 DEF QueueInv, DropNow, FreeEnter, MayUse, RunsFor
  <2>2. EngineInv'
    BY <1>11 DEF EngineInv, HandleInv, DropNow, FreeEnter, MayUse, RunsFor
  <2>3. ASSUME NEW q \in Requests PROVE HandleInv(q)'
    BY <1>11 DEF HandleInv, Owned, DropNow, FreeEnter, MayUse, RunsFor
  <2>4. ASSUME NEW q \in Requests PROVE ThreadInv(q)'
    BY <1>11 DEF ThreadInv, Acts, InProgress, DropNow, FreeEnter, MayUse,
       RunsFor
  <2>5. NoSelfJoin'
    BY <1>11 DEF NoSelfJoin, ThreadInv, is_native_callback_thread,
       is_delivery_thread, is_active_on_current_thread, DropNow, FreeEnter,
       MayUse, RunsFor
  <2> QED BY <1>11, <2>1, <2>2, <2>3, <2>4, <2>5 DEF DropNow, FreeEnter, MayUse,
     RunsFor
<1>12. ASSUME NEW t \in Threads, NEW r \in Requests, DropDeferred(t, r)
       PROVE  IInv'
  <2>1. reaper = "running" /\ stage[r] = "live"
    BY <1>12 DEF DropDeferred, MayUse, HandleInv
  <2>2. /\ queue' = Append(queue, r)
        /\ stage' = [stage EXCEPT ![r] = "queued"]
        /\ UNCHANGED process
    BY <1>12, <2>1 DEF DropDeferred
  <2>3. QueueInv'
    <3>1. Len(queue') = Len(queue) + 1 /\ queue'[Len(queue) + 1] = r
      BY <2>2
    <3>2. \A k \in 1..Len(queue) : queue'[k] = queue[k] /\ queue[k] \in Requests
      BY <2>2
    <3>3. \A k \in 1..Len(queue) : queue[k] # r
      BY <2>1 DEF QueueInv
    <3> QED BY <2>2, <3>1, <3>2, <3>3 DEF QueueInv
  <2>4. EngineInv'
    BY <1>12 DEF EngineInv, HandleInv, DropDeferred
  <2>5. ASSUME NEW q \in Requests PROVE HandleInv(q)'
    BY <1>12 DEF HandleInv, Owned, DropDeferred, MayUse
  <2>6. ASSUME NEW q \in Requests PROVE ThreadInv(q)'
    BY <1>12 DEF ThreadInv, Acts, InProgress, DropDeferred
  <2>7. NoSelfJoin'
    BY <1>12 DEF NoSelfJoin, ThreadInv, DropDeferred
  <2> QED BY <1>12, <2>1, <2>2, <2>3, <2>4, <2>5, <2>6, <2>7 DEF DropDeferred
<1>13. ASSUME ReaperReceive
       PROVE  IInv'
  <2>1. PICK r \in Requests : r = Head(queue)
    BY <1>13 DEF ReaperReceive
  <2>2. /\ queue # <<>> /\ queue' = Tail(queue)
        /\ stage' = [stage EXCEPT ![r] = "join"]
    BY <1>13, <2>1 DEF ReaperReceive, FreeEnter
  <2>3. stage[r] = "queued"
    BY <2>1, <2>2 DEF QueueInv
  <2>4. QueueInv'
    <3>1. \A k \in 1..Len(queue') :
              k + 1 \in 1..Len(queue) /\ queue'[k] = queue[k + 1]
      BY <2>2
    <3>2. \A k \in 1..Len(queue') : queue'[k] # r
      BY <2>1, <2>2, <3>1 DEF QueueInv
    <3> QED BY <2>2, <3>1, <3>2 DEF QueueInv
  <2>5. EngineInv'
    BY <1>13 DEF EngineInv, HandleInv, ReaperReceive, FreeEnter
  <2>6. ASSUME NEW q \in Requests PROVE HandleInv(q)'
    BY <1>13, <2>1, <2>3 DEF HandleInv, Owned, ReaperReceive, FreeEnter
  <2>7. ASSUME NEW q \in Requests PROVE ThreadInv(q)'
    BY <1>13 DEF ThreadInv, Acts, InProgress, ReaperReceive, FreeEnter
  <2>8. NoSelfJoin'
    BY <1>13 DEF NoSelfJoin, ThreadInv, ReaperReceive, FreeEnter
  <2> QED BY <1>13, <2>4, <2>5, <2>6, <2>7, <2>8 DEF ReaperReceive,
     FreeEnter
<1>14. ASSUME NEW r \in Requests, FreeReturn(r)
       PROVE  IInv'
  <2>1. QueueInv'
    BY <1>14 DEF QueueInv, FreeReturn, native_done
  <2>2. EngineInv'
    BY <1>14 DEF EngineInv, HandleInv, FreeReturn, native_done
  <2>3. ASSUME NEW q \in Requests PROVE HandleInv(q)'
    BY <1>14 DEF HandleInv, Owned, FreeReturn, native_done
  <2>4. ASSUME NEW q \in Requests PROVE ThreadInv(q)'
    BY <1>14 DEF ThreadInv, Acts, InProgress, FreeReturn, native_done
  <2>5. NoSelfJoin'
    BY <1>14 DEF NoSelfJoin, ThreadInv, FreeReturn, native_done
  <2> QED BY <1>14, <2>1, <2>2, <2>3, <2>4, <2>5 DEF FreeReturn, native_done
<1>15. ASSUME NEW r \in Requests, DropCallback(r)
       PROVE  IInv'
  <2>1. QueueInv'
    BY <1>15 DEF QueueInv, DropCallback
  <2>2. EngineInv'
    BY <1>15 DEF EngineInv, HandleInv, DropCallback
  <2>3. ASSUME NEW q \in Requests PROVE HandleInv(q)'
    BY <1>15 DEF HandleInv, Owned, DropCallback
  <2>4. ASSUME NEW q \in Requests PROVE ThreadInv(q)'
    BY <1>15 DEF ThreadInv, Acts, InProgress, DropCallback
  <2>5. NoSelfJoin'
    BY <1>15 DEF NoSelfJoin, ThreadInv, DropCallback
  <2> QED BY <1>15, <2>1, <2>2, <2>3, <2>4, <2>5 DEF DropCallback
<1>16. ASSUME NEW r \in Requests, DropRegistration(r)
       PROVE  IInv'
  <2>1. QueueInv'
    BY <1>16 DEF QueueInv, DropRegistration
  <2>2. EngineInv'
    BY <1>16 DEF EngineInv, HandleInv, DropRegistration
  <2>3. ASSUME NEW q \in Requests PROVE HandleInv(q)'
    BY <1>16 DEF HandleInv, Owned, DropRegistration
  <2>4. ASSUME NEW q \in Requests PROVE ThreadInv(q)'
    BY <1>16 DEF ThreadInv, Acts, InProgress, DropRegistration
  <2>5. NoSelfJoin'
    BY <1>16 DEF NoSelfJoin, ThreadInv, DropRegistration
  <2> QED BY <1>16, <2>1, <2>2, <2>3, <2>4, <2>5 DEF DropRegistration
<1>17. ASSUME NEW r \in Requests, DropEngine(r)
       PROVE  IInv'
  <2>1. QueueInv'
    BY <1>17 DEF QueueInv, DropEngine, Release
  <2>2. EngineInv'
    BY <1>17 DEF EngineInv, HandleInv, DropEngine, Release
  <2>3. ASSUME NEW q \in Requests PROVE HandleInv(q)'
    BY <1>17 DEF HandleInv, Owned, DropEngine, Release
  <2>4. ASSUME NEW q \in Requests PROVE ThreadInv(q)'
    BY <1>17 DEF ThreadInv, Acts, InProgress, DropEngine, Release
  <2>5. NoSelfJoin'
    BY <1>17 DEF NoSelfJoin, ThreadInv, DropEngine, Release
  <2> QED BY <1>17, <2>1, <2>2, <2>3, <2>4, <2>5 DEF DropEngine, Release
<1>18. ASSUME NEW c \in Callers, DropEngineClone(c)
       PROVE  IInv'
  <2>1. QueueInv'
    BY <1>18 DEF QueueInv, DropEngineClone, Release, Busy, Acts, InProgress
  <2>2. EngineInv'
    BY <1>18 DEF EngineInv, HandleInv, DropEngineClone, Release, Busy, Acts,
       InProgress
  <2>3. ASSUME NEW q \in Requests PROVE HandleInv(q)'
    BY <1>18 DEF HandleInv, Owned, DropEngineClone, Release, Busy, Acts,
       InProgress
  <2>4. ASSUME NEW q \in Requests PROVE ThreadInv(q)'
    BY <1>18 DEF ThreadInv, Acts, InProgress, DropEngineClone, Release, Busy
  <2>5. NoSelfJoin'
    BY <1>18 DEF NoSelfJoin, ThreadInv, DropEngineClone, Release, Busy, Acts,
       InProgress
  <2> QED BY <1>18, <2>1, <2>2, <2>3, <2>4, <2>5 DEF DropEngineClone, Release,
     Busy, Acts, InProgress
<1>19. ASSUME EngineFreeReturn
       PROVE  IInv'
  <2>1. QueueInv' /\ EngineInv'
    BY <1>19 DEF QueueInv, EngineInv, EngineFreeReturn
  <2>2. ASSUME NEW q \in Requests PROVE HandleInv(q)'
    BY <1>19 DEF HandleInv, Owned, EngineFreeReturn
  <2>3. ASSUME NEW q \in Requests PROVE ThreadInv(q)'
    BY <1>19 DEF ThreadInv, Acts, InProgress, EngineFreeReturn
  <2>4. NoSelfJoin'
    BY <1>19 DEF NoSelfJoin, ThreadInv, EngineFreeReturn
  <2> QED BY <1>19, <2>1, <2>2, <2>3, <2>4 DEF EngineFreeReturn
<1>20. ASSUME NEW r \in Requests, NEW finished \in BOOLEAN,
              Deliver(r, finished)
       PROVE  IInv'
  <2>1. QueueInv' /\ EngineInv'
    BY <1>20 DEF QueueInv, EngineInv, Deliver, CanDeliver,
       record_delivery_thread
  <2>2. ASSUME NEW q \in Requests PROVE HandleInv(q)'
    BY <1>20 DEF HandleInv, Owned, Deliver, CanDeliver, record_delivery_thread
  <2>3. ASSUME NEW q \in Requests PROVE ThreadInv(q)'
    BY <1>20 DEF ThreadInv, Acts, InProgress, Deliver, CanDeliver,
       record_delivery_thread
  <2>4. NoSelfJoin'
    BY <1>20 DEF NoSelfJoin, ThreadInv, Deliver, CanDeliver,
       record_delivery_thread
  <2> QED BY <1>20, <2>1, <2>2, <2>3, <2>4 DEF Deliver, CanDeliver,
     record_delivery_thread
<1>21. ASSUME NEW r \in Requests, NEW finished \in BOOLEAN,
              DeliverInvalid(r, finished)
       PROVE  IInv'
  <2>1. QueueInv' /\ EngineInv'
    BY <1>21 DEF QueueInv, EngineInv, DeliverInvalid, CanDeliver, record_error,
       record_delivery_thread
  <2>2. ASSUME NEW q \in Requests PROVE HandleInv(q)'
    BY <1>21 DEF HandleInv, Owned, DeliverInvalid, CanDeliver, record_error,
       record_delivery_thread
  <2>3. ASSUME NEW q \in Requests PROVE ThreadInv(q)'
    BY <1>21 DEF ThreadInv, Acts, InProgress, DeliverInvalid, CanDeliver,
       record_error, record_delivery_thread
  <2>4. NoSelfJoin'
    BY <1>21 DEF NoSelfJoin, ThreadInv, DeliverInvalid, CanDeliver,
       record_error, record_delivery_thread
  <2> QED BY <1>21, <2>1, <2>2, <2>3, <2>4 DEF DeliverInvalid, CanDeliver,
     record_error, record_delivery_thread
<1>22. ASSUME NEW r \in Requests, NEW control \in {"Continue", "Stop", "Panic"},
              CallbackReturn(r, control)
       PROVE  IInv'
  <2>1. QueueInv' /\ EngineInv'
    BY <1>22 DEF QueueInv, EngineInv, CallbackReturn, record_result
  <2>2. ASSUME NEW q \in Requests PROVE HandleInv(q)'
    BY <1>22 DEF HandleInv, Owned, CallbackReturn, record_result
  <2>3. ASSUME NEW q \in Requests PROVE ThreadInv(q)'
    BY <1>22 DEF ThreadInv, Acts, InProgress, CallbackReturn, record_result
  <2>4. NoSelfJoin'
    BY <1>22 DEF NoSelfJoin, ThreadInv, CallbackReturn, record_result
  <2> QED BY <1>22, <2>1, <2>2, <2>3, <2>4 DEF CallbackReturn, record_result
<1>23. ASSUME NEW r \in Requests, DeliveryEnd(r)
       PROVE  IInv'
  <2>1. QueueInv' /\ EngineInv'
    BY <1>23 DEF QueueInv, EngineInv, DeliveryEnd
  <2>2. ASSUME NEW q \in Requests PROVE HandleInv(q)'
    BY <1>23 DEF HandleInv, Owned, DeliveryEnd
  <2>3. ASSUME NEW q \in Requests PROVE ThreadInv(q)'
    BY <1>23 DEF ThreadInv, Acts, InProgress, DeliveryEnd
  <2>4. NoSelfJoin'
    BY <1>23 DEF NoSelfJoin, ThreadInv, DeliveryEnd
  <2> QED BY <1>23, <2>1, <2>2, <2>3, <2>4 DEF DeliveryEnd
<1>24. ASSUME NEW w \in Workers, NEW r \in Requests, ProcessorEnter(w, r)
       PROVE  IInv'
  <2>1. QueueInv' /\ EngineInv'
    BY <1>24 DEF QueueInv, EngineInv, ProcessorEnter, CanInvoke, Acts,
       InProgress
  <2>2. ASSUME NEW q \in Requests PROVE HandleInv(q)'
    BY <1>24 DEF HandleInv, Owned, ProcessorEnter, CanInvoke, Acts, InProgress
  <2>3. ASSUME NEW q \in Requests PROVE ThreadInv(q)'
    BY <1>24 DEF ThreadInv, Acts, InProgress, ProcessorEnter, CanInvoke
  <2>4. NoSelfJoin'
    BY <1>24 DEF NoSelfJoin, ThreadInv, ProcessorEnter, CanInvoke, Acts,
       InProgress
  <2> QED BY <1>24, <2>1, <2>2, <2>3, <2>4 DEF ProcessorEnter, CanInvoke, Acts,
     InProgress
<1>25. ASSUME NEW w \in Workers, NEW r \in Requests, ProcessorInvalid(w, r)
       PROVE  IInv'
  <2>1. QueueInv' /\ EngineInv'
    BY <1>25 DEF QueueInv, EngineInv, ProcessorInvalid
  <2>2. ASSUME NEW q \in Requests PROVE HandleInv(q)'
    BY <1>25 DEF HandleInv, Owned, ProcessorInvalid
  <2>3. ASSUME NEW q \in Requests PROVE ThreadInv(q)'
    BY <1>25 DEF ThreadInv, Acts, InProgress, ProcessorInvalid
  <2>4. NoSelfJoin'
    BY <1>25 DEF NoSelfJoin, ThreadInv, ProcessorInvalid
  <2> QED BY <1>25, <2>1, <2>2, <2>3, <2>4 DEF ProcessorInvalid
<1>26. ASSUME NEW w \in Workers, NEW r \in Requests, NEW panics \in BOOLEAN,
              ProcessorReturn(w, r, panics)
       PROVE  IInv'
  <2>1. QueueInv' /\ EngineInv'
    BY <1>26 DEF QueueInv, EngineInv, ProcessorReturn, Busy
  <2>2. ASSUME NEW q \in Requests PROVE HandleInv(q)'
    BY <1>26 DEF HandleInv, Owned, ProcessorReturn, Busy
  <2>3. ASSUME NEW q \in Requests PROVE ThreadInv(q)'
    BY <1>26 DEF ThreadInv, Acts, InProgress, ProcessorReturn, Busy
  <2>4. NoSelfJoin'
    BY <1>26 DEF NoSelfJoin, ThreadInv, ProcessorReturn, Busy
  <2> QED BY <1>26, <2>1, <2>2, <2>3, <2>4 DEF ProcessorReturn, Busy
<1>27. ASSUME UNCHANGED vars
       PROVE  IInv'
  BY <1>27 DEF vars, QueueInv, EngineInv, HandleInv, ThreadInv, NoSelfJoin, Acts
<1> HIDE DEF IInv, TypeOK
<1> QED
  BY <1>1, <1>2, <1>3, <1>4, <1>5, <1>6, <1>7, <1>8, <1>9, <1>10, <1>11, <1>12,
     <1>13, <1>14, <1>15, <1>16, <1>17, <1>18, <1>19, <1>20, <1>21, <1>22,
     <1>23, <1>24, <1>25, <1>26, <1>27 DEF Next, Resume, Application, Native,
     Finished

\* Stages, owned handles, jobs and deliveries fit together in every reachable state
\* (Request, CleanupJob and the trampoline, request.rs).
THEOREM Invariant == Spec => []IInv
<1>1. TypeOK /\ IInv /\ [Next]_vars => IInv'
  BY InvStep
<1> QED BY InvInit, TypeCorrect, <1>1, PTL DEF Spec

\* The boxed callback state is allocated as long as the delivery thread can call
\* back (CleanupJob::cleanup_now drops it after vllm_request_free).
THEOREM CallbackLives == Spec => []CallbackOutlivesDelivery
<1>1. TypeOK /\ IInv => CallbackOutlivesDelivery
  BY DEF TypeOK, IInv, HandleInv, CallbackOutlivesDelivery, Stages, Submitting,
         Using, Cleaning
<1> QED BY TypeCorrect, Invariant, <1>1, PTL

\* The engine is freed neither under a running native request nor under one whose
\* handle an operation may still use (the Arc in Request and CleanupJob).
THEOREM EngineLives == Spec => []EngineOutlivesRequest
<1>1. TypeOK /\ IInv => EngineOutlivesRequest
  BY DEF TypeOK, IInv, EngineInv, HandleInv, EngineOutlivesRequest, Owned, Stages,
         Submitting, Using, Cleaning
<1> QED BY TypeCorrect, Invariant, <1>1, PTL

\* No thread waits for or frees a request from that request's own callbacks.
THEOREM NeverJoinsItself == Spec => []NoSelfJoin
<1>1. IInv => NoSelfJoin
  BY DEF IInv
<1> QED BY Invariant, <1>1, PTL

\* A deferred drop always finds the reaper running (cleanup_sender runs first in
\* Engine::submit), so defer_to_reaper never aborts.
THEOREM NeverAborts == Spec => []DropNeverAborts
<1>1. IInv => DropNeverAborts
  BY DEF IInv, DropNeverAborts
<1> QED BY Invariant, <1>1, PTL

\* What the names of the places mean to RequestOwnership.
LEMMA Places ==
    /\ HandleAt("none") = "none" /\ HandleAt("submit") = "none"
    /\ HandleAt("failed") = "refused" /\ HandleAt("released") = "gone"
    /\ \A place \in {"return", "live"} \cup Using : HandleAt(place) = "held"
    /\ \A place \in {"queued"} \cup Cleaning : HandleAt(place) = "closing"
    /\ NativeAt("none") = "none" /\ NativeAt("done") = "over"
    /\ \A place \in {"waiting", "body"} : NativeAt(place) = "running"
BY DEF HandleAt, NativeAt, Using, Cleaning

\* The engine has owners exactly as long as RequestOwnership calls it in use.
LEMMA OwnersInUse ==
    ASSUME TypeOK, IInv
    PROVE  Ownership!InUse <=> engineHolders # {}
<1>1. ASSUME NEW r \in Requests
      PROVE  /\ HandleSeen[r] = HandleAt(stage[r])
             /\ stage[r] \in Stages
             /\ stage[r] \in Owned <=> r \in engineHolders
             /\ stage[r] \in Submitting => engineHolders # {}
             /\ engineHolders \subseteq Callers \cup Requests
  BY DEF HandleSeen, TypeOK, IInv, HandleInv
<1>2. ASSUME NEW r \in Requests, r \in engineHolders
      PROVE  HandleSeen[r] \in {"held", "closing"}
  <2>1. stage[r] \in Owned /\ HandleSeen[r] = HandleAt(stage[r])
    BY <1>1, <1>2
  <2> QED BY <2>1, Places DEF Owned
<1>3. ASSUME NEW r \in Requests, HandleSeen[r] \in {"held", "closing"}
      PROVE  engineHolders # {}
  <2>1. HandleAt(stage[r]) \in {"held", "closing"} /\ stage[r] \in Stages
    BY <1>1, <1>3
  <2>2. stage[r] \in Owned \cup Submitting
    BY <2>1, Places DEF Stages, Owned, Submitting
  <2> QED BY <2>2, <1>1
<1>4. engineHolders \subseteq Callers \cup Requests
  BY DEF TypeOK
<1> QED BY <1>2, <1>3, <1>4 DEF Ownership!InUse, ClonesSeen

LEMMA OwnersInUseNext ==
    TypeOK' /\ IInv' => (Ownership!InUse' <=> engineHolders' # {})
<1> DEFINE Agree == Ownership!InUse <=> engineHolders # {}
<1>1. TypeOK /\ IInv => Agree
  BY OwnersInUse
<1> HIDE DEF Agree
<1>2. TypeOK' /\ IInv' => Agree'
  BY <1>1, PTL
<1> QED BY <1>2 DEF Agree

\* A step that moves no request to another place in the eyes of RequestOwnership.
LEMMA MappingStays ==
    ASSUME TypeOK
    PROVE  /\ stage' = stage => HandleSeen' = HandleSeen
           /\ delivery' = delivery => NativeSeen' = NativeSeen
           /\ engineHolders' = engineHolders => ClonesSeen' = ClonesSeen
           /\ \A r \in Requests : \A place :
                  /\ stage' = [stage EXCEPT ![r] = place]
                     /\ HandleAt(place) = HandleAt(stage[r]) =>
                         HandleSeen' = HandleSeen
                  /\ delivery' = [delivery EXCEPT ![r] = place]
                     /\ NativeAt(place) = NativeAt(delivery[r]) =>
                         NativeSeen' = NativeSeen
BY DEF TypeOK, HandleSeen, NativeSeen, ClonesSeen

\* Every step of the code is a step of RequestOwnership, or one it does not see: a
\* drop that is deferred closes a request as one that is not, and the reaper's work is
\* the release.
LEMMA StepRefines ==
    ASSUME TypeOK, IInv, IInv', TypeOK', [Next]_vars
    PROVE  [Ownership!Next]_(Ownership!vars)
<1> USE DEF processVars, engineVars, handleVars, processorVars, nativeVars,
            Begin, Advance, End
<1> DEFINE Step == [Ownership!Next]_(Ownership!vars)
           Unseen == /\ HandleSeen' = HandleSeen /\ NativeSeen' = NativeSeen
                     /\ ClonesSeen' = ClonesSeen /\ engine' = engine
<1>stutter. Unseen => Step
  BY DEF Ownership!vars
<1> HIDE DEF Unseen
<1>types. /\ stage \in [Requests -> Stages]
          /\ delivery \in [Requests -> {"none", "waiting", "body", "done"}]
  BY DEF TypeOK
<1>clones. \A c \in Callers : c \in engineHolders => ClonesSeen # {}
  BY DEF ClonesSeen
<1>1. ASSUME NEW c \in Callers, NEW r \in Requests, SubmitFails(c, r)
      PROVE  Step
  <2>1. /\ stage[r] = "none" /\ c \in engineHolders
        /\ stage' = [stage EXCEPT ![r] = "failed"]
        /\ UNCHANGED <<delivery, engineHolders, engine>>
    BY <1>1 DEF SubmitFails
  <2>2. /\ HandleSeen[r] = "none" /\ HandleSeen' = [HandleSeen EXCEPT ![r] = "refused"]
        /\ UNCHANGED <<NativeSeen, ClonesSeen>>
    BY <2>1, <1>types, MappingStays, Places DEF HandleSeen, NativeSeen
  <2>3. Ownership!Refuse(r)
    BY <2>1, <2>2, <1>clones DEF Ownership!Refuse
  <2> QED BY <2>3 DEF Ownership!Next
<1>2. ASSUME NEW c \in Callers, NEW r \in Requests, SubmitPrepare(c, r)
      PROVE  Step
  <2>1. /\ stage[r] = "none" /\ stage' = [stage EXCEPT ![r] = "submit"]
        /\ UNCHANGED <<delivery, engineHolders, engine>>
    BY <1>2 DEF SubmitPrepare
  <2> QED BY <2>1, MappingStays, Places, <1>stutter DEF Unseen
<1>3. ASSUME NEW r \in Requests, NativeSubmit(r)
      PROVE  Step
  <2>1. /\ stage[r] = "submit" /\ stage' = [stage EXCEPT ![r] = "return"]
        /\ delivery' = [delivery EXCEPT ![r] = "waiting"]
        /\ UNCHANGED <<engineHolders, engine>>
    BY <1>3 DEF NativeSubmit
  <2>2. ClonesSeen # {}
    BY <2>1 DEF IInv, HandleInv, Submitting, ClonesSeen
  <2>3. /\ HandleSeen[r] = "none" /\ HandleSeen' = [HandleSeen EXCEPT ![r] = "held"]
        /\ NativeSeen' = [NativeSeen EXCEPT ![r] = "running"]
        /\ UNCHANGED ClonesSeen
    BY <2>1, <1>types, MappingStays, Places DEF HandleSeen, NativeSeen
  <2>4. Ownership!Submit(r)
    BY <2>1, <2>2, <2>3 DEF Ownership!Submit
  <2> QED BY <2>4 DEF Ownership!Next
<1>4. ASSUME NEW r \in Requests, NativeSubmitFails(r)
      PROVE  Step
  <2>1. /\ stage[r] = "submit" /\ stage' = [stage EXCEPT ![r] = "failed"]
        /\ UNCHANGED <<delivery, engineHolders, engine>>
    BY <1>4 DEF NativeSubmitFails
  <2>2. ClonesSeen # {}
    BY <2>1 DEF IInv, HandleInv, Submitting, ClonesSeen
  <2>3. /\ HandleSeen[r] = "none" /\ HandleSeen' = [HandleSeen EXCEPT ![r] = "refused"]
        /\ UNCHANGED <<NativeSeen, ClonesSeen>>
    BY <2>1, <1>types, MappingStays, Places DEF HandleSeen, NativeSeen
  <2>4. Ownership!Refuse(r)
    BY <2>1, <2>2, <2>3 DEF Ownership!Refuse
  <2> QED BY <2>4 DEF Ownership!Next
<1>5. ASSUME NEW r \in Requests, SubmitReturn(r)
      PROVE  Step
  <2>1. /\ stage[r] = "return" /\ stage' = [stage EXCEPT ![r] = "live"]
        /\ UNCHANGED <<delivery, engine>> /\ engineHolders' = engineHolders \cup {r}
    BY <1>5 DEF SubmitReturn
  <2>2. ClonesSeen' = ClonesSeen
    BY <2>1, ThreadsDisjoint DEF ClonesSeen
  <2> QED BY <2>1, <2>2, MappingStays, Places, <1>stutter DEF Unseen
<1>6. ASSUME NEW r \in Requests, NEW t \in Threads,
             \/ CancelProbe(t, r) \/ WaitEnter(t, r)
             \/ CancelNative(r) \/ CancelFails(r) \/ WaitReturn(r)
      PROVE  Step
  <2>1. PICK place \in {"live"} \cup Using :
            /\ stage[r] \in {"live"} \cup Using
            /\ stage' = [stage EXCEPT ![r] = place]
            /\ UNCHANGED <<delivery, engineHolders, engine>>
    BY <1>6 DEF CancelProbe, WaitEnter, CancelNative, CancelFails, WaitReturn,
                MayUse, Using
  <2>2. HandleAt(place) = "held" /\ HandleAt(stage[r]) = "held"
    BY <2>1, Places
  <2> QED BY <2>1, <2>2, MappingStays, <1>stutter DEF Unseen
<1>7. ASSUME NEW t \in Threads, NEW r \in Requests, DropNow(t, r) \/ DropDeferred(t, r)
      PROVE  Step
  <2>1. PICK place \in {"queued"} \cup Cleaning :
            /\ stage[r] = "live"
            /\ stage' = [stage EXCEPT ![r] = place]
            /\ UNCHANGED <<delivery, engineHolders, engine>>
    BY <1>7 DEF DropNow, DropDeferred, FreeEnter, MayUse, Cleaning, IInv, HandleInv
  <2>2. /\ HandleSeen[r] = "held" /\ HandleSeen' = [HandleSeen EXCEPT ![r] = "closing"]
        /\ UNCHANGED <<NativeSeen, ClonesSeen>>
    BY <2>1, <1>types, MappingStays, Places DEF HandleSeen, NativeSeen
  <2>3. Ownership!Close(r)
    BY <2>1, <2>2 DEF Ownership!Close
  <2> QED BY <2>3 DEF Ownership!Next
<1>8. ASSUME ReaperReceive
      PROVE  Step
  <2>1. PICK r \in Requests : r = Head(queue) /\ stage[r] = "queued"
    BY <1>8 DEF ReaperReceive, TypeOK, IInv, QueueInv
  <2>2. /\ stage' = [stage EXCEPT ![r] = "join"]
        /\ UNCHANGED <<delivery, engineHolders, engine>>
    BY <1>8, <2>1 DEF ReaperReceive, FreeEnter
  <2> QED BY <2>1, <2>2, MappingStays, Places, <1>stutter DEF Unseen, Cleaning
<1>9. ASSUME NEW r \in Requests,
             FreeReturn(r) \/ DropCallback(r) \/ DropRegistration(r)
      PROVE  Step
  <2>1. PICK place \in Cleaning :
            /\ stage[r] \in Cleaning
            /\ stage' = [stage EXCEPT ![r] = place]
            /\ UNCHANGED <<delivery, engineHolders, engine>>
    BY <1>9 DEF FreeReturn, DropCallback, DropRegistration, Cleaning
  <2> QED BY <2>1, MappingStays, Places, <1>stutter DEF Unseen
<1>10. ASSUME NEW r \in Requests, DropEngine(r)
       PROVE  Step
  <2>1. /\ stage[r] = "drop_engine" /\ stage' = [stage EXCEPT ![r] = "released"]
        /\ delivery[r] = "done" /\ delivery' = delivery
        /\ engineHolders' = engineHolders \ {r}
        /\ engine' = IF engineHolders' = {} THEN "freeing" ELSE engine
    BY <1>10 DEF DropEngine, Release, IInv, HandleInv, Cleaning
  <2>2. ClonesSeen' = ClonesSeen
    BY <2>1, ThreadsDisjoint DEF ClonesSeen
  <2>3. /\ HandleSeen[r] = "closing" /\ HandleSeen' = [HandleSeen EXCEPT ![r] = "gone"]
        /\ NativeSeen[r] = "over" /\ NativeSeen' = NativeSeen
    BY <2>1, <1>types, MappingStays, Places DEF HandleSeen, NativeSeen, Cleaning
  <2>4. Ownership!InUse' <=> engineHolders' # {}
    BY OwnersInUseNext
  <2>5. Ownership!Release(r)
    BY <2>1, <2>2, <2>3, <2>4 DEF Ownership!Release, Ownership!FreeIfUnused
  <2> QED BY <2>5 DEF Ownership!Next
<1>11. ASSUME NEW c \in Callers, DropEngineClone(c)
       PROVE  Step
  <2>1. /\ c \in engineHolders /\ engineHolders' = engineHolders \ {c}
        /\ engine' = IF engineHolders' = {} THEN "freeing" ELSE engine
        /\ UNCHANGED <<stage, delivery>>
    BY <1>11 DEF DropEngineClone, Release
  <2>2. /\ c \in ClonesSeen /\ ClonesSeen' = ClonesSeen \ {c}
        /\ UNCHANGED <<HandleSeen, NativeSeen>>
    BY <2>1, MappingStays DEF ClonesSeen
  <2>3. Ownership!InUse' <=> engineHolders' # {}
    BY OwnersInUseNext
  <2>4. Ownership!DropClone(c)
    BY <2>1, <2>2, <2>3 DEF Ownership!DropClone, Ownership!FreeIfUnused
  <2> QED BY <2>4 DEF Ownership!Next
<1>12. ASSUME EngineFreeReturn
       PROVE  Step
  <2>1. /\ engine = "freeing" /\ engine' = "freed"
        /\ UNCHANGED <<stage, delivery, engineHolders>>
    BY <1>12 DEF EngineFreeReturn
  <2>2. UNCHANGED <<HandleSeen, NativeSeen, ClonesSeen>>
    BY <2>1, MappingStays
  <2>3. Ownership!EngineFreed
    BY <2>1, <2>2 DEF Ownership!EngineFreed
  <2> QED BY <2>3 DEF Ownership!Next
<1>13. ASSUME NEW r \in Requests,
              \/ \E finished \in BOOLEAN : Deliver(r, finished)
              \/ \E control \in {"Continue", "Stop", "Panic"} : CallbackReturn(r, control)
       PROVE  Step
  <2>1. PICK place \in {"waiting", "body"} :
            /\ delivery[r] \in {"waiting", "body"}
            /\ delivery' = [delivery EXCEPT ![r] = place]
            /\ UNCHANGED <<stage, engineHolders, engine>>
    BY <1>13 DEF Deliver, CanDeliver, CallbackReturn
  <2>2. NativeAt(place) = "running" /\ NativeAt(delivery[r]) = "running"
    BY <2>1, Places
  <2> QED BY <2>1, <2>2, MappingStays, <1>stutter DEF Unseen
<1>14. ASSUME NEW r \in Requests, DeliveryEnd(r)
       PROVE  Step
  <2>1. /\ delivery[r] = "waiting" /\ delivery' = [delivery EXCEPT ![r] = "done"]
        /\ UNCHANGED <<stage, engineHolders, engine>>
    BY <1>14 DEF DeliveryEnd
  <2>2. /\ NativeSeen[r] = "running" /\ NativeSeen' = [NativeSeen EXCEPT ![r] = "over"]
        /\ UNCHANGED <<HandleSeen, ClonesSeen>>
    BY <2>1, <1>types, MappingStays, Places DEF HandleSeen, NativeSeen
  <2>3. Ownership!End(r)
    BY <2>1, <2>2 DEF Ownership!End
  <2> QED BY <2>3 DEF Ownership!Next
<1>15. ASSUME UNCHANGED <<stage, delivery, engineHolders, engine>>
       PROVE  Step
  BY <1>15, MappingStays, <1>stutter DEF Unseen
<1>16. ASSUME NEW r \in Requests, Resume(r)
       PROVE  Step
  <2>1. Reaper \in Threads
    BY DEF Threads
  <2> HIDE DEF Step
  <2> QED BY <1>16, <2>1, <1>3, <1>4, <1>5, <1>6, <1>9, <1>10 DEF Resume
<1>17. ASSUME Application
       PROVE  Step
  <2> HIDE DEF Step
  <2> QED BY <1>17, <1>1, <1>2, <1>6, <1>7, <1>11 DEF Application
<1>18. ASSUME Native
       PROVE  Step
  <2>1. ASSUME NEW r \in Requests, NEW finished \in BOOLEAN, DeliverInvalid(r, finished)
        PROVE  UNCHANGED <<stage, delivery, engineHolders, engine>>
    BY <2>1 DEF DeliverInvalid
  <2>2. ASSUME NEW w \in Workers, NEW r \in Requests,
               \/ ProcessorEnter(w, r) \/ ProcessorInvalid(w, r)
               \/ \E panics \in BOOLEAN : ProcessorReturn(w, r, panics)
        PROVE  UNCHANGED <<stage, delivery, engineHolders, engine>>
    BY <2>2 DEF ProcessorEnter, ProcessorInvalid, ProcessorReturn
  <2> HIDE DEF Step
  <2> QED BY <1>18, <2>1, <2>2, <1>12, <1>13, <1>14, <1>15 DEF Native
<1>19. ASSUME UNCHANGED vars
       PROVE  Step
  BY <1>19, <1>15 DEF vars
<1> HIDE DEF Step
<1>20. Step
  BY <1>8, <1>16, <1>17, <1>18, <1>19 DEF Next, Finished
<1> QED BY <1>20 DEF Step

\* The code keeps what RequestOwnership promises of requests and engines, for every
\* number of requests and threads (request.rs; the Arc of engine.rs).
THEOREM Refinement == Spec => ImplementsOwnership
<1>1. ASSUME Init PROVE Ownership!Init
  <2>1. /\ stage = [r \in Requests |-> "none"] /\ delivery = [r \in Requests |-> "none"]
        /\ engineHolders = Callers /\ engine = "live"
    BY <1>1 DEF Init
  <2>2. HandleSeen = [r \in Requests |-> "none"]
    BY <2>1, Places DEF HandleSeen
  <2>3. NativeSeen = [r \in Requests |-> "none"]
    BY <2>1, Places DEF NativeSeen
  <2>4. ClonesSeen = Callers
    BY <2>1 DEF ClonesSeen
  <2> QED BY <2>1, <2>2, <2>3, <2>4 DEF Ownership!Init
<1>2. TypeOK /\ IInv /\ TypeOK' /\ IInv' /\ [Next]_vars
          => [Ownership!Next]_(Ownership!vars)
  BY StepRefines
<1>3. Init => Ownership!Init
  BY <1>1
<1> QED BY <1>2, <1>3, TypeCorrect, Invariant, PTL
           DEF Spec, ImplementsOwnership, Ownership!Spec
-----------------------------------------------------------------------------
(* What wait reports                                                         *)

\* The abstract promise in terms of the code: a native request has a Request that holds it,
\* and the engine is live as long as a clone or a request uses it (Request, OwnedEngine).
THEOREM PromiseKept == Spec => []Ownership!Promise
<1> USE DEF Ownership!Promise, Ownership!InUse
<1>1. Ownership!Init => Ownership!TypeOK /\ Ownership!Promise
  BY DEF Ownership!Init, Ownership!TypeOK
<1>2. ASSUME Ownership!TypeOK, Ownership!Promise, [Ownership!Next]_(Ownership!vars)
      PROVE  Ownership!TypeOK' /\ Ownership!Promise'
  <2> USE <1>2 DEF Ownership!TypeOK, Ownership!FreeIfUnused
  <2>1. ASSUME NEW r \in Requests, Ownership!Submit(r)
        PROVE  Ownership!TypeOK' /\ Ownership!Promise'
    BY <2>1 DEF Ownership!Submit
  <2>2. ASSUME NEW r \in Requests, Ownership!Refuse(r)
        PROVE  Ownership!TypeOK' /\ Ownership!Promise'
    BY <2>2 DEF Ownership!Refuse
  <2>3. ASSUME NEW r \in Requests, Ownership!End(r)
        PROVE  Ownership!TypeOK' /\ Ownership!Promise'
    BY <2>3 DEF Ownership!End
  <2>4. ASSUME NEW r \in Requests, Ownership!Close(r)
        PROVE  Ownership!TypeOK' /\ Ownership!Promise'
    BY <2>4 DEF Ownership!Close
  <2>5. ASSUME NEW r \in Requests, Ownership!Release(r)
        PROVE  Ownership!TypeOK' /\ Ownership!Promise'
    BY <2>5 DEF Ownership!Release
  <2>6. ASSUME NEW c \in Callers, Ownership!DropClone(c)
        PROVE  Ownership!TypeOK' /\ Ownership!Promise'
    BY <2>6 DEF Ownership!DropClone
  <2>7. ASSUME Ownership!EngineFreed
        PROVE  Ownership!TypeOK' /\ Ownership!Promise'
    BY <2>7 DEF Ownership!EngineFreed
  <2>8. CASE UNCHANGED Ownership!vars
    BY <2>8 DEF Ownership!vars
  <2> HIDE DEF Ownership!TypeOK, Ownership!Promise
  <2> QED BY <2>1, <2>2, <2>3, <2>4, <2>5, <2>6, <2>7, <2>8 DEF Ownership!Next
<1>3. Ownership!TypeOK /\ Ownership!Promise /\ [Ownership!Next]_(Ownership!vars)
          => Ownership!TypeOK' /\ Ownership!Promise'
  BY <1>2
<1> HIDE DEF Ownership!Promise
<1> QED BY <1>1, <1>3, Refinement, PTL DEF Ownership!Spec, ImplementsOwnership

\* The callback's record says what became of the last event (record_result and
\* record_error); the event is pending exactly while the callback runs.
CallbackInv(r) ==
    /\ delivery[r] = "body" <=> last[r].control = "Pending"
    /\ outcome[r].panic <=> last[r].control = "Panic"
    /\ outcome[r].error <=> last[r].control = "Invalid"
    /\ outcome[r].stopped <=> last[r].control \in {"Stop", "Panic", "Invalid"}
    /\ outcome[r].saw_finished <=>
           last[r].finished /\ last[r].control \notin {"Pending", "Invalid"}

\* A delivery has a cause when it is over, and the cause agrees with the last event; a
\* cancellation of a request that is still in use was recorded by its handle.
EndInv(r) ==
    /\ delivery[r] = "done" <=> cause[r] # "none"
    /\ cause[r] = "terminal" => last[r].finished
    /\ cause[r] = "stopped" => last[r].control # "Continue"
    /\ cause[r] \in {"cancelled", "failed"} =>
           ~last[r].finished /\ last[r].control = "Continue"
    /\ cause[r] = "cancelled" => cancelled[r]
    /\ cancelled[r] => cancellation_requested[r] \/ stage[r] \in Cleaning \cup {"released"}
    /\ was_done[r] => delivery[r] = "done"

\* What wait has returned is what it would return now, up to a processor failure: all
\* it is made of is settled when native code is done.
WaitInv(r) ==
    waited[r] # "None" =>
        /\ delivery[r] = "done"
        /\ stage[r] = "cancel" => was_done[r]
        /\ waited[r] \notin ProcessorResults => waited[r] = CallbackResult(r)
        /\ waited[r] # "Unclassified"
        /\ waited[r] = "ProcessorPanicked" => failure[r] = "panicked"
        /\ waited[r] = "ProcessorInvalid" => failure[r] = "invalid"

ReportInv == \A r \in Requests : CallbackInv(r) /\ EndInv(r) /\ WaitInv(r)

\* Off callbacks: where a request is cleaned up if callbacks keep to their own request.
TeardownInv ==
    /\ \A r \in Requests : stage[r] \in Cleaning => actor[r] \in Callers \cup {Reaper}
    /\ engine = "freeing" => closer \in Callers \cup {Reaper}

\* Nothing has been delivered, cancelled or reported at first.
LEMMA ReportInit == Init => ReportInv
<1> SUFFICES ASSUME Init, NEW r \in Requests
             PROVE  CallbackInv(r) /\ EndInv(r) /\ WaitInv(r)
  BY DEF ReportInv
<1>1. /\ last[r].finished = FALSE /\ last[r].control = "Continue"
      /\ outcome[r].panic = FALSE /\ outcome[r].error = FALSE
      /\ outcome[r].stopped = FALSE /\ outcome[r].saw_finished = FALSE
  BY DEF Init
<1>2. /\ delivery[r] = "none" /\ cause[r] = "none" /\ cancelled[r] = FALSE
      /\ was_done[r] = FALSE /\ waited[r] = "None"
  BY DEF Init
<1> QED BY <1>1, <1>2 DEF CallbackInv, EndInv, WaitInv

\* A step that touches nothing wait reads, and takes no handle out of its cleanup.
LEMMA ReportStays ==
    ASSUME ReportInv,
           UNCHANGED <<outcome, failure, delivery, cancelled, last, cause, was_done,
                       cancellation_requested, waited>>,
           \A r \in Requests :
               /\ stage'[r] = "cancel" => stage[r] = "cancel"
               /\ stage[r] \in Cleaning \cup {"released"} =>
                      stage'[r] \in Cleaning \cup {"released"}
    PROVE  ReportInv'
<1> SUFFICES ASSUME NEW r \in Requests
             PROVE  CallbackInv(r)' /\ EndInv(r)' /\ WaitInv(r)'
  BY DEF ReportInv
<1>1. CallbackInv(r)'
  BY DEF ReportInv, CallbackInv
<1>2. EndInv(r)'
  BY DEF ReportInv, EndInv
<1>3. CallbackResult(r)' = CallbackResult(r)
  BY DEF CallbackResult, RequestOutcome
<1>4. WaitInv(r)'
  BY <1>3 DEF ReportInv, WaitInv
<1> QED BY <1>1, <1>2, <1>4

\* What the callback recorded, and the handle's flag, are all that a result is made of.
LEMMA SameResult ==
    ASSUME NEW r \in Requests, outcome'[r] = outcome[r], cause'[r] = cause[r],
           cancellation_requested'[r] = cancellation_requested[r]
    PROVE  CallbackResult(r)' = CallbackResult(r)
BY DEF CallbackResult, RequestOutcome

\* A result of the callback is never taken for one of the processor.
LEMMA ResultKinds ==
    ASSUME NEW r \in Requests
    PROVE  CallbackResult(r) \notin ProcessorResults \cup {"None"}
BY DEF CallbackResult, RequestOutcome, ProcessorResults

\* Every step keeps the callback's record, the end of the delivery and the handle's
\* results in agreement.
LEMMA ReportStep == ASSUME TypeOK, IInv, ReportInv, [Next]_vars PROVE ReportInv'
<1> USE DEF processVars, engineVars, handleVars, processorVars, nativeVars,
            Begin, Advance, End
<1>types. /\ stage \in [Requests -> Stages] /\ was_done \in [Requests -> BOOLEAN]
          /\ cancellation_requested \in [Requests -> BOOLEAN]
          /\ waited \in [Requests -> Results]
          /\ outcome \in [Requests -> CallbackOutcome]
          /\ failure \in [Requests -> {"ok", "panicked", "invalid"}]
          /\ delivery \in [Requests -> {"none", "waiting", "body", "done"}]
          /\ cancelled \in [Requests -> BOOLEAN]
          /\ last \in [Requests -> Event]
          /\ cause \in [Requests -> {"none", "terminal", "stopped", "cancelled", "failed"}]
  BY DEF TypeOK
<1>inv. ASSUME NEW r \in Requests
        PROVE  CallbackInv(r) /\ EndInv(r) /\ WaitInv(r) /\ HandleInv(r)
  BY DEF ReportInv, IInv
<1>1. ASSUME NEW r \in Requests,
             \/ \E c \in Callers : SubmitFails(c, r) \/ SubmitPrepare(c, r)
             \/ NativeSubmitFails(r) \/ SubmitReturn(r)
             \/ \E t \in Threads : WaitEnter(t, r) \/ DropDeferred(t, r)
             \/ FreeReturn(r) \/ DropCallback(r) \/ DropRegistration(r) \/ DropEngine(r)
      PROVE  ReportInv'
  <2>1. UNCHANGED <<outcome, failure, delivery, cancelled, last, cause, was_done,
                    cancellation_requested, waited>>
    BY <1>1 DEF SubmitFails, SubmitPrepare, NativeSubmitFails, SubmitReturn, WaitEnter,
                DropDeferred, FreeReturn, DropCallback, DropRegistration, DropEngine
  <2>2. PICK place \in Stages \ {"cancel"} :
            /\ stage' = stage \/ stage' = [stage EXCEPT ![r] = place]
            /\ stage[r] \in Cleaning => place \in Cleaning \cup {"released"}
            /\ stage[r] # "released"
    BY <1>1 DEF SubmitFails, SubmitPrepare, NativeSubmitFails, SubmitReturn, WaitEnter,
                DropDeferred, FreeReturn, DropCallback, DropRegistration, DropEngine,
                MayUse, Stages, Submitting, Using, Cleaning
  <2> QED BY <2>1, <2>2, <1>types, ReportStays
<1>2. ASSUME UNCHANGED <<outcome, failure, delivery, cancelled, last, cause, was_done,
                         cancellation_requested, waited, stage>>
      PROVE  ReportInv'
  BY <1>2, ReportStays
<1>3. ASSUME NEW r \in Requests, NativeSubmit(r)
      PROVE  ReportInv'
  <2> SUFFICES ASSUME NEW q \in Requests
               PROVE  CallbackInv(q)' /\ EndInv(q)' /\ WaitInv(q)'
    BY DEF ReportInv
  <2>1. /\ stage[r] = "submit" /\ delivery[r] = "none"
        /\ stage' = [stage EXCEPT ![r] = "return"]
        /\ delivery' = [delivery EXCEPT ![r] = "waiting"]
        /\ UNCHANGED <<outcome, failure, cancelled, last, cause, was_done,
                       cancellation_requested, waited>>
    BY <1>3, <1>inv DEF NativeSubmit, HandleInv
  <2>2. CallbackInv(q)' /\ EndInv(q)'
    BY <2>1, <1>types, <1>inv DEF CallbackInv, EndInv, Cleaning
  <2>3. WaitInv(q)'
    BY <2>1, <1>types, <1>inv, SameResult DEF WaitInv
  <2> QED BY <2>2, <2>3
<1>4. ASSUME NEW t \in Threads, NEW r \in Requests, CancelProbe(t, r)
      PROVE  ReportInv'
  <2> SUFFICES ASSUME NEW q \in Requests
               PROVE  CallbackInv(q)' /\ EndInv(q)' /\ WaitInv(q)'
    BY DEF ReportInv
  <2>1. /\ stage[r] = "live"
        /\ stage' = [stage EXCEPT ![r] = "cancel"]
        /\ was_done' = [was_done EXCEPT ![r] = delivery[r] = "done"]
        /\ UNCHANGED <<outcome, failure, delivery, cancelled, last, cause,
                       cancellation_requested, waited>>
    BY <1>4 DEF CancelProbe, MayUse, native_done
  <2>2. CallbackInv(q)' /\ EndInv(q)'
    BY <2>1, <1>types, <1>inv DEF CallbackInv, EndInv, Cleaning
  <2>3. WaitInv(q)'
    BY <2>1, <1>types, <1>inv, SameResult DEF WaitInv
  <2> QED BY <2>2, <2>3
\* A cancellation that takes effect was probed before, and is recorded.
<1>5. ASSUME NEW r \in Requests, CancelNative(r)
      PROVE  ReportInv'
  <2> SUFFICES ASSUME NEW q \in Requests
               PROVE  CallbackInv(q)' /\ EndInv(q)' /\ WaitInv(q)'
    BY DEF ReportInv
  <2>1. /\ stage[r] = "cancel"
        /\ stage' = [stage EXCEPT ![r] = "live"]
        /\ cancelled' = [cancelled EXCEPT ![r] = @ \/ delivery[r] # "done"]
        /\ cancellation_requested' =
               [cancellation_requested EXCEPT ![r] = @ \/ ~was_done[r]]
        /\ was_done' = [was_done EXCEPT ![r] = FALSE]
        /\ UNCHANGED <<outcome, failure, delivery, last, cause, waited>>
    BY <1>5 DEF CancelNative, NativeCancel, native_done
  <2>2. CallbackInv(q)'
    BY <2>1, <1>inv DEF CallbackInv
  <2>3. EndInv(q)'
    <3>1. CASE q = r
      BY <3>1, <2>1, <1>types, <1>inv DEF EndInv, Cleaning
    <3>2. CASE q # r
      BY <3>2, <2>1, <1>types, <1>inv DEF EndInv
    <3> QED BY <3>1, <3>2
  <2>4. WaitInv(q)'
    <3>1. CASE q = r
      BY <3>1, <2>1, <1>types, <1>inv, SameResult DEF WaitInv
    <3>2. CASE q # r
      BY <3>2, <2>1, <1>types, <1>inv, SameResult DEF WaitInv
    <3> QED BY <3>1, <3>2
  <2> QED BY <2>2, <2>3, <2>4
<1>6. ASSUME NEW r \in Requests, CancelFails(r)
      PROVE  ReportInv'
  <2> SUFFICES ASSUME NEW q \in Requests
               PROVE  CallbackInv(q)' /\ EndInv(q)' /\ WaitInv(q)'
    BY DEF ReportInv
  <2>1. /\ stage[r] = "cancel"
        /\ stage' = [stage EXCEPT ![r] = "live"]
        /\ was_done' = [was_done EXCEPT ![r] = FALSE]
        /\ UNCHANGED <<outcome, failure, delivery, cancelled, last, cause,
                       cancellation_requested, waited>>
    BY <1>6 DEF CancelFails
  <2>2. CallbackInv(q)' /\ EndInv(q)'
    BY <2>1, <1>types, <1>inv DEF CallbackInv, EndInv, Cleaning
  <2>3. WaitInv(q)'
    BY <2>1, <1>types, <1>inv, SameResult DEF WaitInv
  <2> QED BY <2>2, <2>3
<1>7. ASSUME NEW r \in Requests, WaitReturn(r)
      PROVE  ReportInv'
  <2> SUFFICES ASSUME NEW q \in Requests
               PROVE  CallbackInv(q)' /\ EndInv(q)' /\ WaitInv(q)'
    BY DEF ReportInv
  <2>1. /\ stage[r] = "wait" /\ delivery[r] = "done"
        /\ stage' = [stage EXCEPT ![r] = "live"]
        /\ waited' = [waited EXCEPT ![r] = WaitResult(r)]
        /\ UNCHANGED <<outcome, failure, delivery, cancelled, last, cause, was_done,
                       cancellation_requested>>
    BY <1>7 DEF WaitReturn, native_done
  <2>2. CallbackInv(q)' /\ EndInv(q)'
    BY <2>1, <1>types, <1>inv DEF CallbackInv, EndInv, Cleaning
  <2>3. CallbackResult(r) # "Unclassified"
    <3>1. last[r].control \in Controls
      BY <1>types DEF Event
    <3>2. CallbackInv(r) /\ EndInv(r)
      BY <1>inv
    <3> QED BY <2>1, <3>1, <3>2, <1>types
         DEF CallbackInv, EndInv, Controls, CallbackResult, RequestOutcome, Cleaning
  <2>4. WaitInv(q)'
    BY <2>1, <2>3, <1>types, <1>inv, SameResult, ResultKinds
       DEF WaitInv, WaitResult, ProcessorResults
  <2> QED BY <2>2, <2>4
\* A drop cancels as well, but nobody waits for a request that is being dropped.
<1>8. ASSUME NEW r \in Requests, stage[r] \in {"live", "queued"},
             stage' = [stage EXCEPT ![r] = "join"], NativeCancel(r),
             UNCHANGED <<outcome, failure, delivery, last, cause, was_done,
                         cancellation_requested, waited>>
      PROVE  ReportInv'
  <2> SUFFICES ASSUME NEW q \in Requests
               PROVE  CallbackInv(q)' /\ EndInv(q)' /\ WaitInv(q)'
    BY DEF ReportInv
  <2>1. cancelled' = [cancelled EXCEPT ![r] = @ \/ delivery[r] # "done"]
    BY <1>8 DEF NativeCancel, native_done
  <2>2. CallbackInv(q)'
    BY <1>8, <1>inv DEF CallbackInv
  <2>3. EndInv(q)'
    BY <1>8, <2>1, <1>types, <1>inv DEF EndInv, Cleaning
  <2>4. WaitInv(q)'
    BY <1>8, <1>types, <1>inv, SameResult DEF WaitInv
  <2> QED BY <2>2, <2>3, <2>4
<1>9. ASSUME NEW t \in Threads, NEW r \in Requests, DropNow(t, r)
      PROVE  ReportInv'
  BY <1>9, <1>8 DEF DropNow, FreeEnter, MayUse
<1>10. ASSUME ReaperReceive
       PROVE  ReportInv'
  <2>1. PICK r \in Requests : r = Head(queue) /\ stage[r] = "queued"
    BY <1>10 DEF ReaperReceive, TypeOK, IInv, QueueInv
  <2> QED BY <1>10, <2>1, <1>8 DEF ReaperReceive, FreeEnter
\* An event comes only when no earlier one has ended the delivery.
<1>11. ASSUME NEW r \in Requests, NEW finished \in BOOLEAN, Deliver(r, finished)
       PROVE  ReportInv'
  <2> SUFFICES ASSUME NEW q \in Requests
               PROVE  CallbackInv(q)' /\ EndInv(q)' /\ WaitInv(q)'
    BY DEF ReportInv
  <2>1. /\ delivery[r] = "waiting"
        /\ ~last[r].finished /\ last[r].control = "Continue"
        /\ delivery' = [delivery EXCEPT ![r] = "body"]
        /\ outcome' = [outcome EXCEPT ![r] = record_delivery_thread(r)]
        /\ last' = [last EXCEPT ![r] = [finished |-> finished, control |-> "Pending"]]
        /\ UNCHANGED <<failure, cancelled, cause, was_done, cancellation_requested,
                       waited, stage>>
    BY <1>11 DEF Deliver, CanDeliver
  <2>2. CASE q = r
    <3>1. /\ outcome'[q].panic = outcome[q].panic
          /\ outcome'[q].error = outcome[q].error
          /\ outcome'[q].stopped = outcome[q].stopped
          /\ outcome'[q].saw_finished = outcome[q].saw_finished
      BY <2>1, <2>2, <1>types DEF record_delivery_thread, CallbackOutcome
    <3>2. CallbackInv(q)'
      BY <3>1, <2>1, <2>2, <1>types, <1>inv DEF CallbackInv
    <3>3. EndInv(q)'
      BY <2>1, <2>2, <1>types, <1>inv DEF EndInv
    <3>4. WaitInv(q)'
      BY <2>1, <2>2, <1>types, <1>inv DEF WaitInv
    <3> QED BY <3>2, <3>3, <3>4
  <2>3. CASE q # r
    <3>1. outcome'[q] = outcome[q] /\ last'[q] = last[q] /\ delivery'[q] = delivery[q]
      BY <2>1, <2>3, <1>types
    <3> QED BY <3>1, <2>1, <1>inv, SameResult DEF CallbackInv, EndInv, WaitInv
  <2> QED BY <2>2, <2>3
<1>12. ASSUME NEW r \in Requests, NEW finished \in BOOLEAN, DeliverInvalid(r, finished)
       PROVE  ReportInv'
  <2> SUFFICES ASSUME NEW q \in Requests
               PROVE  CallbackInv(q)' /\ EndInv(q)' /\ WaitInv(q)'
    BY DEF ReportInv
  <2>1. /\ delivery[r] = "waiting"
        /\ ~last[r].finished /\ last[r].control = "Continue"
        /\ outcome' = [outcome EXCEPT ![r] = record_error(r)]
        /\ last' = [last EXCEPT ![r] = [finished |-> finished, control |-> "Invalid"]]
        /\ UNCHANGED <<failure, delivery, cancelled, cause, was_done,
                       cancellation_requested, waited, stage>>
    BY <1>12 DEF DeliverInvalid, CanDeliver
  <2>2. CASE q = r
    <3>1. /\ outcome'[q].panic = outcome[q].panic
          /\ outcome'[q].error /\ outcome'[q].stopped
          /\ outcome'[q].saw_finished = outcome[q].saw_finished
      BY <2>1, <2>2, <1>types DEF record_error, record_delivery_thread, CallbackOutcome
    <3>2. CallbackInv(q)'
      BY <3>1, <2>1, <2>2, <1>types, <1>inv DEF CallbackInv
    <3>3. EndInv(q)'
      BY <2>1, <2>2, <1>types, <1>inv DEF EndInv
    <3>4. WaitInv(q)'
      BY <2>1, <2>2, <1>types, <1>inv DEF WaitInv
    <3> QED BY <3>2, <3>3, <3>4
  <2>3. CASE q # r
    <3>1. outcome'[q] = outcome[q] /\ last'[q] = last[q]
      BY <2>1, <2>3, <1>types
    <3> QED BY <3>1, <2>1, <1>inv, SameResult DEF CallbackInv, EndInv, WaitInv
  <2> QED BY <2>2, <2>3
<1>13. ASSUME NEW r \in Requests, NEW control \in {"Continue", "Stop", "Panic"},
              CallbackReturn(r, control)
       PROVE  ReportInv'
  <2> SUFFICES ASSUME NEW q \in Requests
               PROVE  CallbackInv(q)' /\ EndInv(q)' /\ WaitInv(q)'
    BY DEF ReportInv
  <2>1. /\ delivery[r] = "body"
        /\ delivery' = [delivery EXCEPT ![r] = "waiting"]
        /\ outcome' = [outcome EXCEPT ![r] = record_result(r, control)]
        /\ last' = [last EXCEPT ![r].control = control]
        /\ UNCHANGED <<failure, cancelled, cause, was_done, cancellation_requested,
                       waited, stage>>
    BY <1>13 DEF CallbackReturn
  <2>2. CASE q = r
    <3>1. /\ last[q].control = "Pending"
          /\ last'[q].finished = last[q].finished /\ last'[q].control = control
      BY <2>1, <2>2, <1>types, <1>inv DEF CallbackInv, Event
    <3>2. /\ outcome'[q].panic = (outcome[q].panic \/ control = "Panic")
          /\ outcome'[q].error = outcome[q].error
          /\ outcome'[q].stopped = (outcome[q].stopped \/ control \in {"Stop", "Panic"})
          /\ outcome'[q].saw_finished = (outcome[q].saw_finished \/ last[q].finished)
      BY <2>1, <2>2, <1>types DEF record_result, CallbackOutcome
    <3>3. CallbackInv(q)'
      BY <3>1, <3>2, <2>1, <2>2, <1>types, <1>inv DEF CallbackInv
    <3>4. EndInv(q)'
      BY <3>1, <2>1, <2>2, <1>types, <1>inv DEF EndInv
    <3>5. WaitInv(q)'
      BY <2>1, <2>2, <1>types, <1>inv DEF WaitInv
    <3> QED BY <3>3, <3>4, <3>5
  <2>3. CASE q # r
    <3>1. outcome'[q] = outcome[q] /\ last'[q] = last[q] /\ delivery'[q] = delivery[q]
      BY <2>1, <2>3, <1>types
    <3> QED BY <3>1, <2>1, <1>inv, SameResult DEF CallbackInv, EndInv, WaitInv
  <2> QED BY <2>2, <2>3
<1>14. ASSUME NEW r \in Requests, DeliveryEnd(r)
       PROVE  ReportInv'
  <2> SUFFICES ASSUME NEW q \in Requests
               PROVE  CallbackInv(q)' /\ EndInv(q)' /\ WaitInv(q)'
    BY DEF ReportInv
  <2>1. PICK why \in EndCauses(r) : cause' = [cause EXCEPT ![r] = why]
    BY <1>14 DEF DeliveryEnd
  <2>2. /\ delivery[r] = "waiting"
        /\ delivery' = [delivery EXCEPT ![r] = "done"]
        /\ UNCHANGED <<outcome, failure, cancelled, last, was_done,
                       cancellation_requested, waited, stage>>
    BY <1>14 DEF DeliveryEnd
  <2>3. CASE q = r
    <3>1. /\ why \in {"terminal", "stopped", "cancelled", "failed"}
          /\ why = "terminal" => last[r].finished
          /\ why = "stopped" => last[r].control # "Continue"
          /\ why \in {"cancelled", "failed"} =>
                 ~last[r].finished /\ last[r].control = "Continue"
          /\ why = "cancelled" => cancelled[r]
      BY DEF EndCauses
    <3>2. CallbackInv(q)' /\ WaitInv(q)'
      BY <2>2, <2>3, <1>types, <1>inv DEF CallbackInv, WaitInv
    <3>3. EndInv(q)'
      BY <3>1, <2>1, <2>2, <2>3, <1>types, <1>inv DEF EndInv
    <3> QED BY <3>2, <3>3
  <2>4. CASE q # r
    <3>1. cause'[q] = cause[q] /\ delivery'[q] = delivery[q]
      BY <2>1, <2>2, <2>4, <1>types
    <3> QED BY <3>1, <2>2, <1>inv, SameResult DEF CallbackInv, EndInv, WaitInv
  <2> QED BY <2>3, <2>4
\* The first failure of a processor is kept.
<1>15. ASSUME NEW w \in Workers, NEW r \in Requests,
              \/ ProcessorInvalid(w, r)
              \/ \E panics \in BOOLEAN : ProcessorReturn(w, r, panics)
       PROVE  ReportInv'
  <2> SUFFICES ASSUME NEW q \in Requests
               PROVE  CallbackInv(q)' /\ EndInv(q)' /\ WaitInv(q)'
    BY DEF ReportInv
  <2>1. /\ failure[q] # "ok" => failure'[q] = failure[q]
        /\ UNCHANGED <<outcome, delivery, cancelled, last, cause, was_done,
                       cancellation_requested, waited, stage>>
    BY <1>15, <1>types DEF ProcessorInvalid, CanInvoke, ProcessorReturn
  <2>2. CallbackInv(q)' /\ EndInv(q)'
    BY <2>1, <1>inv DEF CallbackInv, EndInv
  <2>3. WaitInv(q)'
    BY <2>1, <1>inv, SameResult DEF WaitInv
  <2> QED BY <2>2, <2>3
<1>16. ASSUME NEW r \in Requests, Resume(r)
       PROVE  ReportInv'
  BY <1>16, <1>1, <1>3, <1>5, <1>6, <1>7 DEF Resume
<1>17. ASSUME Application
       PROVE  ReportInv'
  <2>1. ASSUME NEW c \in Callers, DropEngineClone(c)
        PROVE  ReportInv'
    BY <2>1, <1>2 DEF DropEngineClone
  <2> QED BY <1>17, <2>1, <1>1, <1>4, <1>9 DEF Application
<1>18. ASSUME Native
       PROVE  ReportInv'
  <2>1. ASSUME NEW w \in Workers, NEW r \in Requests, ProcessorEnter(w, r)
        PROVE  ReportInv'
    BY <2>1, <1>2 DEF ProcessorEnter
  <2>2. ASSUME EngineFreeReturn
        PROVE  ReportInv'
    BY <2>2, <1>2 DEF EngineFreeReturn
  <2> QED BY <1>18, <2>1, <2>2, <1>11, <1>12, <1>13, <1>14, <1>15 DEF Native
<1>19. ASSUME UNCHANGED vars
       PROVE  ReportInv'
  BY <1>19, <1>2 DEF vars
<1> QED BY <1>10, <1>16, <1>17, <1>18, <1>19 DEF Next, Finished

\* They agree in every reachable state.
LEMMA Reports == Spec => []ReportInv
<1>1. TypeOK /\ IInv /\ ReportInv /\ [Next]_vars => ReportInv'
  BY ReportStep
<1> QED BY ReportInit, TypeCorrect, Invariant, <1>1, PTL DEF Spec

\* A request that is over is told to have completed, been stopped, failed or been
\* cancelled as its delivery ended, however its callback, its processor and a cancel
\* raced (Request::wait, AsyncCallbackState::result).
THEOREM OutcomesAreTrue == Spec => []OutcomeSound
<1>1. ASSUME TypeOK, ReportInv PROVE OutcomeSound
  <2> SUFFICES ASSUME NEW r \in Requests, waited[r] # "None",
                      waited[r] \notin ProcessorResults
               PROVE  /\ waited[r] = "Completed" =>
                             cause[r] = "terminal" /\ last[r].control = "Continue"
                      /\ waited[r] = "StoppedByCallback" => last[r].control = "Stop"
                      /\ waited[r] = "CallbackPanicked" => last[r].control = "Panic"
                      /\ waited[r] = "InvalidUtf8" => last[r].control = "Invalid"
                      /\ waited[r] = "Cancelled" => cause[r] = "cancelled"
    BY DEF OutcomeSound, ProcessorResults
  <2>1. CallbackInv(r) /\ EndInv(r) /\ WaitInv(r)
    BY <1>1 DEF ReportInv
  <2>2. last[r].control \in Controls
    BY <1>1 DEF TypeOK, Event
  <2>3. cause[r] \in {"none", "terminal", "stopped", "cancelled", "failed"}
    BY <1>1 DEF TypeOK
  <2> QED BY <2>1, <2>2, <2>3 DEF CallbackInv, EndInv, WaitInv, Controls, CallbackResult,
                                  RequestOutcome
<1> QED BY <1>1, TypeCorrect, Reports, PTL

\* wait always knows how a request ended: native code cancels by itself only when the
\* handle has recorded it (Request::cancel, whose probe comes first).
THEOREM EndsAreClassified == Spec => []EndIsClassified
<1>1. ReportInv => EndIsClassified
  BY DEF ReportInv, WaitInv, EndIsClassified
<1> QED BY <1>1, Reports, PTL

\* A second wait returns what the first did, or a processor failure that came late
\* (Request::wait).
THEOREM WaitsAgree == Spec => WaitStable
<1>1. ASSUME TypeOK, IInv, ReportInv, [Next]_vars
      PROVE  \A r \in Requests :
                 waited[r] # "None" /\ waited'[r] # waited[r] =>
                     waited[r] \notin ProcessorResults /\ waited'[r] \in ProcessorResults
  <2>1. waited' = waited \/ \E r \in Requests : WaitReturn(r)
    BY <1>1 DEF Next, Resume, Application, Native, Finished, vars, SubmitFails,
         SubmitPrepare, NativeSubmit, NativeSubmitFails, SubmitReturn, CancelProbe,
         CancelNative, CancelFails, WaitEnter, DropNow, DropDeferred, ReaperReceive,
         FreeReturn, DropCallback, DropRegistration, DropEngine, DropEngineClone,
         EngineFreeReturn, Deliver, DeliverInvalid, CallbackReturn, DeliveryEnd,
         ProcessorEnter, ProcessorInvalid, ProcessorReturn, handleVars
  <2>2. ASSUME NEW r \in Requests, waited[r] # "None", waited'[r] # waited[r]
        PROVE  waited[r] \notin ProcessorResults /\ waited'[r] \in ProcessorResults
    <3>1. waited'[r] = WaitResult(r)
      BY <2>1, <2>2, <1>1 DEF WaitReturn, TypeOK
    <3>2. WaitInv(r)
      BY <1>1 DEF ReportInv
    <3> QED BY <2>2, <3>1, <3>2 DEF WaitInv, WaitResult, ProcessorResults
  <2> QED BY <2>2
<1>2. TypeOK /\ IInv /\ ReportInv /\ [Next]_vars =>
          [\A r \in Requests :
               waited[r] # "None" /\ waited'[r] # waited[r] =>
                   waited[r] \notin ProcessorResults /\ waited'[r] \in ProcessorResults]_vars
  BY <1>1
<1> QED BY <1>2, TypeCorrect, Invariant, Reports, PTL DEF Spec, WaitStable

-----------------------------------------------------------------------------
(* Where the engine is torn down                                             *)

\* A callback that keeps to its own request cannot start a cleanup: its drops are
\* deferred, and the reaper and the application's threads run no callbacks.
LEMMA TeardownStep ==
    ASSUME ~CrossLifecycle, TypeOK, IInv, TeardownInv, [Next]_vars
    PROVE  TeardownInv'
<1> USE DEF processVars, engineVars, handleVars, processorVars, nativeVars,
            Begin, Advance, End
<1>types. stage \in [Requests -> Stages] /\ actor \in [Requests -> Threads]
  BY DEF TypeOK
\* A step that starts and tears down nothing.
<1>1. ASSUME UNCHANGED <<engine, closer>>,
             \A r \in Requests :
                 stage'[r] \in Cleaning => stage[r] \in Cleaning /\ actor'[r] = actor[r]
      PROVE  TeardownInv'
  BY <1>1 DEF TeardownInv
<1>2. ASSUME NEW r \in Requests,
             \/ \E c \in Callers : SubmitFails(c, r) \/ SubmitPrepare(c, r)
             \/ NativeSubmit(r) \/ NativeSubmitFails(r) \/ SubmitReturn(r)
             \/ \E t \in Threads :
                    CancelProbe(t, r) \/ WaitEnter(t, r) \/ DropDeferred(t, r)
             \/ CancelNative(r) \/ CancelFails(r) \/ WaitReturn(r)
      PROVE  TeardownInv'
  <2>1. UNCHANGED <<engine, closer>>
    BY <1>2 DEF SubmitFails, SubmitPrepare, NativeSubmit, NativeSubmitFails, SubmitReturn,
         CancelProbe, WaitEnter, DropDeferred, CancelNative, CancelFails, WaitReturn
  <2>2. PICK place \in Stages \ Cleaning :
            stage' = stage \/ stage' = [stage EXCEPT ![r] = place]
    BY <1>2 DEF SubmitFails, SubmitPrepare, NativeSubmit, NativeSubmitFails, SubmitReturn,
         CancelProbe, WaitEnter, DropDeferred, CancelNative, CancelFails, WaitReturn,
         Stages, Submitting, Using, Cleaning
  <2>3. \A q \in Requests : q # r => actor'[q] = actor[q]
    BY <1>2, <1>types
       DEF SubmitFails, SubmitPrepare, NativeSubmit, NativeSubmitFails, SubmitReturn,
         CancelProbe, WaitEnter, DropDeferred, CancelNative, CancelFails, WaitReturn
  <2>4. stage' = stage => stage[r] \notin Cleaning \/ actor'[r] = actor[r]
    BY <1>2, <1>types DEF SubmitFails, SubmitPrepare, NativeSubmit, NativeSubmitFails,
         SubmitReturn, CancelProbe, WaitEnter, DropDeferred, CancelNative, CancelFails,
         WaitReturn, MayUse, Cleaning
  <2> QED BY <2>1, <2>2, <2>3, <2>4, <1>1, <1>types
<1>3. ASSUME NEW r \in Requests,
             FreeReturn(r) \/ DropCallback(r) \/ DropRegistration(r)
      PROVE  TeardownInv'
  <2>1. PICK place \in Cleaning :
            /\ stage[r] \in Cleaning /\ stage' = [stage EXCEPT ![r] = place]
            /\ UNCHANGED <<actor, engine, closer>>
    BY <1>3 DEF FreeReturn, DropCallback, DropRegistration, Cleaning
  <2> QED BY <2>1, <1>1, <1>types
<1>4. ASSUME NEW t \in Threads, NEW r \in Requests, DropNow(t, r)
      PROVE  TeardownInv'
  <2>1. t \in Callers
    <3>1. ThreadInv(r)
      BY DEF IInv
    <3> QED BY <1>4, <3>1 DEF DropNow, MayUse, RunsFor, ThreadInv,
         is_native_callback_thread, is_delivery_thread, is_active_on_current_thread
  <2> QED BY <1>4, <2>1, <1>types DEF DropNow, FreeEnter, TeardownInv
<1>5. ASSUME ReaperReceive
      PROVE  TeardownInv'
  BY <1>5, <1>types DEF ReaperReceive, FreeEnter, TeardownInv
<1>6. ASSUME NEW r \in Requests, DropEngine(r)
      PROVE  TeardownInv'
  <2>1. actor[r] \in Callers \cup {Reaper}
    BY <1>6 DEF DropEngine, TeardownInv, Cleaning
  <2>2. stage' = [stage EXCEPT ![r] = "released"] /\ actor' = [actor EXCEPT ![r] = Reaper]
    BY <1>6 DEF DropEngine
  <2>3. engine' = "freeing" => closer' \in Callers \cup {Reaper}
    BY <1>6, <2>1 DEF DropEngine, Release, TeardownInv
  <2> QED BY <2>2, <2>3, <1>types DEF TeardownInv, Cleaning
<1>7. ASSUME NEW c \in Callers, DropEngineClone(c)
      PROVE  TeardownInv'
  BY <1>7 DEF DropEngineClone, Release, TeardownInv
<1>8. ASSUME EngineFreeReturn
      PROVE  TeardownInv'
  BY <1>8 DEF EngineFreeReturn, TeardownInv
<1>9. ASSUME UNCHANGED <<stage, actor, engine, closer>>
      PROVE  TeardownInv'
  BY <1>9, <1>1
<1>10. ASSUME Native
       PROVE  TeardownInv'
  <2>1. ASSUME NEW r \in Requests, NEW finished \in BOOLEAN,
               Deliver(r, finished) \/ DeliverInvalid(r, finished)
        PROVE  TeardownInv'
    BY <2>1, <1>9 DEF Deliver, DeliverInvalid
  <2>2. ASSUME NEW r \in Requests,
               \/ \E control \in {"Continue", "Stop", "Panic"} : CallbackReturn(r, control)
               \/ DeliveryEnd(r)
        PROVE  TeardownInv'
    BY <2>2, <1>9 DEF CallbackReturn, DeliveryEnd
  <2>3. ASSUME NEW w \in Workers, NEW r \in Requests,
               \/ ProcessorEnter(w, r) \/ ProcessorInvalid(w, r)
               \/ \E panics \in BOOLEAN : ProcessorReturn(w, r, panics)
        PROVE  TeardownInv'
    BY <2>3, <1>9 DEF ProcessorEnter, ProcessorInvalid, ProcessorReturn
  <2> QED BY <1>10, <2>1, <2>2, <2>3, <1>8 DEF Native
<1>11. ASSUME UNCHANGED vars
       PROVE  TeardownInv'
  BY <1>11, <1>9 DEF vars
<1>12. ASSUME NEW r \in Requests, Resume(r)
       PROVE  TeardownInv'
  BY <1>12, <1>2, <1>3, <1>6 DEF Resume
<1>13. ASSUME Application
       PROVE  TeardownInv'
  BY <1>13, <1>2, <1>4, <1>7 DEF Application
<1> QED BY <1>5, <1>10, <1>11, <1>12, <1>13 DEF Next, Finished

\* With callbacks that keep to their own request, vllm_engine_free never runs inside a
\* callback or a processor (OwnedEngine's drop, and the deferral in CleanupJob::finish).
THEOREM TornDownOffCallbacks ==
    ASSUME ~CrossLifecycle
    PROVE  Spec => []TeardownOffCallbacks
<1>1. Init => TeardownInv
  BY DEF Init, TeardownInv, Cleaning
<1>2. TypeOK /\ IInv /\ TeardownInv /\ [Next]_vars => TeardownInv'
  BY TeardownStep
<1>3. TypeOK /\ TeardownInv => TeardownOffCallbacks
  BY ThreadsDisjoint DEF TypeOK, TeardownInv, TeardownOffCallbacks, RunsFor
<1> QED BY <1>1, <1>2, <1>3, TypeCorrect, Invariant, PTL DEF Spec
=============================================================================
