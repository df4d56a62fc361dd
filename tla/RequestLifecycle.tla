-------------------------- MODULE RequestLifecycle --------------------------
(***************************************************************************)
(* The life of non-blocking requests (vllm-cpp/src/request.rs): submission, *)
(* callback delivery, cancel, wait, drop, deferred cleanup by the reaper,   *)
(* and the teardown of the shared engine.                                   *)
(*                                                                          *)
(* Four kinds of threads take steps.  Callers are application threads.  The *)
(* native delivery thread of request r is identified with r itself: the ABI *)
(* gives every request one delivery thread of its own.  Workers are native  *)
(* engine threads that run logits processors.  Reaper is the cleanup thread *)
(* started by the first submission.  Application code runs on a Caller at   *)
(* any time, on r inside r's callback and on a Worker inside a processor.   *)
(***************************************************************************)
EXTENDS Naturals, Sequences

CONSTANTS
    Requests,        \* requests, and their delivery threads
    Callers,         \* application threads, each starting with an Engine clone
    Workers,         \* native engine worker threads
    Reaper,          \* the cleanup thread
    WithProcessor,   \* the requests submitted with a logits processor
    CrossLifecycle,  \* TRUE if callbacks may use handles of other requests
    MaxEvents,       \* bound: non-terminal stream events per request
    MaxCalls         \* bound: logits processor invocations per request

Threads == Requests \cup Callers \cup Workers \cup {Reaper}

ASSUME ThreadsDisjoint ==
    /\ Requests \cap Callers = {}
    /\ Requests \cap Workers = {}
    /\ Callers \cap Workers = {}
    /\ Reaper \notin Requests \cup Callers \cup Workers
ASSUME OptionsAssumption ==
    /\ WithProcessor \subseteq Requests
    /\ CrossLifecycle \in BOOLEAN
    /\ MaxEvents \in Nat
    /\ MaxCalls \in Nat

VARIABLES
    \* process-wide state
    process,         \* "running" or "aborted" (std::process::abort)
    reaper,          \* CLEANUP_REAPER: "unstarted", "running" or "failed"
    queue,           \* the jobs sent to the reaper, as request identities
    engineHolders,   \* owners of an Arc<EngineInner>: callers and requests
    engine,          \* "live", "freeing" (in vllm_engine_free) or "freed"
    closer,          \* the thread that runs vllm_engine_free
    \* the Rust handle of each request
    stage,           \* where the handle is, and what is being done with it
    actor,           \* the thread that does it
    was_done,        \* the completion probe a cancel in progress has read
    cancellation_requested,
    waited,          \* the last result wait returned to the application
    \* callback and processor owners
    box,             \* the boxed AsyncCallbackState is allocated
    outcome,         \* CallbackOutcome
    registered,      \* the logits processor is in the registry
    failure,         \* the first failure its trampoline recorded
    active,          \* its active_threads
    calls,           \* how often native code has invoked it
    \* the native request
    delivery,        \* "none", "waiting", "body" (in the callback), "done"
    cancelled,       \* native cancellation flag
    events,          \* non-terminal events delivered
    last,            \* the last event and what the callback did with it
    cause            \* why delivery ended

processVars == <<process, reaper, queue>>
engineVars == <<engineHolders, engine, closer>>
handleVars == <<stage, actor, was_done, cancellation_requested, waited>>
processorVars == <<registered, failure, active, calls>>
nativeVars == <<delivery, cancelled, events, last, cause>>
vars == <<processVars, engineVars, handleVars, box, outcome, processorVars,
          nativeVars>>

-----------------------------------------------------------------------------
(* Stages of a handle.  A Request method takes &mut self and Drop consumes   *)
(* the value, so at most one thread acts on a handle.                        *)

Submitting == {"submit", "return"}
Using      == {"cancel", "wait"}
Cleaning   == {"join", "drop_callback", "drop_registration", "drop_engine"}
Stages     == {"none", "failed", "live", "queued", "released"}
                 \cup Submitting \cup Using \cup Cleaning
InProgress == Submitting \cup Using \cup Cleaning

\* CallbackOutcome; error, panic and delivery_thread are optional there, and here
\* a flag, a flag and a set of at most one thread.
CallbackOutcome == [stopped: BOOLEAN, saw_finished: BOOLEAN, error: BOOLEAN,
                    panic: BOOLEAN, delivery_thread: SUBSET Threads]

\* An event, and how the callback answered it.
Controls == {"Continue", "Stop", "Panic", "Invalid", "Pending"}
Event == [finished: BOOLEAN, control: Controls]

\* What wait returned: an outcome, an error, or nothing yet.
Results  == {"None", "Completed", "StoppedByCallback", "Cancelled",
             "CallbackPanicked", "InvalidUtf8", "NativeError", "Unclassified",
             "ProcessorPanicked", "ProcessorInvalid"}

TypeOK ==
    /\ process \in {"running", "aborted"}
    /\ reaper \in {"unstarted", "running", "failed"}
    /\ queue \in Seq(Requests)
    /\ engineHolders \subseteq Callers \cup Requests
    /\ engine \in {"live", "freeing", "freed"}
    /\ closer \in Threads
    /\ stage \in [Requests -> Stages]
    /\ actor \in [Requests -> Threads]
    /\ was_done \in [Requests -> BOOLEAN]
    /\ cancellation_requested \in [Requests -> BOOLEAN]
    /\ waited \in [Requests -> Results]
    /\ box \in [Requests -> BOOLEAN]
    /\ outcome \in [Requests -> CallbackOutcome]
    /\ registered \in [Requests -> BOOLEAN]
    /\ failure \in [Requests -> {"ok", "panicked", "invalid"}]
    /\ active \in [Requests -> SUBSET Workers]
    /\ calls \in [Requests -> Nat]
    /\ delivery \in [Requests -> {"none", "waiting", "body", "done"}]
    /\ cancelled \in [Requests -> BOOLEAN]
    /\ events \in [Requests -> Nat]
    /\ last \in [Requests -> Event]
    /\ cause \in [Requests -> {"none", "terminal", "stopped", "cancelled", "failed"}]

Init ==
    /\ process = "running"
    /\ reaper = "unstarted"
    /\ queue = <<>>
    /\ engineHolders = Callers
    /\ engine = "live"
    /\ closer = Reaper
    /\ stage = [r \in Requests |-> "none"]
    /\ actor = [r \in Requests |-> Reaper]
    /\ was_done = [r \in Requests |-> FALSE]
    /\ cancellation_requested = [r \in Requests |-> FALSE]
    /\ waited = [r \in Requests |-> "None"]
    /\ box = [r \in Requests |-> FALSE]
    /\ outcome = [r \in Requests |-> [stopped |-> FALSE, saw_finished |-> FALSE,
                                      error |-> FALSE, panic |-> FALSE,
                                      delivery_thread |-> {}]]
    /\ registered = [r \in Requests |-> FALSE]
    /\ failure = [r \in Requests |-> "ok"]
    /\ active = [r \in Requests |-> {}]
    /\ calls = [r \in Requests |-> 0]
    /\ delivery = [r \in Requests |-> "none"]
    /\ cancelled = [r \in Requests |-> FALSE]
    /\ events = [r \in Requests |-> 0]
    /\ last = [r \in Requests |-> [finished |-> FALSE, control |-> "Continue"]]
    /\ cause = [r \in Requests |-> "none"]

-----------------------------------------------------------------------------
(* Who may run application code, and on which handles.                       *)

Acts(t, r) == stage[r] \in InProgress /\ actor[r] = t
Busy(t) == (engine = "freeing" /\ closer = t) \/ \E r \in Requests : Acts(t, r)

\* The requests whose callback or processor is running on thread t.
RunsFor(t) == {q \in Requests : \/ t = q /\ delivery[q] = "body"
                                \/ t \in active[q]}

\* Application code on thread t can reach the handle of r.
MayUse(t, r) ==
    /\ stage[r] = "live"
    /\ ~Busy(t)
    /\ \/ t \in Callers
       \/ r \in RunsFor(t)
       \/ CrossLifecycle /\ RunsFor(t) # {}

\* A handle leaves the application's hands: t performs stage s on r.
Begin(t, r, s) ==
    /\ stage' = [stage EXCEPT ![r] = s]
    /\ actor' = [actor EXCEPT ![r] = t]

Advance(r, s) ==
    /\ stage' = [stage EXCEPT ![r] = s]
    /\ UNCHANGED actor

\* The operation on r is over; nobody acts on it, which actor shows as Reaper.
End(r, s) == Begin(Reaper, r, s)

\* Fault: the probe reports completion whenever no callback is running.
done_between_callbacks(r) == delivery[r] \notin {"none", "body"}
\* Fault: the probe follows the terminal event, which a cancelled request lacks.
done_at_terminal_event(r) == delivery[r] = "done" /\ last[r].finished

native_done(r) == delivery[r] = "done"
is_delivery_thread(t, r) == t \in outcome[r].delivery_thread
\* Fault: processor invocations are not tracked.
untracked_processor(t, r) == FALSE
is_active_on_current_thread(t, r) == t \in active[r]
is_native_callback_thread(t, r) ==
    is_delivery_thread(t, r) \/ is_active_on_current_thread(t, r)

-----------------------------------------------------------------------------
(* Engine::submit                                                            *)

\* Fault: the reaper is left to be started by the first deferred drop.
lazy_cleanup_sender(result) == result = "running" /\ UNCHANGED reaper

\* cleanup_sender: the first submission starts the reaper; the outcome of the
\* spawn is kept for the life of the process.
cleanup_sender(result) ==
    /\ IF reaper = "unstarted" THEN result \in {"running", "failed"} ELSE result = reaper
    /\ reaper' = result

\* cleanup_sender or the marshalling of prompt and parameters fails.
SubmitFails(c, r) ==
    /\ stage[r] = "none" /\ c \in engineHolders /\ ~Busy(c)
    /\ \E result \in {"running", "failed"} : cleanup_sender(result)
    /\ End(r, "failed")
    /\ UNCHANGED <<process, queue, engineVars, was_done, cancellation_requested,
                   waited, box, outcome, processorVars, nativeVars>>

\* The callback is boxed and the processor registered, ready for the native call.
SubmitPrepare(c, r) ==
    /\ stage[r] = "none" /\ c \in engineHolders /\ ~Busy(c)
    /\ cleanup_sender("running")
    /\ Begin(c, r, "submit")
    /\ box' = [box EXCEPT ![r] = TRUE]
    /\ registered' = [registered EXCEPT ![r] = r \in WithProcessor]
    /\ UNCHANGED <<process, queue, engineVars, was_done, cancellation_requested,
                   waited, outcome, failure, active, calls, nativeVars>>

\* vllm_request_submit accepts the request: delivery may start at once.
NativeSubmit(r) ==
    /\ stage[r] = "submit"
    /\ Advance(r, "return")
    /\ delivery' = [delivery EXCEPT ![r] = "waiting"]
    /\ UNCHANGED <<processVars, engineVars, was_done, cancellation_requested, waited,
                   box, outcome, processorVars, cancelled, events, last, cause>>

\* vllm_request_submit fails, or succeeds without a handle.
NativeSubmitFails(r) ==
    /\ stage[r] = "submit"
    /\ End(r, "failed")
    /\ box' = [box EXCEPT ![r] = FALSE]
    /\ registered' = [registered EXCEPT ![r] = FALSE]
    /\ UNCHANGED <<processVars, engineVars, was_done, cancellation_requested, waited,
                   outcome, failure, active, calls, nativeVars>>

\* The Request is built with a clone of the engine's Arc and returned.
SubmitReturn(r) ==
    /\ stage[r] = "return"
    /\ End(r, "live")
    /\ engineHolders' = engineHolders \cup {r}
    /\ UNCHANGED <<processVars, engine, closer, was_done, cancellation_requested,
                   waited, box, outcome, processorVars, nativeVars>>

-----------------------------------------------------------------------------
(* Request::cancel and Request::wait                                         *)

CancelProbe(t, r) ==
    /\ MayUse(t, r)
    /\ Begin(t, r, "cancel")
    /\ was_done' = [was_done EXCEPT ![r] = native_done(r)]
    /\ UNCHANGED <<processVars, engineVars, cancellation_requested, waited, box,
                   outcome, processorVars, nativeVars>>

\* Native cancellation has no effect once delivery is done.
NativeCancel(r) ==
    cancelled' = [cancelled EXCEPT ![r] = @ \/ ~native_done(r)]

\* vllm_request_cancel succeeds; the flag follows the earlier probe.
CancelNative(r) ==
    /\ stage[r] = "cancel"
    /\ End(r, "live")
    /\ NativeCancel(r)
    /\ cancellation_requested' =
           [cancellation_requested EXCEPT ![r] = @ \/ ~was_done[r]]
    /\ was_done' = [was_done EXCEPT ![r] = FALSE]
    /\ UNCHANGED <<processVars, engineVars, waited, box, outcome,
                   processorVars, delivery, events, last, cause>>

\* vllm_request_cancel reports an error: cancel returns it and records nothing.
CancelFails(r) ==
    /\ stage[r] = "cancel"
    /\ End(r, "live")
    /\ was_done' = [was_done EXCEPT ![r] = FALSE]
    /\ UNCHANGED <<processVars, engineVars, cancellation_requested, waited,
                   box, outcome, processorVars, nativeVars>>

\* On r's own callback thread wait is rejected, and nothing changes.
WaitEnter(t, r) ==
    /\ MayUse(t, r)
    /\ ~is_native_callback_thread(t, r)
    /\ Begin(t, r, "wait")
    /\ UNCHANGED <<processVars, engineVars, was_done, cancellation_requested, waited,
                   box, outcome, processorVars, nativeVars>>

\* Fault: a cancellation wins over a stop or a terminal event.
cancellation_first(r) ==
    IF cancellation_requested[r] THEN "Cancelled"
    ELSE IF outcome[r].stopped THEN "StoppedByCallback" ELSE "Completed"

\* AsyncCallbackState::result without panic and error.
RequestOutcome(r) ==
    IF outcome[r].stopped THEN "StoppedByCallback"
    ELSE IF outcome[r].saw_finished THEN "Completed"
    ELSE IF cancellation_requested[r] THEN "Cancelled" ELSE "Unclassified"

\* What the callback recorded, with the native status applied by wait.
CallbackResult(r) ==
    IF outcome[r].panic THEN "CallbackPanicked"
    ELSE IF outcome[r].error THEN "InvalidUtf8"
    ELSE IF cause[r] = "failed" THEN "NativeError" ELSE RequestOutcome(r)

\* A processor failure takes precedence over everything the callback recorded.
WaitResult(r) ==
    IF failure[r] = "panicked" THEN "ProcessorPanicked"
    ELSE IF failure[r] = "invalid" THEN "ProcessorInvalid" ELSE CallbackResult(r)

WaitReturn(r) ==
    /\ stage[r] = "wait"
    /\ native_done(r)
    /\ End(r, "live")
    /\ waited' = [waited EXCEPT ![r] = WaitResult(r)]
    /\ UNCHANGED <<processVars, engineVars, was_done, cancellation_requested, box,
                   outcome, processorVars, nativeVars>>

-----------------------------------------------------------------------------
(* Drop for Request, CleanupJob and the reaper                               *)

\* Fault: free joins without cancelling.
join_without_cancel(t, r) == Begin(t, r, "join") /\ UNCHANGED cancelled

\* vllm_request_free starts by cancelling; it returns once delivery is joined.
FreeEnter(t, r) ==
    /\ Begin(t, r, "join")
    /\ NativeCancel(r)

\* finish in the Caller context, off r's own callback threads.
DropNow(t, r) ==
    /\ MayUse(t, r)
    /\ ~is_native_callback_thread(t, r)
    /\ FreeEnter(t, r)
    /\ UNCHANGED <<processVars, engineVars, was_done, cancellation_requested, waited,
                   box, outcome, processorVars, delivery, events, last, cause>>

\* finish on one of r's own callback threads: defer_to_reaper.
DropDeferred(t, r) ==
    /\ MayUse(t, r)
    /\ is_native_callback_thread(t, r)
    /\ IF reaper = "running"
       THEN /\ queue' = Append(queue, r)
            /\ Advance(r, "queued")
            /\ UNCHANGED process
       ELSE /\ process' = "aborted"
            /\ UNCHANGED <<queue, stage, actor>>
    /\ UNCHANGED <<reaper, engineVars, was_done, cancellation_requested, waited, box,
                   outcome, processorVars, nativeVars>>

\* The reaper receives a job and runs it; the Reaper context never defers.
ReaperReceive ==
    /\ reaper = "running" /\ queue # <<>> /\ ~Busy(Reaper)
    /\ queue' = Tail(queue)
    /\ FreeEnter(Reaper, Head(queue))
    /\ UNCHANGED <<process, reaper, engineVars, was_done, cancellation_requested,
                   waited, box, outcome, processorVars, delivery, events, last, cause>>

\* vllm_request_free returns: the delivery thread has been joined.
FreeReturn(r) ==
    /\ stage[r] = "join"
    /\ native_done(r)
    /\ Advance(r, "drop_callback")
    /\ UNCHANGED <<processVars, engineVars, was_done, cancellation_requested, waited,
                   box, outcome, processorVars, nativeVars>>

\* A panic of a captured destructor is caught: cleanup goes on in either case.
DropCallback(r) ==
    /\ stage[r] = "drop_callback"
    /\ Advance(r, "drop_registration")
    /\ box' = [box EXCEPT ![r] = FALSE]
    /\ UNCHANGED <<processVars, engineVars, was_done, cancellation_requested, waited,
                   outcome, processorVars, nativeVars>>

DropRegistration(r) ==
    /\ stage[r] = "drop_registration"
    /\ Advance(r, "drop_engine")
    /\ registered' = [registered EXCEPT ![r] = FALSE]
    /\ UNCHANGED <<processVars, engineVars, was_done, cancellation_requested, waited,
                   box, outcome, failure, active, calls, nativeVars>>

\* Fault: the engine counts its public clones only.
count_clones_only(h, t) ==
    /\ engineHolders' = engineHolders \ {h}
    /\ IF engine = "live" /\ engineHolders' \cap Callers = {}
       THEN engine' = "freeing" /\ closer' = t
       ELSE UNCHANGED <<engine, closer>>
\* Fault: the last owner is looked for before this one is gone.
count_before_drop(h, t) ==
    /\ engineHolders' = engineHolders \ {h}
    /\ IF engineHolders = {}
       THEN engine' = "freeing" /\ closer' = t
       ELSE UNCHANGED <<engine, closer>>

\* The owner h of an Arc<EngineInner> drops it on thread t; the last drop
\* calls vllm_engine_free on that thread.
Release(h, t) ==
    /\ engineHolders' = engineHolders \ {h}
    /\ IF engineHolders' = {}
       THEN engine' = "freeing" /\ closer' = t
       ELSE UNCHANGED <<engine, closer>>

DropEngine(r) ==
    /\ stage[r] = "drop_engine"
    /\ End(r, "released")
    /\ Release(r, actor[r])
    /\ UNCHANGED <<processVars, was_done, cancellation_requested, waited, box,
                   outcome, processorVars, nativeVars>>

\* An application thread drops its Engine clone.
DropEngineClone(c) ==
    /\ c \in engineHolders /\ ~Busy(c)
    /\ Release(c, c)
    /\ UNCHANGED <<processVars, handleVars, box, outcome, processorVars, nativeVars>>

\* vllm_engine_free joins the engine's workers and returns.
EngineFreeReturn ==
    /\ engine = "freeing"
    /\ \A r \in Requests : active[r] = {}
    /\ engine' = "freed"
    /\ UNCHANGED <<processVars, engineHolders, closer, handleVars, box, outcome,
                   processorVars, nativeVars>>

-----------------------------------------------------------------------------
(* The delivery thread and async_callback_trampoline                         *)

\* Native code calls back until the terminal event, or until the callback
\* returned false.
CanDeliver(r, finished) ==
    /\ delivery[r] = "waiting"
    /\ ~last[r].finished /\ last[r].control = "Continue"
    /\ finished \/ events[r] < MaxEvents
    /\ events' = [events EXCEPT ![r] = IF finished THEN @ ELSE @ + 1]

record_delivery_thread(r) == [outcome[r] EXCEPT !.delivery_thread = {r}]

\* A valid delta: the trampoline enters the application's callback.
Deliver(r, finished) ==
    /\ CanDeliver(r, finished)
    /\ delivery' = [delivery EXCEPT ![r] = "body"]
    /\ outcome' = [outcome EXCEPT ![r] = record_delivery_thread(r)]
    /\ last' = [last EXCEPT ![r] = [finished |-> finished, control |-> "Pending"]]
    /\ UNCHANGED <<processVars, engineVars, handleVars, box, processorVars,
                   cancelled, cause>>

record_error(r) ==
    [record_delivery_thread(r) EXCEPT !.error = TRUE, !.stopped = TRUE]

\* A null or non-UTF-8 delta: the error is recorded, and native code told to stop.
DeliverInvalid(r, finished) ==
    /\ CanDeliver(r, finished)
    /\ outcome' = [outcome EXCEPT ![r] = record_error(r)]
    /\ last' = [last EXCEPT ![r] = [finished |-> finished, control |-> "Invalid"]]
    /\ UNCHANGED <<processVars, engineVars, handleVars, box, processorVars,
                   delivery, cancelled, cause>>

record_result(r, control) ==
    [outcome[r] EXCEPT !.saw_finished = @ \/ last[r].finished,
                       !.stopped = @ \/ control \in {"Stop", "Panic"},
                       !.panic = @ \/ control = "Panic"]

\* The callback returns or panics.
CallbackReturn(r, control) ==
    /\ delivery[r] = "body" /\ ~Busy(r)
    /\ delivery' = [delivery EXCEPT ![r] = "waiting"]
    /\ outcome' = [outcome EXCEPT ![r] = record_result(r, control)]
    /\ last' = [last EXCEPT ![r].control = control]
    /\ UNCHANGED <<processVars, engineVars, handleVars, box, processorVars,
                   cancelled, events, cause>>

\* Delivery ends after the terminal event, a callback that returned false, a
\* cancellation, or a failure of the generation.
EndCauses(r) ==
    IF last[r].finished THEN {"terminal"}
    ELSE IF last[r].control # "Continue" THEN {"stopped"}
    ELSE {"failed"} \cup (IF cancelled[r] THEN {"cancelled"} ELSE {})

DeliveryEnd(r) ==
    /\ delivery[r] = "waiting"
    /\ delivery' = [delivery EXCEPT ![r] = "done"]
    /\ \E why \in EndCauses(r) : cause' = [cause EXCEPT ![r] = why]
    /\ UNCHANGED <<processVars, engineVars, handleVars, box, outcome, processorVars,
                   cancelled, events, last>>

-----------------------------------------------------------------------------
(* Native workers and logits_processor_trampoline (see LogitsRegistry)       *)

\* A worker may invoke the processor of any request that was submitted, late
\* invocations included; without a registration the trampoline does nothing.
CanInvoke(w, r) ==
    /\ delivery[r] # "none" /\ engine # "freed"
    /\ registered[r] /\ failure[r] = "ok"
    /\ \A q \in Requests : w \notin active[q]
    /\ calls[r] < MaxCalls
    /\ calls' = [calls EXCEPT ![r] = @ + 1]

ProcessorEnter(w, r) ==
    /\ CanInvoke(w, r)
    /\ active' = [active EXCEPT ![r] = @ \cup {w}]
    /\ UNCHANGED <<processVars, engineVars, handleVars, box, outcome, registered,
                   failure, nativeVars>>

\* Invalid pointers or lengths: record_failure, without running the processor.
ProcessorInvalid(w, r) ==
    /\ CanInvoke(w, r)
    /\ failure' = [failure EXCEPT ![r] = "invalid"]
    /\ UNCHANGED <<processVars, engineVars, handleVars, box, outcome, registered,
                   active, nativeVars>>

\* The processor returns or panics; the first recorded failure is kept.
ProcessorReturn(w, r, panics) ==
    /\ w \in active[r] /\ ~Busy(w)
    /\ active' = [active EXCEPT ![r] = @ \ {w}]
    /\ failure' = [failure EXCEPT ![r] = IF panics /\ @ = "ok" THEN "panicked" ELSE @]
    /\ UNCHANGED <<processVars, engineVars, handleVars, box, outcome, registered,
                   calls, nativeVars>>

-----------------------------------------------------------------------------
(* The next-state relation and fairness                                      *)

\* The steps of a Request method or cleanup that its thread has begun.
Resume(r) ==
    \/ NativeSubmit(r) \/ NativeSubmitFails(r) \/ SubmitReturn(r)
    \/ CancelNative(r) \/ CancelFails(r)
    \/ WaitReturn(r)
    \/ FreeReturn(r) \/ DropCallback(r) \/ DropRegistration(r) \/ DropEngine(r)

Application ==
    \/ \E c \in Callers, r \in Requests : SubmitFails(c, r) \/ SubmitPrepare(c, r)
    \/ \E t \in Threads, r \in Requests :
           CancelProbe(t, r) \/ WaitEnter(t, r) \/ DropNow(t, r) \/ DropDeferred(t, r)
    \/ \E c \in Callers : DropEngineClone(c)

Native ==
    \/ \E r \in Requests :
           \/ \E finished \in BOOLEAN : Deliver(r, finished) \/ DeliverInvalid(r, finished)
           \/ \E control \in {"Continue", "Stop", "Panic"} : CallbackReturn(r, control)
           \/ DeliveryEnd(r)
    \/ \E w \in Workers, r \in Requests :
           \/ ProcessorEnter(w, r) \/ ProcessorInvalid(w, r)
           \/ \E panics \in BOOLEAN : ProcessorReturn(w, r, panics)
    \/ EngineFreeReturn

\* The program may end once every handle and every Engine clone is gone.
Finished ==
    /\ engine = "freed"
    /\ \A r \in Requests : delivery[r] \in {"none", "done"} /\ active[r] = {}
    /\ UNCHANGED vars

Next ==
    \/ process = "running" /\ (\/ \E r \in Requests : Resume(r)
                               \/ Application \/ ReaperReceive \/ Native)
    \/ Finished

Spec == Init /\ [][Next]_vars

\* The native library has nothing more to wait for before delivery ends.
EndDue(r) == cancelled[r] \/ last[r].finished
                \/ last[r].control \notin {"Continue", "Pending"}

\* Threads run; application callbacks and processors return after finitely many
\* lifecycle calls; native code ends the delivery of a request that is
\* cancelled, stopped or finished, but possibly not before a worker has left
\* the request's processor.  Nothing makes an unbounded generation end.
Fairness ==
    /\ \A r \in Requests :
           /\ WF_vars(Resume(r))
           /\ SF_vars(\E control \in {"Continue", "Stop", "Panic"} :
                          CallbackReturn(r, control))
           /\ WF_vars(EndDue(r) /\ active[r] = {} /\ DeliveryEnd(r))
           /\ \A w \in Workers :
                  SF_vars(\E panics \in BOOLEAN : ProcessorReturn(w, r, panics))
    /\ WF_vars(ReaperReceive)
    /\ WF_vars(EngineFreeReturn)

FairSpec == Spec /\ Fairness

-----------------------------------------------------------------------------
(* Properties                                                                *)

\* The boxed callback state the native request points to is allocated as long
\* as the delivery thread can still call back (request.rs, cleanup_now).
CallbackOutlivesDelivery ==
    \A r \in Requests : delivery[r] \in {"waiting", "body"} => box[r]

\* The engine is live while a native request of it can run or be operated on:
\* neither dropping every Engine clone nor another request's cleanup frees it.
EngineOutlivesRequest ==
    \A r \in Requests :
        \/ delivery[r] \in {"waiting", "body"}
        \/ stage[r] \in {"live", "queued", "join"} \cup Using
        => engine = "live"

\* No thread waits for, frees or destroys the owners of a request from inside
\* that request's own callback or logits processor.
NoSelfJoin ==
    \A r \in Requests :
        stage[r] \in {"wait"} \cup Cleaning =>
            actor[r] # r /\ actor[r] \notin active[r]

\* The inductive form of the three invariants above, proved in
\* RequestLifecycleProofs.  A Request or CleanupJob exists in the Owned stages.
Owned == {"live", "queued"} \cup Using \cup Cleaning

QueueInv ==
    \A i \in 1..Len(queue) :
        /\ stage[queue[i]] = "queued"
        /\ \A j \in 1..Len(queue) : queue[i] = queue[j] => i = j

HandleInv(r) ==
    /\ stage[r] \in Submitting => actor[r] \in Callers \cap engineHolders
    /\ stage[r] \in Owned <=> r \in engineHolders
    /\ stage[r] \in {"none", "failed", "submit"} => delivery[r] = "none"
    /\ stage[r] \in {"released"} \cup (Cleaning \ {"join"}) => delivery[r] = "done"
    /\ stage[r] \in Submitting \cup {"live", "queued", "join"} \cup Using => box[r]
    /\ stage[r] \notin {"none", "failed"} => reaper = "running"

EngineInv == engine # "live" => engineHolders = {}

ThreadInv(r) ==
    /\ delivery[r] = "body" => r \in outcome[r].delivery_thread
    /\ \A w \in Workers : Acts(w, r) => \E q \in Requests : w \in active[q]

\* Every native request is held by exactly one owner, which retains what native
\* code may still use, and every callback thread at work is recognisable as one.
IInv ==
    /\ QueueInv
    /\ EngineInv
    /\ \A r \in Requests : HandleInv(r) /\ ThreadInv(r)
    /\ NoSelfJoin
    /\ process = "running"

\* What the rest of the program sees of requests and engines: the refinement mapping
\* to RequestOwnership.
HandleAt(place) ==
    CASE place \in {"none", "submit"} -> "none"
      [] place = "failed" -> "refused"
      [] place \in {"return", "live"} \cup Using -> "held"
      [] place \in {"queued"} \cup Cleaning -> "closing"
      [] place = "released" -> "gone"
NativeAt(place) ==
    CASE place = "none" -> "none"
      [] place \in {"waiting", "body"} -> "running"
      [] place = "done" -> "over"

HandleSeen == [r \in Requests |-> HandleAt(stage[r])]
NativeSeen == [r \in Requests |-> NativeAt(delivery[r])]
ClonesSeen == engineHolders \cap Callers

Ownership == INSTANCE RequestOwnership WITH
    handle <- HandleSeen, native <- NativeSeen, clones <- ClonesSeen

\* Threads, callbacks, deferred cleanup and all, the code keeps what RequestOwnership
\* promises: a request is released once and only after its native request is over, and
\* its last owner, on whatever thread, frees the engine.
ImplementsOwnership == Ownership!Spec

\* A drop never finds the reaper missing, so it never aborts the process.
DropNeverAborts == process = "running"

\* What wait reported agrees with what the native request really did: it
\* completed only after a terminal event the callback continued, was stopped or
\* panicked only by its callback, and counts as cancelled only when native
\* cancellation ended it before any terminal event.
OutcomeSound ==
    \A r \in Requests :
        /\ waited[r] = "Completed" =>
               cause[r] = "terminal" /\ last[r].control = "Continue"
        /\ waited[r] = "StoppedByCallback" => last[r].control = "Stop"
        /\ waited[r] = "CallbackPanicked" => last[r].control = "Panic"
        /\ waited[r] = "InvalidUtf8" => last[r].control = "Invalid"
        /\ waited[r] = "Cancelled" => cause[r] = "cancelled"

\* wait never falls through to "completed without a terminal callback or locally
\* observable stop/cancellation": whatever cancellation ends a request early is
\* one the handle recorded, because the probe precedes the native call.
EndIsClassified ==
    \A r \in Requests : waited[r] # "Unclassified"

\* The last drop of the engine, which joins its workers, never runs inside a
\* callback or processor.  It needs callbacks that keep to their own request.
TeardownOffCallbacks ==
    engine = "freeing" => RunsFor(closer) = {}

\* A repeated wait returns what the first returned, whatever happened between
\* the two, unless a late processor failure takes precedence.
ProcessorResults == {"ProcessorPanicked", "ProcessorInvalid"}
WaitStable ==
    [][\A r \in Requests :
           waited[r] # "None" /\ waited'[r] # waited[r] =>
               waited[r] \notin ProcessorResults /\ waited'[r] \in ProcessorResults]_vars

\* A dropped request, live or not, dropped on whatever thread, is cancelled,
\* joined and released in the end.
DropCompletes ==
    \A r \in Requests :
        stage[r] \in {"queued"} \cup Cleaning ~> stage[r] = "released"

\* Once every request has been dropped, on whatever threads, every one of them is
\* joined: "dropping a live request cancels and joins it" (vllm-cpp/README.md).
\* It needs callbacks that keep to their own request.
AllDroppedAreJoined ==
    (\A r \in Requests : stage[r] \in {"queued"} \cup Cleaning)
        ~> (\A r \in Requests : stage[r] = "released")

\* wait returns once the request has been cancelled, stopped or finished.
WaitReturns ==
    \A r \in Requests :
        stage[r] = "wait" /\ EndDue(r) ~> stage[r] # "wait"

\* The native engine is freed once its last owner is gone.
EngineFreed == engineHolders = {} ~> engine = "freed"

=============================================================================
