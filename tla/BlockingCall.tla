---------------------------- MODULE BlockingCall ----------------------------
(***************************************************************************)
(* The blocking calls of vllm-cpp: completion, token completion, chat, the  *)
(* two streams, and the calls of the exclusively owned engines (engine.rs,  *)
(* callback.rs, error.rs).                                                  *)
(*                                                                          *)
(* A call enters native code, which may run the caller's stream callback on *)
(* the calling thread, and that callback may make blocking calls again: a   *)
(* thread has a stack of calls.  Workers may fail in a call's logits        *)
(* processor at any time.  When native code has returned, the wrapper looks *)
(* at what happened in a fixed order and reports one thing.  The native      *)
(* diagnostic belongs to the thread and lasts until its next native call.    *)
(***************************************************************************)
EXTENDS Naturals, Sequences, SequencesExt

CONSTANTS
    Threads,    \* application threads
    Ops,        \* the calls that are made, of Operations
    MaxDepth,   \* bound: calls within calls
    MaxCalls,   \* bound: calls of a thread
    MaxEvents   \* bound: events of a stream

\* "result" stands for transcribe, embed, generate and the mux composition, which
\* have the same control; "load" for the load of any other engine than the video one.
Operations == {"complete", "complete_tokens", "complete_stream", "chat_json",
               "chat_stream_json", "result", "load", "load_video"}
Streams == {"complete_stream", "chat_stream_json"}
WithProcessor == {"complete", "complete_tokens", "complete_stream"}
Loads == {"load", "load_video"}

ASSUME OpsAssumption == Ops \subseteq Operations
ASSUME BoundsAssumption == {MaxDepth, MaxCalls, MaxEvents} \subseteq Nat

VARIABLES
    stack,       \* the calls each thread is in, the innermost last
    last_error,  \* the call each thread's native diagnostic is about, 0 if none
    calls,       \* calls a thread has made
    unwinding,   \* a panic is on its way through the thread's callbacks
    panicked,    \* a callback has panicked since the outermost call began
    report       \* the call that returned last, as it ended

vars == <<stack, last_error, calls, unwinding, panicked, report>>

StreamControl == {"Continue", "Stop"}
Checks == {"panic", "error", "processor", "copy", "status", "free", "null", "guard", "convert"}
Outcomes == {"none", "success", "rejected", "panic", "invalid_utf8", "processor",
             "native", "no_result", "invalid_output"}

\* CallbackState, and what the frame of a call holds besides.
Frame == [op: Operations, id: 0..MaxCalls,
          at: {"native", "callback", "checks", "leave"},
          todo: Seq(Checks),
          failed: BOOLEAN,                        \* native status
          events: 0..MaxEvents, finished: BOOLEAN, ended: BOOLEAN,
          stopped: BOOLEAN, error: BOOLEAN, panic: BOOLEAN,
          answers: SUBSET (BOOLEAN \X StreamControl),
          processor: {"ok", "failed", "failed_late"},
          output: {"none", "owned", "freed", "moved"},
          guarded: BOOLEAN,                       \* a guard holds the output
          diagnostic: 0..MaxCalls,                \* the copied one
          outcome: Outcomes]

NewFrame(op, id) ==
    [op |-> op, id |-> id, at |-> "native", todo |-> <<>>, failed |-> FALSE,
     events |-> 0, finished |-> FALSE, ended |-> FALSE, stopped |-> FALSE,
     error |-> FALSE, panic |-> FALSE, answers |-> {}, processor |-> "ok",
     output |-> "none", guarded |-> FALSE, diagnostic |-> 0, outcome |-> "none"]

TypeOK ==
    /\ stack \in [Threads -> Seq(Frame)]
    /\ last_error \in [Threads -> 0..MaxCalls]
    /\ calls \in [Threads -> 0..MaxCalls]
    /\ unwinding \in [Threads -> BOOLEAN]
    /\ panicked \in [Threads -> BOOLEAN]
    /\ report \in [Threads -> Frame]

Init ==
    /\ stack = [t \in Threads |-> <<>>]
    /\ last_error = [t \in Threads |-> 0]
    /\ calls = [t \in Threads |-> 0]
    /\ unwinding = [t \in Threads |-> FALSE]
    /\ panicked = [t \in Threads |-> FALSE]
    /\ report = [t \in Threads |-> NewFrame("result", 0)]

-----------------------------------------------------------------------------
Top(t) == Last(stack[t])
In(t, place) == stack[t] # <<>> /\ Top(t).at = place
SetTop(t, frame) == stack' = [stack EXCEPT ![t] = Append(Front(@), frame)]

\* A native call on the thread leaves a diagnostic of its own, or none.
NativeDiagnostic(t, id) == last_error' = [last_error EXCEPT ![t] = id]

-----------------------------------------------------------------------------
(* Entering a call                                                           *)

\* Application code runs: outside of any call, or in a callback.
MayCall(t) ==
    /\ stack[t] = <<>> \/ (In(t, "callback") /\ ~unwinding[t])
    /\ Len(stack[t]) < MaxDepth /\ calls[t] < MaxCalls

Enter(t, op) ==
    /\ MayCall(t)
    /\ calls' = [calls EXCEPT ![t] = @ + 1]
    /\ stack' = [stack EXCEPT ![t] = Append(@, NewFrame(op, calls'[t]))]
    /\ panicked' = [panicked EXCEPT ![t] = @ /\ stack[t] # <<>>]
    /\ UNCHANGED <<last_error, unwinding, report>>

\* The arguments cannot be marshalled: native code is not entered.
Reject(t, op) ==
    /\ MayCall(t)
    /\ calls' = [calls EXCEPT ![t] = @ + 1]
    /\ report' = [report EXCEPT ![t] =
                     [NewFrame(op, calls'[t]) EXCEPT !.outcome = "rejected"]]
    /\ panicked' = [panicked EXCEPT ![t] = @ /\ stack[t] # <<>>]
    /\ UNCHANGED <<stack, last_error, unwinding>>

-----------------------------------------------------------------------------
(* In native code                                                            *)

\* Native streaming goes on until the callback declines or the text is finished.
MayDeliver(t) ==
    /\ In(t, "native") /\ Top(t).op \in Streams
    /\ ~Top(t).ended /\ Top(t).events < MaxEvents

\* A null or non-UTF-8 delta never reaches the callback; native code is told to stop.
DeliverInvalid(t, finished) ==
    /\ MayDeliver(t)
    /\ SetTop(t, [Top(t) EXCEPT !.error = TRUE, !.ended = TRUE, !.events = @ + 1,
                                !.finished = finished])
    /\ UNCHANGED <<last_error, calls, unwinding, panicked, report>>

Deliver(t, finished) ==
    /\ MayDeliver(t)
    /\ SetTop(t, [Top(t) EXCEPT !.at = "callback", !.events = @ + 1,
                                !.finished = finished])
    /\ UNCHANGED <<last_error, calls, unwinding, panicked, report>>

\* Fault: a stop counts as the callback's even when the text was finished.
stop_always(frame, control) ==
    [frame EXCEPT !.stopped = @ \/ control = "Stop", !.ended = @ \/ control = "Stop"]
apply_control(frame, control) ==
    [frame EXCEPT !.stopped = @ \/ (control = "Stop" /\ ~frame.finished),
                  !.ended = @ \/ control = "Stop"]

CallbackReturns(t, control) ==
    /\ In(t, "callback") /\ ~unwinding[t]
    /\ SetTop(t, [apply_control(Top(t), control)
                     EXCEPT !.at = "native", !.ended = @ \/ Top(t).finished,
                            !.answers = @ \cup {<<Top(t).finished, control>>}])
    /\ UNCHANGED <<last_error, calls, unwinding, panicked, report>>

\* The application's callback panics.
CallbackPanics(t) ==
    /\ In(t, "callback") /\ ~unwinding[t]
    /\ unwinding' = [unwinding EXCEPT ![t] = TRUE]
    /\ panicked' = [panicked EXCEPT ![t] = TRUE]
    /\ UNCHANGED <<stack, last_error, calls, report>>

\* The trampoline catches what unwinds: a panic of the callback itself, or one
\* that an inner call resumed in it.
CatchUnwind(t) ==
    /\ In(t, "callback") /\ unwinding[t]
    /\ unwinding' = [unwinding EXCEPT ![t] = FALSE]
    /\ SetTop(t, [Top(t) EXCEPT !.at = "native", !.panic = TRUE, !.ended = TRUE])
    /\ UNCHANGED <<last_error, calls, panicked, report>>

\* A worker fails in the processor of any call whose registration still exists.
ProcessorFails(t, depth) ==
    /\ depth \in 1..Len(stack[t])
    /\ LET frame == stack[t][depth]
       IN  /\ frame.op \in WithProcessor /\ frame.processor = "ok"
           /\ stack' = [stack EXCEPT ![t][depth].processor =
                           IF frame.at \in {"native", "callback"} THEN "failed"
                           ELSE "failed_late"]
    /\ UNCHANGED <<last_error, calls, unwinding, panicked, report>>

-----------------------------------------------------------------------------
(* What is looked at when native code has returned, in this order            *)

\* Fault: the status decides before the panic is looked at.
status_first(failed) == <<"copy", "status", "panic", "error", "processor">>
complete_stream(failed) == <<"panic", "error", "processor", "copy", "status">>

chat_stream_json(failed) == <<"panic", "error", "copy", "status">>

\* Fault: a processor failure is only looked for when native code failed.
failure_only(failed) ==
    IF failed THEN <<"processor", "copy", "status">> ELSE <<"guard", "convert">>
\* Fault: the guard is armed behind an early return.
late_guard(failed) ==
    IF failed THEN <<"processor", "copy", "status">> ELSE <<"processor", "guard", "convert">>
complete(failed) ==
    IF failed THEN <<"processor", "copy", "status">> ELSE <<"guard", "processor", "convert">>

complete_tokens_with(failed) ==
    IF failed THEN <<"copy", "processor", "status">> ELSE <<"guard", "processor", "convert">>

chat_json(failed) == <<"copy", "status", "null", "guard", "convert">>
result_with(failed) == <<"copy", "status", "guard", "convert">>

\* Loads have no guard: the handle goes to the engine that is returned.
load_engine_with(failed) == <<"copy", "status", "null">>

\* Fault: the output of a failed load is freed before the diagnostic is copied.
free_first(failed) == IF failed THEN <<"free", "copy", "status">> ELSE <<"null">>
\* Fault: a failed load is taken to have left nothing.
forget_output(failed) == IF failed THEN <<"copy", "status">> ELSE <<"null">>
load_video_engine_with(failed) ==
    IF failed THEN <<"copy", "free", "status">> ELSE <<"null">>

ChecksOf(op, failed) ==
    CASE op = "complete_stream"  -> complete_stream(failed)
      [] op = "chat_stream_json" -> chat_stream_json(failed)
      [] op = "complete"         -> complete(failed)
      [] op = "complete_tokens"  -> complete_tokens_with(failed)
      [] op = "chat_json"        -> chat_json(failed)
      [] op = "result"           -> result_with(failed)
      [] op = "load"             -> load_engine_with(failed)
      [] op = "load_video"       -> load_video_engine_with(failed)

\* What native code can leave in the output: a result on success, which chat and a
\* load may fail to provide.  After a failure only the video load looks at the output, and
\* may find a handle there; of the others the wrapper assumes that they leave nothing.
Outputs(op, failed) ==
    IF op \in Streams \/ (failed /\ op # "load_video") THEN {"none"}
    ELSE IF failed \/ op \in {"chat_json", "load", "load_video"} THEN {"none", "owned"}
    ELSE {"owned"}

NativeReturns(t, failed, output) ==
    /\ In(t, "native")
    /\ output \in Outputs(Top(t).op, failed)
    /\ SetTop(t, [Top(t) EXCEPT !.at = "checks", !.failed = failed, !.output = output,
                                !.todo = ChecksOf(Top(t).op, failed)])
    /\ NativeDiagnostic(t, IF failed THEN Top(t).id ELSE 0)
    /\ UNCHANGED <<calls, unwinding, panicked, report>>

\* The outcome at which a check ends the call; "none" lets it go on.
ended_by(frame, check) ==
    CASE check = "panic" /\ frame.panic -> "panic"
      [] check = "error" /\ frame.error -> "invalid_utf8"
      [] check = "processor" /\ frame.processor # "ok" -> "processor"
      [] check = "status" /\ frame.failed -> "native"
      [] check = "null" /\ frame.output = "none" -> "no_result"
      [] OTHER -> "none"

Looking(t, check) == In(t, "checks") /\ Top(t).todo # <<>> /\ Head(Top(t).todo) = check
Decide(t, frame, outcome) ==
    SetTop(t, [frame EXCEPT !.todo = Tail(@), !.outcome = outcome,
                            !.at = IF outcome = "none" THEN "checks" ELSE "leave"])

\* A check that only looks.
Look(t, check) ==
    /\ check \in {"panic", "error", "processor", "status", "null"}
    /\ Looking(t, check)
    /\ Decide(t, Top(t), ended_by(Top(t), check))
    /\ UNCHANGED <<last_error, calls, unwinding, panicked, report>>

\* status_result copies the diagnostic of a failure.
CopyDiagnostic(t) ==
    /\ Looking(t, "copy")
    /\ Decide(t, [Top(t) EXCEPT !.diagnostic = IF Top(t).failed THEN last_error[t] ELSE @],
              "none")
    /\ UNCHANGED <<last_error, calls, unwinding, panicked, report>>

\* Native storage is freed, by a native call.
free(frame) == [frame EXCEPT !.output = IF @ = "owned" THEN "freed" ELSE @]

FreeOutput(t) ==
    /\ Looking(t, "free")
    /\ Decide(t, free(Top(t)), "none")
    /\ IF Top(t).output = "owned" THEN NativeDiagnostic(t, 0) ELSE UNCHANGED last_error
    /\ UNCHANGED <<calls, unwinding, panicked, report>>

\* From here on the result is freed whenever the call returns.
ArmGuard(t) ==
    /\ Looking(t, "guard")
    /\ Decide(t, [Top(t) EXCEPT !.guarded = TRUE], "none")
    /\ UNCHANGED <<last_error, calls, unwinding, panicked, report>>

\* The result is validated and copied.
Convert(t, valid) ==
    /\ Looking(t, "convert")
    /\ Decide(t, Top(t), IF valid THEN "success" ELSE "invalid_output")
    /\ UNCHANGED <<last_error, calls, unwinding, panicked, report>>

\* Nothing was wrong: a stream is over, a load hands its handle to the new engine.
Succeed(t) ==
    /\ In(t, "checks") /\ Top(t).todo = <<>>
    /\ SetTop(t, [Top(t) EXCEPT !.outcome = "success", !.at = "leave",
                                !.output = IF Top(t).op \in Loads /\ @ = "owned"
                                           THEN "moved" ELSE @])
    /\ UNCHANGED <<last_error, calls, unwinding, panicked, report>>

\* Dropping NativeResultGuard or NativeStringGuard frees the result; without one nothing
\* happens to it.
drop_guard(frame) == IF frame.guarded THEN free(frame) ELSE frame

\* The call returns; a panic is resumed, which unwinds the callback around the call.
Return(t) ==
    /\ In(t, "leave")
    /\ stack' = [stack EXCEPT ![t] = Front(@)]
    /\ report' = [report EXCEPT ![t] = drop_guard(Top(t))]
    /\ IF Top(t).guarded /\ Top(t).output = "owned" THEN NativeDiagnostic(t, 0)
       ELSE UNCHANGED last_error
    /\ unwinding' = [unwinding EXCEPT ![t] =
                        Top(t).outcome = "panic" /\ Len(stack[t]) > 1]
    /\ UNCHANGED <<calls, panicked>>

-----------------------------------------------------------------------------
Rust(t) ==
    \/ CatchUnwind(t) \/ CopyDiagnostic(t) \/ FreeOutput(t) \/ ArmGuard(t) \/ Succeed(t)
    \/ Return(t)
    \/ \E check \in Checks : Look(t, check)
    \/ \E valid \in BOOLEAN : Convert(t, valid)

Application(t) ==
    \/ \E op \in Ops : Enter(t, op) \/ Reject(t, op)
    \/ \E control \in StreamControl : CallbackReturns(t, control)
    \/ CallbackPanics(t)

Native(t) ==
    \/ \E finished \in BOOLEAN : Deliver(t, finished) \/ DeliverInvalid(t, finished)
    \/ \E failed \in BOOLEAN, output \in {"none", "owned"} : NativeReturns(t, failed, output)
    \/ \E depth \in 1..MaxDepth : ProcessorFails(t, depth)

Finished ==
    /\ \A t \in Threads : stack[t] = <<>> /\ calls[t] = MaxCalls
    /\ UNCHANGED vars

Next ==
    \/ \E t \in Threads : Rust(t) \/ Application(t) \/ Native(t)
    \/ Finished

Spec == Init /\ [][Next]_vars

-----------------------------------------------------------------------------
(* Properties                                                                *)

\* "Blocking callback panics are contained before C and resumed afterward": once a
\* callback has panicked, however deep in calls within callbacks, the outermost
\* call ends with the panic and with nothing else.
PanicReachesCaller ==
    \A t \in Threads :
        stack[t] = <<>> /\ panicked[t] => report[t].outcome = "panic"

\* A call succeeds only if nothing went wrong in it: no panic, no malformed delta, no
\* native failure, and no processor failure before native code returned.  A stream is
\* called stopped by its callback exactly if the callback declined unfinished text.
SuccessIsClean ==
    \A t \in Threads :
        LET call == report[t]
        IN  call.outcome = "success" =>
                /\ ~call.failed /\ ~call.panic /\ ~call.error
                /\ call.processor # "failed"
                /\ call.stopped = (<<FALSE, "Stop">> \in call.answers)

\* A native error carries the diagnostic of the call it reports, not of a call made in
\* its callbacks, of a cleanup, or of an earlier call.
DiagnosticIsOwn ==
    \A t \in Threads :
        report[t].outcome = "native" => report[t].diagnostic = report[t].id

\* What native code gave a call is freed or in the engine it returned, on every path out
\* of it.  A result is freed by its guard, if the call ends after the guard was armed, and
\* the handle of a failed video load by the call itself: no early return may come before
\* either.
NothingLeaks ==
    \A t \in Threads : report[t].output # "owned"
=============================================================================
