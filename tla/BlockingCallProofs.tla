-------------------------- MODULE BlockingCallProofs --------------------------
(* Proofs about BlockingCall, for any number of threads, calls and events and *)
(* calls within calls of any depth.                                           *)
EXTENDS BlockingCall, SequenceTheorems, TLAPS

-----------------------------------------------------------------------------
(* A thread's stack                                                           *)

LEMMA FrontFacts ==
    ASSUME NEW S, NEW s \in Seq(S), s # <<>>
    PROVE  /\ Front(s) \in Seq(S) /\ Len(Front(s)) = Len(s) - 1
           /\ \A i \in 1..(Len(s) - 1) : Front(s)[i] = s[i]
           /\ Len(s) \in Nat \ {0} /\ Last(s) = s[Len(s)] /\ Last(s) \in S
<1>1. Len(s) \in Nat \ {0} /\ \A i \in 1..Len(s) : s[i] \in S
  OBVIOUS
<1>2. 1 \in Int /\ Len(s) - 1 \in Int /\ \A i \in 1..(Len(s) - 1) : s[i] \in S
  BY <1>1
<1>3. /\ SubSeq(s, 1, Len(s) - 1) \in Seq(S)
      /\ Len(SubSeq(s, 1, Len(s) - 1)) = IF 1 <= Len(s) - 1 THEN (Len(s) - 1) - 1 + 1 ELSE 0
      /\ \A i \in 1..((Len(s) - 1) - 1 + 1) : SubSeq(s, 1, Len(s) - 1)[i] = s[1 + i - 1]
  BY <1>2, SubSeqProperties
<1>. DEFINE n == Len(s)
<1>6. n \in Nat /\ n # 0
  BY <1>1
<1>. HIDE DEF n
<1>7. /\ (IF 1 <= n - 1 THEN (n - 1) - 1 + 1 ELSE 0) = n - 1
      /\ (n - 1) - 1 + 1 = n - 1
  BY <1>6
<1>4. (IF 1 <= Len(s) - 1 THEN (Len(s) - 1) - 1 + 1 ELSE 0) = Len(s) - 1
      /\ (Len(s) - 1) - 1 + 1 = Len(s) - 1
  BY <1>7 DEF n
<1>5. \A i \in 1..(Len(s) - 1) : SubSeq(s, 1, Len(s) - 1)[i] = s[i]
  BY <1>1, <1>3, <1>4
<1>. QED  BY <1>1, <1>3, <1>4, <1>5 DEF Front, Last

LEMMA TopFacts ==
    ASSUME NEW S, NEW s \in Seq(S), s # <<>>, NEW f \in S
    PROVE  LET r == Append(Front(s), f)
           IN  /\ r \in Seq(S) /\ r # <<>> /\ Len(r) = Len(s) /\ Last(r) = f
               /\ \A i \in 1..(Len(s) - 1) : r[i] = s[i]
               /\ r[Len(s)] = f
<1>1. /\ Front(s) \in Seq(S) /\ Len(Front(s)) = Len(s) - 1
      /\ \A i \in 1..(Len(s) - 1) : Front(s)[i] = s[i]
      /\ Len(s) \in Nat \ {0}
  BY FrontFacts
<1>. DEFINE r == Append(Front(s), f)
<1>2. /\ r \in Seq(S) /\ Len(r) = Len(s) /\ r[Len(s)] = f
      /\ \A i \in 1..(Len(s) - 1) : r[i] = Front(s)[i]
  BY <1>1
<1>3. r # <<>> /\ Last(r) = f
  BY <1>1, <1>2 DEF Last
<1>. QED  BY <1>1, <1>2, <1>3

LEMMA PushFacts ==
    ASSUME NEW S, NEW s \in Seq(S), NEW f \in S
    PROVE  LET r == Append(s, f)
           IN  /\ r \in Seq(S) /\ r # <<>> /\ Len(r) = Len(s) + 1 /\ Last(r) = f
               /\ \A i \in 1..Len(s) : r[i] = s[i]
               /\ r[Len(s) + 1] = f /\ Len(s) \in Nat
BY DEF Last

LEMMA TailFacts ==
    ASSUME NEW S, NEW s \in Seq(S), s # <<>>
    PROVE  /\ Tail(s) \in Seq(S) /\ Len(Tail(s)) = Len(s) - 1
           /\ \A i \in 1..(Len(s) - 1) : Tail(s)[i] = s[i + 1]
           /\ Len(s) \in Nat \ {0} /\ Head(s) = s[1]
OBVIOUS

-----------------------------------------------------------------------------
(* Frames                                                                     *)

\* The checks of a call, one after the other.
LEMMA ChecksType ==
    ASSUME NEW op \in Operations, NEW failed \in BOOLEAN
    PROVE  ChecksOf(op, failed) \in Seq(Checks)
<1>. USE DEF Checks
<1>1. complete_stream(failed) \in Seq(Checks) /\ chat_stream_json(failed) \in Seq(Checks)
  BY DEF complete_stream, chat_stream_json
<1>2. complete(failed) \in Seq(Checks) /\ complete_tokens_with(failed) \in Seq(Checks)
  <2>1. CASE failed
    BY <2>1 DEF complete, complete_tokens_with
  <2>2. CASE ~failed
    BY <2>2 DEF complete, complete_tokens_with
  <2>. QED  BY <2>1, <2>2
<1>3. chat_json(failed) \in Seq(Checks) /\ result_with(failed) \in Seq(Checks)
  BY DEF chat_json, result_with
<1>4. load_engine_with(failed) \in Seq(Checks) /\ load_video_engine_with(failed) \in Seq(Checks)
  <2>1. CASE failed
    BY <2>1 DEF load_engine_with, load_video_engine_with
  <2>2. CASE ~failed
    BY <2>2 DEF load_engine_with, load_video_engine_with
  <2>. QED  BY <2>1, <2>2
<1>. QED  BY <1>1, <1>2, <1>3, <1>4 DEF Operations, ChecksOf

LEMMA NewFrameType ==
    ASSUME NEW op \in Operations, NEW id \in 0..MaxCalls
    PROVE  NewFrame(op, id) \in Frame
BY BoundsAssumption DEF NewFrame, Frame, Outcomes

\* What the steps of native code and of the callback change.
LEMMA NativeFrames ==
    ASSUME NEW f \in Frame, f.events < MaxEvents, NEW finished \in BOOLEAN
    PROVE  /\ [f EXCEPT !.error = TRUE, !.ended = TRUE, !.events = @ + 1,
                        !.finished = finished] \in Frame
           /\ [f EXCEPT !.at = "callback", !.events = @ + 1, !.finished = finished] \in Frame
<1>1. f.events + 1 \in 0..MaxEvents
  BY BoundsAssumption DEF Frame
<1>. QED  BY <1>1 DEF Frame

LEMMA CallbackFrames ==
    ASSUME NEW f \in Frame, NEW control \in StreamControl
    PROVE  /\ [apply_control(f, control)
                  EXCEPT !.at = "native", !.ended = @ \/ f.finished,
                         !.answers = @ \cup {<<f.finished, control>>}] \in Frame
           /\ [f EXCEPT !.at = "native", !.panic = TRUE, !.ended = TRUE] \in Frame
<1>1. f.answers \cup {<<f.finished, control>>} \in SUBSET (BOOLEAN \X StreamControl)
  BY DEF Frame
<1>. DEFINE g == [apply_control(f, control)
                     EXCEPT !.at = "native", !.ended = @ \/ f.finished,
                            !.answers = @ \cup {<<f.finished, control>>}]
            stopped == f.stopped \/ (control = "Stop" /\ ~f.finished)
            ended == (f.ended \/ control = "Stop") \/ f.finished
<1>2. g = [f EXCEPT !.at = "native", !.answers = f.answers \cup {<<f.finished, control>>},
                    !.stopped = stopped, !.ended = ended]
  BY DEF Frame, apply_control
<1>3. stopped \in BOOLEAN /\ ended \in BOOLEAN
  OBVIOUS
<1>4. [f EXCEPT !.at = "native", !.panic = TRUE, !.ended = TRUE] \in Frame
  BY DEF Frame
<1>. HIDE DEF stopped, ended
<1>. DEFINE h == [f EXCEPT !.at = "native", !.answers = f.answers \cup {<<f.finished, control>>}]
<1>5. h \in Frame
  BY <1>1 DEF Frame
<1>6. g = [h EXCEPT !.stopped = stopped, !.ended = ended]
  BY <1>2 DEF Frame
<1>. HIDE DEF g, h
<1>7. g \in Frame
  BY <1>3, <1>5, <1>6 DEF Frame
<1>. QED  BY <1>4, <1>7 DEF g

LEMMA ReturnFrames ==
    ASSUME NEW f \in Frame, NEW failed \in BOOLEAN, NEW output \in {"none", "owned"}
    PROVE  [f EXCEPT !.at = "checks", !.failed = failed, !.output = output,
                     !.todo = ChecksOf(f.op, failed)] \in Frame
BY ChecksType DEF Frame

LEMMA CheckFrames ==
    ASSUME NEW f \in Frame, f.todo # <<>>, NEW outcome \in Outcomes, NEW diagnostic \in 0..MaxCalls,
           NEW output \in {"none", "owned", "freed", "moved"}, NEW at \in {"checks", "leave"}
    PROVE  /\ [f EXCEPT !.todo = Tail(@), !.outcome = outcome, !.at = at] \in Frame
           /\ [f EXCEPT !.diagnostic = diagnostic] \in Frame
           /\ [f EXCEPT !.output = output] \in Frame
<1>1. Tail(f.todo) \in Seq(Checks)
  BY TailFacts DEF Frame
<1>. QED  BY <1>1 DEF Frame

-----------------------------------------------------------------------------
(* The invariant                                                              *)

\* Panics and malformed deltas come from streams, processor failures from calls that
\* have a processor, and a stop is the callback's if it declined unfinished text.
FrameInv(f) ==
    /\ f.at = "callback" \/ f.panic \/ f.error => f.op \in Streams
    /\ f.processor # "ok" => f.op \in WithProcessor
    /\ f.stopped <=> <<FALSE, "Stop">> \in f.answers

\* While a call looks at what happened: everything that went wrong has its check still
\* to come, the panic's first and the conversion last; the diagnostic err of the thread
\* is the call's own until it has been copied, and nothing is freed before that.
ChecksInv(f, err) ==
    /\ \A i \in 1..Len(f.todo) : f.todo[i] = "convert" => i = Len(f.todo)
    /\ f.panic => f.todo # <<>> /\ f.todo[1] = "panic"
    /\ f.error => \E i \in 1..Len(f.todo) : f.todo[i] = "error"
    /\ f.processor = "failed" => \E i \in 1..Len(f.todo) : f.todo[i] = "processor"
    /\ f.failed =>
          /\ \E i \in 1..Len(f.todo) : f.todo[i] = "status"
          /\ \A i \in 1..Len(f.todo) :
                f.todo[i] = "status" =>
                    f.diagnostic = f.id \/ \E j \in 1..Len(f.todo) : j < i /\ f.todo[j] = "copy"
          /\ \A i \in 1..Len(f.todo) : f.todo[i] = "copy" => err = f.id
    /\ \A i, j \in 1..Len(f.todo) : f.todo[i] = "free" /\ i < j => f.todo[j] # "copy"

Clean(f) ==
    /\ ~f.failed /\ ~f.panic /\ ~f.error /\ f.processor # "failed"
    /\ f.stopped = (<<FALSE, "Stop">> \in f.answers)

Verdict(f) ==
    /\ f.outcome = "success" => Clean(f)
    /\ f.outcome = "native" => f.diagnostic = f.id

\* Checks at which a call can end while it owns what native code gave it.
MayEnd(f, check) ==
    check \in {"panic", "error", "processor", "convert"} \/ (check = "status" /\ f.failed)

\* As long as nothing holds an output, it is freed, or its guard armed, before the call
\* can end; only a load can succeed without either, and moves its handle.
HeldInv(f) ==
    f.output = "owned" /\ ~f.guarded =>
        /\ \A i \in 1..Len(f.todo) :
              MayEnd(f, f.todo[i]) =>
                  \E j \in 1..Len(f.todo) : j < i /\ f.todo[j] \in {"free", "guard"}
        /\ f.op \notin Loads => \E j \in 1..Len(f.todo) : f.todo[j] = "guard"

Held(f) == f.output = "owned" => f.guarded

TopInv(f, err) ==
    /\ f.at = "checks" => ChecksInv(f, err) /\ HeldInv(f)
    /\ f.at = "leave" => Verdict(f) /\ Held(f)

\* A frame that is about to end with a panic.
Pending(f) ==
    /\ f.panic
    /\ \/ f.at = "native" /\ f.ended
       \/ f.at = "checks"
       \/ f.at = "leave" /\ f.outcome = "panic"

\* A thread: its stack, its diagnostic, whether it unwinds and has panicked, its report.
\* Calls are made from callbacks, and a panic is under way until the last call returns.
TInv(s, err, unwinds, panics, rep) ==
    /\ \A i \in 1..Len(s) : FrameInv(s[i])
    /\ \A i \in 1..Len(s) : i < Len(s) => s[i].at = "callback"
    /\ s # <<>> => TopInv(Last(s), err)
    /\ unwinds => s # <<>> /\ Last(s).at = "callback"
    /\ panics => IF s = <<>> THEN rep.outcome = "panic" ELSE unwinds \/ Pending(Last(s))
    /\ Verdict(rep) /\ rep.output # "owned"

Inv ==
    /\ TypeOK
    /\ \A t \in Threads : TInv(stack[t], last_error[t], unwinding[t], panicked[t], report[t])

LEMMA Lift ==
    ASSUME Inv, TypeOK', NEW t \in Threads,
           \A u \in Threads \ {t} :
               /\ stack'[u] = stack[u] /\ last_error'[u] = last_error[u]
               /\ unwinding'[u] = unwinding[u] /\ panicked'[u] = panicked[u]
               /\ report'[u] = report[u],
           TInv(stack'[t], last_error'[t], unwinding'[t], panicked'[t], report'[t])
    PROVE  Inv'
<1>1. SUFFICES ASSUME NEW u \in Threads
               PROVE  TInv(stack'[u], last_error'[u], unwinding'[u], panicked'[u], report'[u])
  BY DEF Inv
<1>2. CASE u = t
  BY <1>2
<1>3. CASE u # t
  BY <1>3 DEF Inv
<1>. QED  BY <1>2, <1>3

LEMMA ReplaceTop ==
    ASSUME NEW s \in Seq(Frame), s # <<>>, NEW f \in Frame, NEW e1, NEW e2, NEW u1, NEW u2,
           NEW p, NEW rep, TInv(s, e1, u1, p, rep),
           FrameInv(f), TopInv(f, e2), u2 => f.at = "callback", p => u2 \/ Pending(f)
    PROVE  TInv(Append(Front(s), f), e2, u2, p, rep)
<1>. DEFINE r == Append(Front(s), f)
<1>1. /\ r \in Seq(Frame) /\ r # <<>> /\ Len(r) = Len(s) /\ Last(r) = f
      /\ \A i \in 1..(Len(s) - 1) : r[i] = s[i]
      /\ r[Len(s)] = f /\ Len(s) \in Nat
  BY TopFacts
<1>. HIDE DEF r
<1>2. \A i \in 1..Len(r) : i = Len(s) \/ i \in 1..(Len(s) - 1)
  BY <1>1
<1>3. \A i \in 1..Len(r) : FrameInv(r[i])
  BY <1>1, <1>2 DEF TInv
<1>4. \A i \in 1..Len(r) : i < Len(r) => r[i].at = "callback"
  BY <1>1, <1>2 DEF TInv
<1>5. TInv(r, e2, u2, p, rep)
  BY <1>1, <1>3, <1>4 DEF TInv
<1>. QED  BY <1>5 DEF r

\* A step that only changes the innermost call, the diagnostic and the unwinding.
LEMMA SetTopStep ==
    ASSUME Inv, NEW t \in Threads, stack[t] # <<>>, NEW f \in Frame, SetTop(t, f),
           UNCHANGED <<calls, panicked, report>>,
           last_error' \in [Threads -> 0..MaxCalls], unwinding' \in [Threads -> BOOLEAN],
           \A u \in Threads \ {t} : last_error'[u] = last_error[u] /\ unwinding'[u] = unwinding[u],
           FrameInv(f), TopInv(f, last_error'[t]), unwinding'[t] => f.at = "callback",
           panicked[t] => unwinding'[t] \/ Pending(f)
    PROVE  Inv'
<1>1. stack[t] \in Seq(Frame) /\ stack \in [Threads -> Seq(Frame)]
  BY DEF Inv, TypeOK
<1>2. Append(Front(stack[t]), f) \in Seq(Frame)
  BY <1>1, TopFacts
<1>3. stack' = [stack EXCEPT ![t] = Append(Front(stack[t]), f)]
  BY DEF SetTop
<1>4. stack' \in [Threads -> Seq(Frame)] /\ stack'[t] = Append(Front(stack[t]), f)
      /\ \A u \in Threads \ {t} : stack'[u] = stack[u]
  BY <1>1, <1>2, <1>3
<1>5. TypeOK'
  BY <1>4 DEF Inv, TypeOK
<1>6. TInv(stack[t], last_error[t], unwinding[t], panicked[t], report[t])
  BY DEF Inv
<1>7. TInv(Append(Front(stack[t]), f), last_error'[t], unwinding'[t], panicked[t], report[t])
  BY <1>1, <1>6, ReplaceTop
<1>8. TInv(stack'[t], last_error'[t], unwinding'[t], panicked'[t], report'[t])
  BY <1>4, <1>7
<1>. QED  BY <1>4, <1>5, <1>8, Lift

-----------------------------------------------------------------------------
(* The checks                                                                 *)

\* When native code returns every check that is needed is on the list.
LEMMA ChecksStart ==
    ASSUME NEW f \in Frame, FrameInv(f), NEW err, f.failed => err = f.id,
           f.todo = ChecksOf(f.op, f.failed)
    PROVE  ChecksInv(f, err)
<1>. DEFINE c == f.todo
<1>t. f.op \in Operations /\ f.failed \in BOOLEAN
  BY DEF Frame
<1>s. /\ f.panic \/ f.error => f.op \in {"complete_stream", "chat_stream_json"}
      /\ f.processor # "ok" => f.op \in {"complete", "complete_tokens", "complete_stream"}
  BY DEF FrameInv, Streams, WithProcessor
<1>1. CASE f.op = "complete_stream"
  <2>1. c = <<"panic", "error", "processor", "copy", "status">>
    BY <1>1 DEF ChecksOf, complete_stream
  <2>2. /\ Len(c) = 5 /\ 1..Len(c) = {1, 2, 3, 4, 5}
        /\ c[1] = "panic" /\ c[2] = "error" /\ c[3] = "processor" /\ c[4] = "copy" /\ c[5] = "status"
    BY <2>1
  <2>. HIDE DEF c
  <2>3. ASSUME NEW i \in 1..Len(c), c[i] = "status"
        PROVE  \E j \in 1..Len(c) : j < i /\ c[j] = "copy"
    <3>1. i = 5 /\ 4 \in 1..Len(c) /\ 4 < i
      BY <2>2, <2>3
    <3>. QED  BY <3>1, <2>2
  <2>. QED  BY <1>1, <1>s, <2>2, <2>3 DEF ChecksInv, c
<1>2. CASE f.op = "chat_stream_json"
  <2>1. c = <<"panic", "error", "copy", "status">>
    BY <1>2 DEF ChecksOf, chat_stream_json
  <2>2. /\ Len(c) = 4 /\ 1..Len(c) = {1, 2, 3, 4}
        /\ c[1] = "panic" /\ c[2] = "error" /\ c[3] = "copy" /\ c[4] = "status"
    BY <2>1
  <2>. HIDE DEF c
  <2>3. ASSUME NEW i \in 1..Len(c), c[i] = "status"
        PROVE  \E j \in 1..Len(c) : j < i /\ c[j] = "copy"
    <3>1. i = 4 /\ 3 \in 1..Len(c) /\ 3 < i
      BY <2>2, <2>3
    <3>. QED  BY <3>1, <2>2
  <2>. QED  BY <1>2, <1>s, <2>2, <2>3 DEF ChecksInv, c
<1>3. CASE f.op = "complete" /\ f.failed
  <2>1. c = <<"processor", "copy", "status">>
    BY <1>3 DEF ChecksOf, complete
  <2>2. /\ Len(c) = 3 /\ 1..Len(c) = {1, 2, 3}
        /\ c[1] = "processor" /\ c[2] = "copy" /\ c[3] = "status"
    BY <2>1
  <2>. HIDE DEF c
  <2>3. ASSUME NEW i \in 1..Len(c), c[i] = "status"
        PROVE  \E j \in 1..Len(c) : j < i /\ c[j] = "copy"
    <3>1. i = 3 /\ 2 \in 1..Len(c) /\ 2 < i
      BY <2>2, <2>3
    <3>. QED  BY <3>1, <2>2
  <2>. QED  BY <1>3, <1>s, <2>2, <2>3 DEF ChecksInv, c
<1>4. CASE f.op = "complete_tokens" /\ f.failed
  <2>1. c = <<"copy", "processor", "status">>
    BY <1>4 DEF ChecksOf, complete_tokens_with
  <2>2. /\ Len(c) = 3 /\ 1..Len(c) = {1, 2, 3}
        /\ c[1] = "copy" /\ c[2] = "processor" /\ c[3] = "status"
    BY <2>1
  <2>. HIDE DEF c
  <2>3. ASSUME NEW i \in 1..Len(c), c[i] = "status"
        PROVE  \E j \in 1..Len(c) : j < i /\ c[j] = "copy"
    <3>1. i = 3 /\ 1 \in 1..Len(c) /\ 1 < i
      BY <2>2, <2>3
    <3>. QED  BY <3>1, <2>2
  <2>. QED  BY <1>4, <1>s, <2>2, <2>3 DEF ChecksInv, c
<1>5. CASE f.op \in {"complete", "complete_tokens"} /\ ~f.failed
  <2>1. c = <<"guard", "processor", "convert">>
    BY <1>5 DEF ChecksOf, complete, complete_tokens_with
  <2>2. /\ Len(c) = 3 /\ 1..Len(c) = {1, 2, 3}
        /\ c[1] = "guard" /\ c[2] = "processor" /\ c[3] = "convert"
    BY <2>1
  <2>. HIDE DEF c
  <2>. QED  BY <1>5, <1>s, <2>2 DEF ChecksInv, c
<1>6. CASE f.op = "chat_json"
  <2>1. c = <<"copy", "status", "null", "guard", "convert">>
    BY <1>6 DEF ChecksOf, chat_json
  <2>2. /\ Len(c) = 5 /\ 1..Len(c) = {1, 2, 3, 4, 5}
        /\ c[1] = "copy" /\ c[2] = "status" /\ c[3] = "null" /\ c[4] = "guard" /\ c[5] = "convert"
    BY <2>1
  <2>. HIDE DEF c
  <2>3. ASSUME NEW i \in 1..Len(c), c[i] = "status"
        PROVE  \E j \in 1..Len(c) : j < i /\ c[j] = "copy"
    <3>1. i = 2 /\ 1 \in 1..Len(c) /\ 1 < i
      BY <2>2, <2>3
    <3>. QED  BY <3>1, <2>2
  <2>. QED  BY <1>6, <1>s, <2>2, <2>3 DEF ChecksInv, c
<1>7. CASE f.op = "result"
  <2>1. c = <<"copy", "status", "guard", "convert">>
    BY <1>7 DEF ChecksOf, result_with
  <2>2. /\ Len(c) = 4 /\ 1..Len(c) = {1, 2, 3, 4}
        /\ c[1] = "copy" /\ c[2] = "status" /\ c[3] = "guard" /\ c[4] = "convert"
    BY <2>1
  <2>. HIDE DEF c
  <2>3. ASSUME NEW i \in 1..Len(c), c[i] = "status"
        PROVE  \E j \in 1..Len(c) : j < i /\ c[j] = "copy"
    <3>1. i = 2 /\ 1 \in 1..Len(c) /\ 1 < i
      BY <2>2, <2>3
    <3>. QED  BY <3>1, <2>2
  <2>. QED  BY <1>7, <1>s, <2>2, <2>3 DEF ChecksInv, c
<1>8. CASE f.op = "load"
  <2>1. c = <<"copy", "status", "null">>
    BY <1>8 DEF ChecksOf, load_engine_with
  <2>2. /\ Len(c) = 3 /\ 1..Len(c) = {1, 2, 3}
        /\ c[1] = "copy" /\ c[2] = "status" /\ c[3] = "null"
    BY <2>1
  <2>. HIDE DEF c
  <2>3. ASSUME NEW i \in 1..Len(c), c[i] = "status"
        PROVE  \E j \in 1..Len(c) : j < i /\ c[j] = "copy"
    <3>1. i = 2 /\ 1 \in 1..Len(c) /\ 1 < i
      BY <2>2, <2>3
    <3>. QED  BY <3>1, <2>2
  <2>. QED  BY <1>8, <1>s, <2>2, <2>3 DEF ChecksInv, c
<1>9. CASE f.op = "load_video" /\ f.failed
  <2>1. c = <<"copy", "free", "status">>
    BY <1>9 DEF ChecksOf, load_video_engine_with
  <2>2. /\ Len(c) = 3 /\ 1..Len(c) = {1, 2, 3}
        /\ c[1] = "copy" /\ c[2] = "free" /\ c[3] = "status"
    BY <2>1
  <2>. HIDE DEF c
  <2>3. ASSUME NEW i \in 1..Len(c), c[i] = "status"
        PROVE  \E j \in 1..Len(c) : j < i /\ c[j] = "copy"
    <3>1. i = 3 /\ 1 \in 1..Len(c) /\ 1 < i
      BY <2>2, <2>3
    <3>. QED  BY <3>1, <2>2
  <2>4. \A i, j \in 1..Len(c) : c[i] = "free" /\ i < j => c[j] # "copy"
    BY <2>2
  <2>. QED  BY <1>9, <1>s, <2>2, <2>3, <2>4 DEF ChecksInv, c
<1>10. CASE f.op = "load_video" /\ ~f.failed
  <2>1. c = <<"null">>
    BY <1>10 DEF ChecksOf, load_video_engine_with
  <2>2. /\ Len(c) = 1 /\ 1..Len(c) = {1}
        /\ c[1] = "null"
    BY <2>1
  <2>. HIDE DEF c
  <2>. QED  BY <1>10, <1>s, <2>2 DEF ChecksInv, c
<1>. QED
  BY <1>t, <1>1, <1>2, <1>3, <1>4, <1>5, <1>6, <1>7, <1>8, <1>9, <1>10 DEF Operations

\* Whatever native code leaves is freed, guarded or a load's before the call can end.
LEMMA HeldStart ==
    ASSUME NEW f \in Frame, f.todo = ChecksOf(f.op, f.failed), f.output \in Outputs(f.op, f.failed)
    PROVE  HeldInv(f)
<1>. SUFFICES ASSUME f.output = "owned", ~f.guarded PROVE HeldInv(f)
  BY DEF HeldInv
<1>. DEFINE c == f.todo
<1>t. f.op \in Operations /\ f.failed \in BOOLEAN
  BY DEF Frame
<1>s. f.op \notin Streams /\ (f.failed => f.op = "load_video")
  BY DEF Outputs
<1>1. CASE f.op \in {"complete", "complete_tokens"}
  <2>1. c = <<"guard", "processor", "convert">>
    BY <1>1, <1>s DEF ChecksOf, complete, complete_tokens_with
  <2>2. /\ 1..Len(c) = {1, 2, 3}
        /\ c[1] = "guard" /\ c[2] = "processor" /\ c[3] = "convert"
    BY <2>1
  <2>. HIDE DEF c
  <2>3. ASSUME NEW i \in 1..Len(c), MayEnd(f, c[i])
        PROVE  \E j \in 1..Len(c) : j < i /\ c[j] \in {"free", "guard"}
    <3>1. 1 \in 1..Len(c) /\ 1 < i
      BY <2>2, <2>3 DEF MayEnd
    <3>. QED  BY <2>2, <3>1
  <2>4. \E j \in 1..Len(c) : c[j] = "guard"
    BY <2>2
  <2>. QED  BY <2>3, <2>4 DEF HeldInv, c
<1>2. CASE f.op = "chat_json"
  <2>1. c = <<"copy", "status", "null", "guard", "convert">>
    BY <1>2 DEF ChecksOf, chat_json
  <2>2. /\ 1..Len(c) = {1, 2, 3, 4, 5}
        /\ c[1] = "copy" /\ c[2] = "status" /\ c[3] = "null" /\ c[4] = "guard" /\ c[5] = "convert"
    BY <2>1
  <2>. HIDE DEF c
  <2>3. ASSUME NEW i \in 1..Len(c), MayEnd(f, c[i])
        PROVE  \E j \in 1..Len(c) : j < i /\ c[j] \in {"free", "guard"}
    <3>1. 4 \in 1..Len(c) /\ 4 < i
      BY <1>2, <1>s, <2>2, <2>3 DEF MayEnd
    <3>. QED  BY <2>2, <3>1
  <2>4. \E j \in 1..Len(c) : c[j] = "guard"
    BY <2>2
  <2>. QED  BY <2>3, <2>4 DEF HeldInv, c
<1>3. CASE f.op = "result"
  <2>1. c = <<"copy", "status", "guard", "convert">>
    BY <1>3 DEF ChecksOf, result_with
  <2>2. /\ 1..Len(c) = {1, 2, 3, 4}
        /\ c[1] = "copy" /\ c[2] = "status" /\ c[3] = "guard" /\ c[4] = "convert"
    BY <2>1
  <2>. HIDE DEF c
  <2>3. ASSUME NEW i \in 1..Len(c), MayEnd(f, c[i])
        PROVE  \E j \in 1..Len(c) : j < i /\ c[j] \in {"free", "guard"}
    <3>1. 3 \in 1..Len(c) /\ 3 < i
      BY <1>3, <1>s, <2>2, <2>3 DEF MayEnd
    <3>. QED  BY <2>2, <3>1
  <2>4. \E j \in 1..Len(c) : c[j] = "guard"
    BY <2>2
  <2>. QED  BY <2>3, <2>4 DEF HeldInv, c
<1>4. CASE f.op = "load"
  <2>1. c = <<"copy", "status", "null">>
    BY <1>4 DEF ChecksOf, load_engine_with
  <2>2. /\ 1..Len(c) = {1, 2, 3} /\ c[1] = "copy" /\ c[2] = "status" /\ c[3] = "null"
    BY <2>1
  <2>. HIDE DEF c
  <2>3. \A i \in 1..Len(c) : ~MayEnd(f, c[i])
    BY <1>4, <1>s, <2>2 DEF MayEnd
  <2>. QED  BY <1>4, <2>3 DEF HeldInv, Loads, c
<1>5. CASE f.op = "load_video" /\ f.failed
  <2>1. c = <<"copy", "free", "status">>
    BY <1>5 DEF ChecksOf, load_video_engine_with
  <2>2. /\ 1..Len(c) = {1, 2, 3} /\ c[1] = "copy" /\ c[2] = "free" /\ c[3] = "status"
    BY <2>1
  <2>. HIDE DEF c
  <2>3. ASSUME NEW i \in 1..Len(c), MayEnd(f, c[i])
        PROVE  \E j \in 1..Len(c) : j < i /\ c[j] \in {"free", "guard"}
    <3>1. 2 \in 1..Len(c) /\ 2 < i
      BY <2>2, <2>3 DEF MayEnd
    <3>. QED  BY <2>2, <3>1
  <2>. QED  BY <1>5, <2>3 DEF HeldInv, Loads, c
<1>6. CASE f.op = "load_video" /\ ~f.failed
  <2>1. c = <<"null">>
    BY <1>6 DEF ChecksOf, load_video_engine_with
  <2>2. 1..Len(c) = {1} /\ c[1] = "null"
    BY <2>1
  <2>. HIDE DEF c
  <2>3. \A i \in 1..Len(c) : ~MayEnd(f, c[i])
    BY <2>2 DEF MayEnd
  <2>. QED  BY <1>6, <2>3 DEF HeldInv, Loads, c
<1>. QED  BY <1>t, <1>s, <1>1, <1>2, <1>3, <1>4, <1>5, <1>6 DEF Operations, Streams

\* It stays so behind a check that neither frees nor arms.
LEMMA HeldTail ==
    ASSUME NEW f \in Frame, HeldInv(f), f.todo # <<>>, NEW g \in Frame,
           g.todo = Tail(f.todo), g.op = f.op, g.failed = f.failed,
           g.output = f.output, g.guarded = f.guarded,
           Head(f.todo) \notin {"free", "guard"}
    PROVE  HeldInv(g)
<1>. SUFFICES ASSUME g.output = "owned", ~g.guarded PROVE HeldInv(g)
  BY DEF HeldInv
<1>. DEFINE c == f.todo
            d == g.todo
            n == Len(d)
<1>1. /\ n = Len(c) - 1 /\ \A i \in 1..n : d[i] = c[i + 1]
      /\ Len(c) \in Nat \ {0} /\ Head(c) = c[1] /\ n \in Nat
  BY TailFacts DEF Frame
<1>2. \A i \in 1..n : i + 1 \in 1..Len(c) /\ i + 1 # 1
  BY <1>1
<1>3. \A i \in 1..Len(c) : i = 1 \/ (i - 1 \in 1..n /\ c[i] = d[i - 1])
  BY <1>1
<1>. HIDE DEF n
<1>4. ASSUME NEW i \in 1..n, MayEnd(g, d[i])
      PROVE  \E j \in 1..n : j < i /\ d[j] \in {"free", "guard"}
  <2>1. i + 1 \in 1..Len(c) /\ MayEnd(f, c[i + 1])
    BY <1>1, <1>2, <1>4 DEF MayEnd
  <2>2. PICK j \in 1..Len(c) : j < i + 1 /\ c[j] \in {"free", "guard"}
    BY <2>1 DEF HeldInv
  <2>3. j - 1 \in 1..n /\ d[j - 1] = c[j] /\ j - 1 < i
    BY <1>1, <1>3, <2>2
  <2>. QED  BY <2>2, <2>3
<1>5. ASSUME g.op \notin Loads PROVE \E j \in 1..n : d[j] = "guard"
  BY <1>1, <1>3, <1>5 DEF HeldInv
<1>. QED  BY <1>4, <1>5 DEF HeldInv, n

\* A check that has found nothing may be forgotten.
LEMMA ChecksTail ==
    ASSUME NEW f \in Frame, NEW e1, ChecksInv(f, e1), f.todo # <<>>, NEW g \in Frame, NEW e2,
           g.todo = Tail(f.todo), g.id = f.id, g.failed = f.failed, g.panic = f.panic,
           g.error = f.error, g.processor = f.processor,
           Head(f.todo) = "panic" => ~f.panic,
           Head(f.todo) = "error" => ~f.error,
           Head(f.todo) = "processor" => f.processor # "failed",
           Head(f.todo) = "status" => ~f.failed,
           g.diagnostic = f.diagnostic \/ Head(f.todo) = "copy",
           Head(f.todo) = "copy" => (f.failed => g.diagnostic = e1),
           e2 = e1 \/ Head(f.todo) = "free"
    PROVE  ChecksInv(g, e2)
<1>. DEFINE c == f.todo
            d == g.todo
            n == Len(d)
<1>1. /\ n = Len(c) - 1 /\ \A i \in 1..n : d[i] = c[i + 1]
      /\ Len(c) \in Nat \ {0} /\ Head(c) = c[1] /\ n \in Nat
  BY TailFacts DEF Frame
<1>2. \A i \in 1..n : i + 1 \in 1..Len(c) /\ i + 1 # 1
  BY <1>1
<1>3. \A i \in 1..Len(c) : i = 1 \/ (i - 1 \in 1..n /\ c[i] = d[i - 1])
  BY <1>1
<1>. HIDE DEF n
<1>4. \A i \in 1..n : d[i] = "convert" => i = n
  BY <1>1, <1>2 DEF ChecksInv
<1>5. ~g.panic
  BY <1>1 DEF ChecksInv
<1>6. g.error => \E i \in 1..n : d[i] = "error"
  BY <1>1, <1>3 DEF ChecksInv
<1>7. g.processor = "failed" => \E i \in 1..n : d[i] = "processor"
  BY <1>1, <1>3 DEF ChecksInv
<1>8. g.failed => \E i \in 1..n : d[i] = "status"
  BY <1>1, <1>3 DEF ChecksInv
<1>9. ASSUME g.failed, NEW i \in 1..n, d[i] = "status"
      PROVE  g.diagnostic = g.id \/ \E j \in 1..n : j < i /\ d[j] = "copy"
  <2>1. CASE c[1] = "copy"
    <3>1. e1 = f.id /\ g.diagnostic = e1
      BY <1>1, <1>9, <2>1 DEF ChecksInv
    <3>. QED  BY <3>1
  <2>2. CASE c[1] # "copy"
    <3>1. c[i + 1] = "status" /\ i + 1 \in 1..Len(c)
      BY <1>1, <1>2, <1>9
    <3>2. f.diagnostic = f.id \/ \E j \in 1..Len(c) : j < i + 1 /\ c[j] = "copy"
      BY <3>1, <1>9 DEF ChecksInv
    <3>3. ASSUME NEW j \in 1..Len(c), j < i + 1, c[j] = "copy"
          PROVE  \E k \in 1..n : k < i /\ d[k] = "copy"
      <4>1. j - 1 \in 1..n /\ d[j - 1] = "copy" /\ j - 1 < i
        BY <1>3, <2>2, <3>3
      <4>. QED  BY <4>1
    <3>4. g.diagnostic = f.diagnostic
      BY <1>1, <2>2
    <3>. QED  BY <3>2, <3>3, <3>4
  <2>. QED  BY <2>1, <2>2
<1>10. ASSUME g.failed, NEW i \in 1..n, d[i] = "copy" PROVE e2 = g.id
  <2>1. c[i + 1] = "copy" /\ i + 1 \in 1..Len(c) /\ 1 \in 1..Len(c) /\ 1 < i + 1
    BY <1>1, <1>2, <1>10
  <2>2. e1 = f.id /\ c[1] # "free"
    BY <1>10, <2>1 DEF ChecksInv
  <2>. QED  BY <1>1, <2>2
<1>11. ASSUME NEW i \in 1..n, NEW j \in 1..n, d[i] = "free", i < j PROVE d[j] # "copy"
  BY <1>1, <1>2, <1>11 DEF ChecksInv
<1>. QED  BY <1>4, <1>5, <1>6, <1>7, <1>8, <1>9, <1>10, <1>11 DEF ChecksInv, n

-----------------------------------------------------------------------------
(* The steps                                                                  *)

LEMMA TopOf ==
    ASSUME Inv, NEW t \in Threads, stack[t] # <<>>
    PROVE  /\ stack[t] \in Seq(Frame) /\ Top(t) \in Frame
           /\ TInv(stack[t], last_error[t], unwinding[t], panicked[t], report[t])
           /\ FrameInv(Top(t)) /\ TopInv(Top(t), last_error[t])
           /\ unwinding[t] => Top(t).at = "callback"
           /\ panicked[t] => unwinding[t] \/ Pending(Top(t))
           /\ Top(t) = stack[t][Len(stack[t])] /\ Len(stack[t]) \in Nat \ {0}
<1>1. stack[t] \in Seq(Frame)
  BY DEF Inv, TypeOK
<1>2. TInv(stack[t], last_error[t], unwinding[t], panicked[t], report[t])
  BY DEF Inv
<1>3. /\ Top(t) \in Frame /\ Top(t) = stack[t][Len(stack[t])]
      /\ Len(stack[t]) \in Nat \ {0}
  BY <1>1, FrontFacts DEF Top
<1>4. Len(stack[t]) \in 1..Len(stack[t])
  BY <1>3
<1>5. FrameInv(Top(t))
  BY <1>2, <1>3, <1>4 DEF TInv
<1>. QED  BY <1>1, <1>2, <1>3, <1>5 DEF TInv, Top

LEMMA InitStep == Init => Inv
<1>. SUFFICES ASSUME Init PROVE Inv
  OBVIOUS
<1>. DEFINE r == NewFrame("result", 0)
<1>1. r \in Frame /\ 0 \in 0..MaxCalls
  BY NewFrameType, BoundsAssumption DEF Operations
<1>2. r.outcome = "none" /\ r.output = "none"
  BY DEF NewFrame
<1>. HIDE DEF r
<1>3. TypeOK
  <2>1. stack \in [Threads -> Seq(Frame)]
    BY DEF Init
  <2>2. report = [t \in Threads |-> r]
    BY DEF Init, r
  <2>. QED  BY <1>1, <2>1, <2>2 DEF Init, TypeOK
<1>4. ASSUME NEW t \in Threads
      PROVE  TInv(stack[t], last_error[t], unwinding[t], panicked[t], report[t])
  <2>1. report[t] = r /\ stack[t] = <<>> /\ ~unwinding[t] /\ ~panicked[t]
    BY DEF Init, r
  <2>2. Len(stack[t]) = 0 /\ \A i \in 1..Len(stack[t]) : FALSE
    BY <2>1
  <2>. QED  BY <1>2, <2>1, <2>2 DEF TInv, Verdict
<1>. QED  BY <1>3, <1>4 DEF Inv

\* No panic is under way when application code makes a call.
LEMMA CallsAreClean ==
    ASSUME Inv, NEW t \in Threads, MayCall(t)
    PROVE  /\ ~unwinding[t] /\ ~(panicked[t] /\ stack[t] # <<>>)
           /\ stack[t] # <<>> => Top(t).at = "callback"
           /\ calls[t] + 1 \in 0..MaxCalls
<1>1. calls[t] + 1 \in 0..MaxCalls
  BY BoundsAssumption DEF Inv, TypeOK, MayCall
<1>2. CASE stack[t] = <<>>
  BY <1>1, <1>2 DEF Inv, TInv
<1>3. CASE stack[t] # <<>>
  <2>1. Top(t).at = "callback" /\ ~unwinding[t]
    BY <1>3 DEF MayCall, In
  <2>2. ~panicked[t]
    BY <1>3, <2>1, TopOf DEF Pending
  <2>. QED  BY <1>1, <2>1, <2>2
<1>. QED  BY <1>2, <1>3

LEMMA EnterStep ==
    ASSUME Inv, NEW t \in Threads, NEW op \in Ops, Enter(t, op) PROVE Inv'
<1>. DEFINE f == NewFrame(op, calls[t] + 1)
            s == stack[t]
<1>1. /\ ~unwinding[t] /\ ~(panicked[t] /\ s # <<>>)
      /\ s # <<>> => Top(t).at = "callback"
      /\ calls[t] + 1 \in 0..MaxCalls
  BY CallsAreClean DEF Enter
<1>2. f \in Frame
  BY <1>1, NewFrameType, OpsAssumption
<1>3. f.at = "native" /\ FrameInv(f)
  BY DEF NewFrame, FrameInv
<1>4. /\ calls \in [Threads -> 0..MaxCalls] /\ stack \in [Threads -> Seq(Frame)]
      /\ panicked \in [Threads -> BOOLEAN] /\ s \in Seq(Frame)
      /\ unwinding \in [Threads -> BOOLEAN] /\ last_error \in [Threads -> 0..MaxCalls]
      /\ report \in [Threads -> Frame]
  BY DEF Inv, TypeOK
<1>5. /\ calls' = [calls EXCEPT ![t] = calls[t] + 1] /\ calls'[t] = calls[t] + 1
      /\ panicked' = [panicked EXCEPT ![t] = FALSE]
      /\ UNCHANGED <<last_error, unwinding, report>>
  BY <1>1, <1>4 DEF Enter
<1>6. stack' = [stack EXCEPT ![t] = Append(s, f)]
  BY <1>5 DEF Enter
<1>. HIDE DEF f
<1>7. /\ Append(s, f) \in Seq(Frame) /\ Append(s, f) # <<>> /\ Len(Append(s, f)) = Len(s) + 1
      /\ Last(Append(s, f)) = f /\ \A i \in 1..Len(s) : Append(s, f)[i] = s[i]
      /\ Append(s, f)[Len(s) + 1] = f /\ Len(s) \in Nat
  BY <1>2, <1>4, PushFacts
<1>. DEFINE r == Append(s, f)
<1>. HIDE DEF r
<1>8. TInv(s, last_error[t], unwinding[t], panicked[t], report[t])
  BY DEF Inv
<1>9. /\ r # <<>> /\ Len(r) = Len(s) + 1 /\ Last(r) = f
      /\ \A i \in 1..Len(s) : r[i] = s[i]
      /\ r[Len(s) + 1] = f /\ Len(s) \in Nat
  BY <1>7 DEF r
<1>10. \A i \in 1..Len(r) : i \in 1..Len(s) \/ i = Len(s) + 1
  BY <1>9
<1>11. \A i \in 1..Len(r) : FrameInv(r[i])
  BY <1>3, <1>8, <1>9, <1>10 DEF TInv
<1>12. ASSUME NEW i \in 1..Len(r), i < Len(r) PROVE r[i].at = "callback"
  <2>1. i \in 1..Len(s) /\ r[i] = s[i] /\ s # <<>>
    BY <1>9, <1>10, <1>12
  <2>2. CASE i = Len(s)
    BY <1>1, <2>1, <2>2, TopOf
  <2>3. CASE i # Len(s)
    BY <1>8, <1>9, <2>1, <2>3 DEF TInv
  <2>. QED  BY <2>2, <2>3
<1>13. TInv(r, last_error[t], FALSE, FALSE, report[t])
  BY <1>3, <1>8, <1>9, <1>11, <1>12 DEF TInv, TopInv
<1>14. unwinding[t] = FALSE
  BY <1>1, <1>4
<1>15. TInv(stack'[t], last_error'[t], unwinding'[t], panicked'[t], report'[t])
  BY <1>4, <1>5, <1>6, <1>13, <1>14 DEF r
<1>16. TypeOK'
  BY <1>1, <1>4, <1>5, <1>6, <1>7 DEF TypeOK
<1>. QED  BY <1>4, <1>5, <1>6, <1>15, <1>16, Lift

LEMMA RejectStep ==
    ASSUME Inv, NEW t \in Threads, NEW op \in Ops, Reject(t, op) PROVE Inv'
<1>. DEFINE f == [NewFrame(op, calls[t] + 1) EXCEPT !.outcome = "rejected"]
<1>1. /\ ~unwinding[t] /\ ~(panicked[t] /\ stack[t] # <<>>)
      /\ calls[t] + 1 \in 0..MaxCalls
  BY CallsAreClean DEF Reject
<1>2. NewFrame(op, calls[t] + 1) \in Frame
  BY <1>1, NewFrameType, OpsAssumption
<1>3. f \in Frame
  BY <1>2 DEF Frame, Outcomes
<1>4. f.outcome = "rejected" /\ f.output = "none"
  BY DEF NewFrame
<1>5. /\ calls \in [Threads -> 0..MaxCalls] /\ stack \in [Threads -> Seq(Frame)]
      /\ panicked \in [Threads -> BOOLEAN]
      /\ unwinding \in [Threads -> BOOLEAN] /\ last_error \in [Threads -> 0..MaxCalls]
      /\ report \in [Threads -> Frame]
  BY DEF Inv, TypeOK
<1>6. /\ calls' = [calls EXCEPT ![t] = calls[t] + 1] /\ calls'[t] = calls[t] + 1
      /\ panicked' = [panicked EXCEPT ![t] = FALSE]
      /\ UNCHANGED <<stack, last_error, unwinding>>
  BY <1>1, <1>5 DEF Reject
<1>7. report' = [report EXCEPT ![t] = f]
  BY <1>6 DEF Reject
<1>. HIDE DEF f
<1>8. TInv(stack[t], last_error[t], unwinding[t], panicked[t], report[t])
  BY DEF Inv
<1>9. TInv(stack[t], last_error[t], unwinding[t], FALSE, f)
  BY <1>4, <1>8 DEF TInv, Verdict
<1>10. TInv(stack'[t], last_error'[t], unwinding'[t], panicked'[t], report'[t])
  BY <1>5, <1>6, <1>7, <1>9
<1>11. TypeOK'
  BY <1>1, <1>3, <1>5, <1>6, <1>7 DEF TypeOK
<1>. QED  BY <1>5, <1>6, <1>7, <1>10, <1>11, Lift

LEMMA DeliverStep ==
    ASSUME Inv, NEW t \in Threads, NEW finished \in BOOLEAN,
           Deliver(t, finished) \/ DeliverInvalid(t, finished)
    PROVE  Inv'
<1>. DEFINE f == Top(t)
            g == [f EXCEPT !.at = "callback", !.events = @ + 1, !.finished = finished]
            h == [f EXCEPT !.error = TRUE, !.ended = TRUE, !.events = @ + 1,
                           !.finished = finished]
<1>1. /\ stack[t] # <<>> /\ f.at = "native" /\ f.op \in Streams
      /\ ~f.ended /\ f.events < MaxEvents
      /\ UNCHANGED <<last_error, calls, unwinding, panicked, report>>
  BY DEF Deliver, DeliverInvalid, MayDeliver, In
<1>2. /\ f \in Frame /\ FrameInv(f) /\ ~unwinding[t] /\ ~panicked[t]
  BY <1>1, TopOf DEF Pending
<1>3. g \in Frame /\ h \in Frame
  BY <1>1, <1>2, NativeFrames
<1>4. last_error \in [Threads -> 0..MaxCalls] /\ unwinding \in [Threads -> BOOLEAN]
  BY DEF Inv, TypeOK
<1>5. FrameInv(g) /\ TopInv(g, last_error[t])
  BY <1>1, <1>2 DEF FrameInv, TopInv, Frame
<1>6. FrameInv(h) /\ TopInv(h, last_error[t])
  BY <1>1, <1>2 DEF FrameInv, TopInv, Frame
<1>7. SetTop(t, g) \/ SetTop(t, h)
  BY DEF Deliver, DeliverInvalid
<1>. HIDE DEF f, g, h
<1>. QED  BY <1>1, <1>2, <1>3, <1>4, <1>5, <1>6, <1>7, SetTopStep

LEMMA CallbackReturnsStep ==
    ASSUME Inv, NEW t \in Threads, NEW control \in StreamControl, CallbackReturns(t, control)
    PROVE  Inv'
<1>. DEFINE f == Top(t)
            g == [apply_control(f, control)
                     EXCEPT !.at = "native", !.ended = @ \/ f.finished,
                            !.answers = @ \cup {<<f.finished, control>>}]
<1>1. /\ stack[t] # <<>> /\ f.at = "callback" /\ ~unwinding[t]
      /\ UNCHANGED <<last_error, calls, unwinding, panicked, report>>
  BY DEF CallbackReturns, In
<1>2. f \in Frame /\ FrameInv(f) /\ ~panicked[t]
  BY <1>1, TopOf DEF Pending
<1>3. g \in Frame
  BY <1>2, CallbackFrames
<1>4. last_error \in [Threads -> 0..MaxCalls] /\ unwinding \in [Threads -> BOOLEAN]
  BY DEF Inv, TypeOK
<1>5. /\ g.at = "native" /\ g.op = f.op /\ g.panic = f.panic /\ g.error = f.error
      /\ g.processor = f.processor
      /\ g.stopped = (f.stopped \/ (control = "Stop" /\ ~f.finished))
      /\ g.answers = f.answers \cup {<<f.finished, control>>}
  BY <1>2 DEF apply_control, Frame
<1>6. f.finished \in BOOLEAN
  BY <1>2 DEF Frame
<1>7. <<FALSE, "Stop">> = <<f.finished, control>> <=> control = "Stop" /\ ~f.finished
  BY <1>6
<1>8. SetTop(t, g)
  BY DEF CallbackReturns
<1>. HIDE DEF f, g
<1>9. FrameInv(g) /\ TopInv(g, last_error[t])
  BY <1>1, <1>2, <1>5, <1>7 DEF FrameInv, TopInv
<1>. QED  BY <1>1, <1>2, <1>3, <1>4, <1>8, <1>9, SetTopStep

LEMMA CatchUnwindStep ==
    ASSUME Inv, NEW t \in Threads, CatchUnwind(t) PROVE Inv'
<1>. DEFINE f == Top(t)
            g == [f EXCEPT !.at = "native", !.panic = TRUE, !.ended = TRUE]
<1>1. /\ stack[t] # <<>> /\ f.at = "callback"
      /\ unwinding' = [unwinding EXCEPT ![t] = FALSE]
      /\ UNCHANGED <<last_error, calls, panicked, report>>
  BY DEF CatchUnwind, In
<1>2. f \in Frame /\ FrameInv(f)
  BY <1>1, TopOf
<1>3. g \in Frame
  BY <1>2, CallbackFrames DEF StreamControl
<1>4. last_error \in [Threads -> 0..MaxCalls] /\ unwinding \in [Threads -> BOOLEAN]
  BY DEF Inv, TypeOK
<1>5. FrameInv(g) /\ TopInv(g, last_error[t]) /\ Pending(g)
  BY <1>1, <1>2 DEF FrameInv, TopInv, Frame, Pending
<1>6. SetTop(t, g)
  BY DEF CatchUnwind
<1>. HIDE DEF f, g
<1>7. /\ unwinding' \in [Threads -> BOOLEAN] /\ ~unwinding'[t]
      /\ \A u \in Threads \ {t} : unwinding'[u] = unwinding[u]
  BY <1>1, <1>4
<1>. QED  BY <1>1, <1>3, <1>4, <1>5, <1>6, <1>7, SetTopStep

LEMMA CallbackPanicsStep ==
    ASSUME Inv, NEW t \in Threads, CallbackPanics(t) PROVE Inv'
<1>1. /\ stack[t] # <<>> /\ Top(t).at = "callback"
      /\ unwinding' = [unwinding EXCEPT ![t] = TRUE]
      /\ panicked' = [panicked EXCEPT ![t] = TRUE]
      /\ UNCHANGED <<stack, last_error, calls, report>>
  BY DEF CallbackPanics, In
<1>2. TInv(stack[t], last_error[t], unwinding[t], panicked[t], report[t])
  BY DEF Inv
<1>3. TInv(stack[t], last_error[t], TRUE, TRUE, report[t])
  BY <1>1, <1>2 DEF TInv, Top
<1>4. unwinding \in [Threads -> BOOLEAN] /\ panicked \in [Threads -> BOOLEAN]
  BY DEF Inv, TypeOK
<1>5. TInv(stack'[t], last_error'[t], unwinding'[t], panicked'[t], report'[t])
  BY <1>1, <1>3, <1>4
<1>6. TypeOK'
  BY <1>1, <1>4 DEF Inv, TypeOK
<1>. QED  BY <1>1, <1>4, <1>5, <1>6, Lift

\* A processor that fails while native code runs is found by the check to come; what
\* fails later changes nothing the call looks at.
LEMMA ProcessorStep ==
    ASSUME Inv, NEW t \in Threads, NEW depth, ProcessorFails(t, depth) PROVE Inv'
<1>. DEFINE s == stack[t]
            f == s[depth]
            mark == IF f.at \in {"native", "callback"} THEN "failed" ELSE "failed_late"
            g == [f EXCEPT !.processor = mark]
            r == [s EXCEPT ![depth] = g]
<1>1. /\ depth \in 1..Len(s) /\ f.op \in WithProcessor /\ f.processor = "ok"
      /\ UNCHANGED <<last_error, calls, unwinding, panicked, report>>
      /\ stack' = [stack EXCEPT ![t][depth].processor = mark]
  BY DEF ProcessorFails
<1>2. stack \in [Threads -> Seq(Frame)] /\ s \in Seq(Frame) /\ s # <<>>
  BY <1>1 DEF Inv, TypeOK
<1>3. f \in Frame /\ Len(s) \in Nat \ {0}
  BY <1>1, <1>2
<1>4. g \in Frame
  BY <1>3 DEF Frame
<1>5. /\ g.at = f.at /\ g.op = f.op /\ g.panic = f.panic /\ g.error = f.error
      /\ g.stopped = f.stopped /\ g.answers = f.answers /\ g.todo = f.todo
      /\ g.failed = f.failed /\ g.diagnostic = f.diagnostic /\ g.id = f.id
      /\ g.ended = f.ended /\ g.outcome = f.outcome /\ g.processor = mark
      /\ g.output = f.output /\ g.guarded = f.guarded
  BY <1>3 DEF Frame
<1>6. stack' = [stack EXCEPT ![t] = r]
  BY <1>1, <1>2
<1>. HIDE DEF g
<1>7. /\ r \in Seq(Frame) /\ Len(r) = Len(s) /\ r[depth] = g
      /\ \A i \in 1..Len(s) : i # depth => r[i] = s[i]
  BY <1>1, <1>2, <1>4
<1>. HIDE DEF r
<1>8. r # <<>> /\ Last(r) = r[Len(s)] /\ Last(s) = s[Len(s)] /\ Len(s) \in 1..Len(s)
  BY <1>3, <1>7 DEF Last
<1>9. TInv(s, last_error[t], unwinding[t], panicked[t], report[t])
  BY DEF Inv
<1>10. FrameInv(g)
  BY <1>1, <1>5, <1>9 DEF TInv, FrameInv
<1>11. ASSUME TopInv(f, last_error[t]) PROVE TopInv(g, last_error[t])
  <2>1. CASE f.at = "checks"
    <3>1. g.processor = "failed_late"
      BY <1>5, <2>1
    <3>. QED  BY <1>5, <1>11, <2>1, <3>1 DEF TopInv, ChecksInv, HeldInv, MayEnd
  <2>2. CASE f.at = "leave"
    <3>1. g.processor = "failed_late"
      BY <1>5, <2>2
    <3>. QED  BY <1>1, <1>5, <1>11, <2>2, <3>1 DEF TopInv, Verdict, Clean, Held
  <2>. QED  BY <1>5, <2>1, <2>2 DEF TopInv
<1>12. \A i \in 1..Len(r) : FrameInv(r[i])
  BY <1>7, <1>9, <1>10 DEF TInv
<1>13. \A i \in 1..Len(r) : i < Len(r) => r[i].at = "callback"
  BY <1>5, <1>7, <1>9 DEF TInv
<1>14. /\ TopInv(Last(r), last_error[t])
       /\ Last(r).at = Last(s).at /\ (Pending(Last(s)) => Pending(Last(r)))
  <2>1. CASE depth = Len(s)
    BY <1>2, <1>5, <1>7, <1>8, <1>9, <1>11, <2>1 DEF TInv, Pending
  <2>2. CASE depth # Len(s)
    BY <1>2, <1>7, <1>8, <1>9, <2>2 DEF TInv
  <2>. QED  BY <2>1, <2>2
<1>15. TInv(r, last_error[t], unwinding[t], panicked[t], report[t])
  BY <1>2, <1>8, <1>9, <1>12, <1>13, <1>14 DEF TInv
<1>16. TInv(stack'[t], last_error'[t], unwinding'[t], panicked'[t], report'[t])
  BY <1>1, <1>2, <1>6, <1>15
<1>17. TypeOK'
  BY <1>1, <1>2, <1>6, <1>7 DEF Inv, TypeOK
<1>. QED  BY <1>1, <1>2, <1>6, <1>16, <1>17, Lift

LEMMA NativeReturnsStep ==
    ASSUME Inv, NEW t \in Threads, NEW failed \in BOOLEAN, NEW output \in {"none", "owned"},
           NativeReturns(t, failed, output)
    PROVE  Inv'
<1>. DEFINE f == Top(t)
            g == [f EXCEPT !.at = "checks", !.failed = failed, !.output = output,
                           !.todo = ChecksOf(f.op, failed)]
            err == IF failed THEN f.id ELSE 0
<1>1. /\ stack[t] # <<>> /\ f.at = "native"
      /\ UNCHANGED <<calls, unwinding, panicked, report>>
      /\ last_error' = [last_error EXCEPT ![t] = err] /\ output \in Outputs(f.op, failed)
  BY DEF NativeReturns, NativeDiagnostic, In
<1>2. /\ f \in Frame /\ FrameInv(f) /\ ~unwinding[t] /\ (panicked[t] => Pending(f))
  BY <1>1, TopOf
<1>3. g \in Frame
  BY <1>2, ReturnFrames
<1>4. last_error \in [Threads -> 0..MaxCalls] /\ unwinding \in [Threads -> BOOLEAN]
  BY DEF Inv, TypeOK
<1>5. err \in 0..MaxCalls
  BY <1>2, BoundsAssumption DEF Frame
<1>6. /\ g.at = "checks" /\ g.op = f.op /\ g.panic = f.panic /\ g.error = f.error
      /\ g.processor = f.processor /\ g.stopped = f.stopped /\ g.answers = f.answers
      /\ g.failed = failed /\ g.todo = ChecksOf(g.op, g.failed) /\ g.id = f.id
      /\ g.output \in Outputs(g.op, g.failed)
  BY <1>1, <1>2 DEF Frame
<1>7. SetTop(t, g)
  BY DEF NativeReturns
<1>8. g.failed => err = g.id
  BY <1>6
<1>. HIDE DEF f, g, err
<1>9. FrameInv(g)
  BY <1>1, <1>2, <1>6 DEF FrameInv
<1>10. TopInv(g, err)
  BY <1>3, <1>6, <1>8, <1>9, ChecksStart, HeldStart DEF TopInv
<1>11. panicked[t] => Pending(g)
  BY <1>1, <1>2, <1>6 DEF Pending
<1>12. /\ last_error' \in [Threads -> 0..MaxCalls] /\ last_error'[t] = err
       /\ \A u \in Threads \ {t} : last_error'[u] = last_error[u]
  BY <1>1, <1>4, <1>5
<1>. QED  BY <1>1, <1>2, <1>3, <1>4, <1>7, <1>9, <1>10, <1>11, <1>12, SetTopStep

\* A step of a call that looks at what happened: the call goes on with one check less
\* or is over with a verdict.
LEMMA LookingStep ==
    ASSUME Inv, NEW t \in Threads, In(t, "checks"), NEW f \in Frame, SetTop(t, f),
           UNCHANGED <<calls, unwinding, panicked, report>>,
           last_error' \in [Threads -> 0..MaxCalls],
           \A u \in Threads \ {t} : last_error'[u] = last_error[u],
           f.op = Top(t).op, f.panic = Top(t).panic, f.error = Top(t).error,
           f.processor = Top(t).processor, f.stopped = Top(t).stopped,
           f.answers = Top(t).answers,
           \/ f.at = "checks" /\ ChecksInv(f, last_error'[t]) /\ HeldInv(f)
           \/ f.at = "leave" /\ Verdict(f) /\ Held(f) /\ (f.panic => f.outcome = "panic")
    PROVE  Inv'
<1>1. stack[t] # <<>> /\ Top(t).at = "checks"
  BY DEF In
<1>2. /\ FrameInv(Top(t)) /\ ~unwinding[t] /\ (panicked[t] => Pending(Top(t)))
  BY <1>1, TopOf
<1>3. FrameInv(f) /\ TopInv(f, last_error'[t])
  BY <1>2 DEF FrameInv, TopInv
<1>4. panicked[t] => Pending(f)
  BY <1>2 DEF Pending
<1>5. unwinding \in [Threads -> BOOLEAN]
  BY DEF Inv, TypeOK
<1>. QED  BY <1>1, <1>2, <1>3, <1>4, <1>5, SetTopStep

LEMMA LookStep ==
    ASSUME Inv, NEW t \in Threads, NEW check \in Checks, Look(t, check) PROVE Inv'
<1>. DEFINE f == Top(t)
            outcome == ended_by(f, check)
            at == IF outcome = "none" THEN "checks" ELSE "leave"
            g == [f EXCEPT !.todo = Tail(@), !.outcome = outcome, !.at = at]
<1>1. /\ In(t, "checks") /\ stack[t] # <<>> /\ f.at = "checks" /\ f.todo # <<>>
      /\ Head(f.todo) = check
      /\ check \in {"panic", "error", "processor", "status", "null"}
      /\ SetTop(t, g)
      /\ UNCHANGED <<last_error, calls, unwinding, panicked, report>>
  BY DEF Look, Looking, In, Decide
<1>2. f \in Frame /\ ChecksInv(f, last_error[t]) /\ HeldInv(f) /\ last_error \in [Threads -> 0..MaxCalls]
  BY <1>1, TopOf DEF TopInv, Inv, TypeOK
<1>3. outcome \in {"none", "panic", "invalid_utf8", "processor", "native", "no_result"}
      /\ (outcome = "none" => /\ check = "panic" => ~f.panic
                              /\ check = "error" => ~f.error
                              /\ check = "processor" => f.processor = "ok"
                              /\ check = "status" => ~f.failed)
      /\ (outcome = "native" => check = "status" /\ f.failed)
      /\ (check = "panic" /\ f.panic => outcome = "panic")
      /\ (outcome # "none" => MayEnd(f, check) \/ f.output = "none")
  BY DEF ended_by, MayEnd
<1>. HIDE DEF outcome
<1>4. g \in Frame
  BY <1>1, <1>2, <1>3, CheckFrames, BoundsAssumption DEF Outcomes
<1>5. /\ g.todo = Tail(f.todo) /\ g.outcome = outcome /\ g.at = at /\ g.op = f.op
      /\ g.id = f.id /\ g.failed = f.failed /\ g.panic = f.panic /\ g.error = f.error
      /\ g.processor = f.processor /\ g.stopped = f.stopped /\ g.answers = f.answers
      /\ g.output = f.output /\ g.guarded = f.guarded
      /\ g.diagnostic = f.diagnostic
  BY <1>2 DEF Frame
<1>6. f.todo[1] = check /\ 1 \in 1..Len(f.todo) /\ \A i \in 1..Len(f.todo) : ~(i < 1)
  BY <1>1, <1>2, TailFacts DEF Frame
<1>. HIDE DEF f, g
<1>7. CASE outcome = "none"
  <2>1. ChecksInv(g, last_error[t])
    BY <1>1, <1>2, <1>3, <1>4, <1>5, <1>7, ChecksTail
  <2>2. HeldInv(g)
    BY <1>1, <1>2, <1>4, <1>5, HeldTail
  <2>. QED  BY <1>1, <1>2, <1>4, <1>5, <1>7, <2>1, <2>2, LookingStep DEF f
<1>8. CASE outcome # "none"
  <2>1. f.panic => check = "panic"
    BY <1>2, <1>6 DEF ChecksInv
  <2>2. outcome = "native" => f.diagnostic = f.id
    BY <1>2, <1>3, <1>6 DEF ChecksInv
  <2>3. Verdict(g)
    BY <1>3, <1>5, <2>2 DEF Verdict
  <2>4. g.panic => g.outcome = "panic"
    BY <1>3, <1>5, <2>1
  <2>5. Held(g)
    BY <1>2, <1>3, <1>5, <1>6, <1>8 DEF Held, HeldInv
  <2>. QED  BY <1>1, <1>2, <1>4, <1>5, <1>8, <2>3, <2>4, <2>5, LookingStep DEF f
<1>. QED  BY <1>7, <1>8

LEMMA CopyStep ==
    ASSUME Inv, NEW t \in Threads, CopyDiagnostic(t) PROVE Inv'
<1>. DEFINE f == Top(t)
            diagnostic == IF f.failed THEN last_error[t] ELSE f.diagnostic
            copied == [f EXCEPT !.diagnostic = diagnostic]
            g == [copied EXCEPT !.todo = Tail(@), !.outcome = "none", !.at = "checks"]
<1>1. /\ In(t, "checks") /\ stack[t] # <<>> /\ f.at = "checks" /\ f.todo # <<>>
      /\ Head(f.todo) = "copy" /\ SetTop(t, g)
      /\ UNCHANGED <<last_error, calls, unwinding, panicked, report>>
  BY DEF CopyDiagnostic, Looking, In, Decide
<1>2. f \in Frame /\ ChecksInv(f, last_error[t]) /\ HeldInv(f) /\ last_error \in [Threads -> 0..MaxCalls]
  BY <1>1, TopOf DEF TopInv, Inv, TypeOK
<1>3. diagnostic \in 0..MaxCalls /\ (f.failed => diagnostic = last_error[t])
  BY <1>2 DEF Frame
<1>. HIDE DEF diagnostic
<1>4. copied \in Frame /\ copied.todo = f.todo
  BY <1>2, <1>3 DEF Frame
<1>. HIDE DEF f, copied
<1>5. g \in Frame
  <2>1. Tail(copied.todo) \in Seq(Checks)
    BY <1>1, <1>4, TailFacts DEF Frame
  <2>. QED  BY <1>4, <2>1 DEF Frame, Outcomes
<1>. USE DEF f, copied
<1>6. /\ g.todo = Tail(f.todo) /\ g.at = "checks" /\ g.op = f.op
      /\ g.id = f.id /\ g.failed = f.failed /\ g.panic = f.panic /\ g.error = f.error
      /\ g.processor = f.processor /\ g.stopped = f.stopped /\ g.answers = f.answers
      /\ g.output = f.output /\ g.guarded = f.guarded
      /\ g.diagnostic = diagnostic
  BY <1>2 DEF Frame
<1>. HIDE DEF f, copied, g
<1>7. ChecksInv(g, last_error[t])
  BY <1>1, <1>2, <1>3, <1>5, <1>6, ChecksTail
<1>8. HeldInv(g)
  BY <1>1, <1>2, <1>5, <1>6, HeldTail
<1>. QED  BY <1>1, <1>2, <1>5, <1>6, <1>7, <1>8, LookingStep DEF f

LEMMA FreeStep ==
    ASSUME Inv, NEW t \in Threads, FreeOutput(t) PROVE Inv'
<1>. DEFINE f == Top(t)
            output == IF f.output = "owned" THEN "freed" ELSE f.output
            freed == [f EXCEPT !.output = output]
            g == [freed EXCEPT !.todo = Tail(@), !.outcome = "none", !.at = "checks"]
<1>1. /\ In(t, "checks") /\ stack[t] # <<>> /\ f.at = "checks" /\ f.todo # <<>>
      /\ Head(f.todo) = "free" /\ SetTop(t, g)
      /\ UNCHANGED <<calls, unwinding, panicked, report>>
      /\ \/ last_error' = [last_error EXCEPT ![t] = 0]
         \/ UNCHANGED last_error
  BY DEF FreeOutput, Looking, In, Decide, free, NativeDiagnostic
<1>2. f \in Frame /\ ChecksInv(f, last_error[t]) /\ last_error \in [Threads -> 0..MaxCalls]
  BY <1>1, TopOf DEF TopInv, Inv, TypeOK
<1>3. output \in {"none", "owned", "freed", "moved"} /\ output # "owned"
  BY <1>2 DEF Frame
<1>. HIDE DEF output
<1>4. freed \in Frame /\ freed.todo = f.todo
  BY <1>2, <1>3 DEF Frame
<1>. HIDE DEF f, freed
<1>5. g \in Frame
  <2>1. Tail(freed.todo) \in Seq(Checks)
    BY <1>1, <1>4, TailFacts DEF Frame
  <2>. QED  BY <1>4, <2>1 DEF Frame, Outcomes
<1>. USE DEF f, freed
<1>6. /\ g.todo = Tail(f.todo) /\ g.at = "checks" /\ g.op = f.op
      /\ g.id = f.id /\ g.failed = f.failed /\ g.panic = f.panic /\ g.error = f.error
      /\ g.processor = f.processor /\ g.stopped = f.stopped /\ g.answers = f.answers
      /\ g.diagnostic = f.diagnostic /\ g.output = output
  BY <1>2 DEF Frame
<1>7. /\ last_error' \in [Threads -> 0..MaxCalls]
      /\ \A u \in Threads \ {t} : last_error'[u] = last_error[u]
  BY <1>1, <1>2, BoundsAssumption
<1>. HIDE DEF f, freed, g
<1>8. ChecksInv(g, last_error'[t])
  BY <1>1, <1>2, <1>5, <1>6, ChecksTail
<1>9. HeldInv(g)
  BY <1>3, <1>6 DEF HeldInv
<1>. QED  BY <1>1, <1>2, <1>5, <1>6, <1>7, <1>8, <1>9, LookingStep DEF f

LEMMA ArmGuardStep ==
    ASSUME Inv, NEW t \in Threads, ArmGuard(t) PROVE Inv'
<1>. DEFINE f == Top(t)
            armed == [f EXCEPT !.guarded = TRUE]
            g == [armed EXCEPT !.todo = Tail(@), !.outcome = "none", !.at = "checks"]
<1>1. /\ In(t, "checks") /\ stack[t] # <<>> /\ f.at = "checks" /\ f.todo # <<>>
      /\ Head(f.todo) = "guard" /\ SetTop(t, g)
      /\ UNCHANGED <<last_error, calls, unwinding, panicked, report>>
  BY DEF ArmGuard, Looking, In, Decide
<1>2. f \in Frame /\ ChecksInv(f, last_error[t]) /\ last_error \in [Threads -> 0..MaxCalls]
  BY <1>1, TopOf DEF TopInv, Inv, TypeOK
<1>3. armed \in Frame /\ armed.todo = f.todo
  BY <1>2 DEF Frame
<1>. HIDE DEF f, armed
<1>4. g \in Frame
  <2>1. Tail(armed.todo) \in Seq(Checks)
    BY <1>1, <1>3, TailFacts DEF Frame
  <2>. QED  BY <1>3, <2>1 DEF Frame, Outcomes
<1>. USE DEF f, armed
<1>5. /\ g.todo = Tail(f.todo) /\ g.at = "checks" /\ g.op = f.op
      /\ g.id = f.id /\ g.failed = f.failed /\ g.panic = f.panic /\ g.error = f.error
      /\ g.processor = f.processor /\ g.stopped = f.stopped /\ g.answers = f.answers
      /\ g.diagnostic = f.diagnostic /\ g.guarded
  BY <1>2 DEF Frame
<1>. HIDE DEF f, armed, g
<1>6. ChecksInv(g, last_error[t]) /\ HeldInv(g)
  BY <1>1, <1>2, <1>4, <1>5, ChecksTail DEF HeldInv
<1>. QED  BY <1>1, <1>2, <1>4, <1>5, <1>6, LookingStep DEF f

\* The conversion is the last check, so everything that went wrong has been found.
LEMMA ConvertStep ==
    ASSUME Inv, NEW t \in Threads, NEW valid \in BOOLEAN, Convert(t, valid) PROVE Inv'
<1>. DEFINE f == Top(t)
            outcome == IF valid THEN "success" ELSE "invalid_output"
            g == [f EXCEPT !.todo = Tail(@), !.outcome = outcome, !.at = "leave"]
<1>1. /\ In(t, "checks") /\ stack[t] # <<>> /\ f.at = "checks" /\ f.todo # <<>>
      /\ Head(f.todo) = "convert"
      /\ UNCHANGED <<last_error, calls, unwinding, panicked, report>>
  BY DEF Convert, Looking, In
<1>2. outcome \in {"success", "invalid_output"}
  OBVIOUS
<1>3. SetTop(t, g)
  BY <1>2 DEF Convert, Decide
<1>4. /\ f \in Frame /\ ChecksInv(f, last_error[t]) /\ HeldInv(f) /\ FrameInv(f)
      /\ last_error \in [Threads -> 0..MaxCalls]
  BY <1>1, TopOf DEF TopInv, Inv, TypeOK
<1>. HIDE DEF outcome
<1>5. g \in Frame
  BY <1>1, <1>2, <1>4, CheckFrames, BoundsAssumption DEF Outcomes
<1>6. /\ g.outcome = outcome /\ g.at = "leave" /\ g.op = f.op
      /\ g.failed = f.failed /\ g.panic = f.panic /\ g.error = f.error
      /\ g.processor = f.processor /\ g.stopped = f.stopped /\ g.answers = f.answers
      /\ g.output = f.output /\ g.guarded = f.guarded
  BY <1>4 DEF Frame
<1>7. f.todo[1] = "convert" /\ 1 \in 1..Len(f.todo)
  BY <1>1, <1>4, TailFacts DEF Frame
<1>8. \A i \in 1..Len(f.todo) : i = 1
  BY <1>4, <1>7 DEF ChecksInv
<1>9. f.stopped = (<<FALSE, "Stop">> \in f.answers)
  BY <1>4 DEF FrameInv, Frame
<1>. HIDE DEF f, g
<1>10. ~f.panic /\ ~f.error /\ f.processor # "failed" /\ ~f.failed
  BY <1>4, <1>7, <1>8 DEF ChecksInv
<1>11. Verdict(g) /\ ~g.panic
  BY <1>2, <1>6, <1>9, <1>10 DEF Verdict, Clean
<1>12. Held(g)
  <2>1. \A j \in 1..Len(f.todo) : ~(j < 1)
    OBVIOUS
  <2>. QED  BY <1>4, <1>6, <1>7, <2>1 DEF Held, HeldInv, MayEnd
<1>. QED  BY <1>1, <1>3, <1>4, <1>5, <1>6, <1>11, <1>12, LookingStep DEF f

LEMMA SucceedStep ==
    ASSUME Inv, NEW t \in Threads, Succeed(t) PROVE Inv'
<1>. DEFINE f == Top(t)
            output == IF f.op \in Loads /\ f.output = "owned" THEN "moved" ELSE f.output
            g == [f EXCEPT !.outcome = "success", !.at = "leave", !.output = output]
<1>1. /\ In(t, "checks") /\ stack[t] # <<>> /\ f.at = "checks" /\ f.todo = <<>>
      /\ UNCHANGED <<last_error, calls, unwinding, panicked, report>>
      /\ SetTop(t, g)
  BY DEF Succeed, In
<1>2. /\ f \in Frame /\ ChecksInv(f, last_error[t]) /\ HeldInv(f) /\ FrameInv(f)
      /\ last_error \in [Threads -> 0..MaxCalls]
  BY <1>1, TopOf DEF TopInv, Inv, TypeOK
<1>3. /\ output \in {"none", "owned", "freed", "moved"}
      /\ output = "owned" => f.output = "owned" /\ f.op \notin Loads
  BY <1>2 DEF Frame
<1>. HIDE DEF output
<1>4. g \in Frame
  BY <1>2, <1>3 DEF Frame, Outcomes
<1>5. /\ g.outcome = "success" /\ g.at = "leave" /\ g.op = f.op
      /\ g.failed = f.failed /\ g.panic = f.panic /\ g.error = f.error
      /\ g.processor = f.processor /\ g.stopped = f.stopped /\ g.answers = f.answers
      /\ g.output = output /\ g.guarded = f.guarded
  BY <1>2 DEF Frame
<1>6. \A i \in 1..Len(f.todo) : FALSE
  BY <1>1
<1>7. f.stopped = (<<FALSE, "Stop">> \in f.answers)
  BY <1>2 DEF FrameInv, Frame
<1>. HIDE DEF f, g
<1>8. ~f.panic /\ ~f.error /\ f.processor # "failed" /\ ~f.failed
  BY <1>1, <1>2, <1>6 DEF ChecksInv
<1>9. Verdict(g) /\ ~g.panic
  BY <1>5, <1>7, <1>8 DEF Verdict, Clean
<1>10. Held(g)
  BY <1>2, <1>3, <1>5, <1>6 DEF Held, HeldInv
<1>. QED  BY <1>1, <1>2, <1>4, <1>5, <1>9, <1>10, LookingStep DEF f

\* The innermost call returns: what it found is reported, or unwinds the callback around.
LEMMA ReturnStep ==
    ASSUME Inv, NEW t \in Threads, Return(t) PROVE Inv'
<1>. DEFINE s == stack[t]
            f == Top(t)
            r == Front(s)
            output == IF f.guarded /\ f.output = "owned" THEN "freed" ELSE f.output
            g == [f EXCEPT !.output = output]
            unwinds == f.outcome = "panic" /\ Len(s) > 1
<1>1. /\ s # <<>> /\ f.at = "leave"
      /\ stack' = [stack EXCEPT ![t] = r] /\ report' = [report EXCEPT ![t] = g]
      /\ unwinding' = [unwinding EXCEPT ![t] = unwinds]
      /\ UNCHANGED <<calls, panicked>>
      /\ \/ last_error' = [last_error EXCEPT ![t] = 0]
         \/ UNCHANGED last_error
  <2>1. f \in Frame /\ s # <<>> /\ f.at = "leave"
    BY TopOf DEF Return, In
  <2>2. drop_guard(f) = g
    BY <2>1 DEF drop_guard, free, Frame
  <2>. QED  BY <2>1, <2>2 DEF Return, NativeDiagnostic
<1>2. /\ s \in Seq(Frame) /\ f \in Frame /\ ~unwinding[t] /\ Verdict(f) /\ Held(f)
      /\ panicked[t] => f.outcome = "panic"
      /\ TInv(s, last_error[t], unwinding[t], panicked[t], report[t])
  BY <1>1, TopOf DEF TopInv, Pending
<1>3. /\ stack \in [Threads -> Seq(Frame)] /\ unwinding \in [Threads -> BOOLEAN]
      /\ last_error \in [Threads -> 0..MaxCalls] /\ report \in [Threads -> Frame]
      /\ panicked \in [Threads -> BOOLEAN]
  BY DEF Inv, TypeOK
<1>4. /\ r \in Seq(Frame) /\ Len(r) = Len(s) - 1 /\ \A i \in 1..(Len(s) - 1) : r[i] = s[i]
      /\ Len(s) \in Nat \ {0}
  BY <1>1, <1>2, FrontFacts
<1>5. output \in {"none", "freed", "moved"} /\ unwinds \in BOOLEAN
  BY <1>2 DEF Frame, Held
<1>. HIDE DEF output
<1>6. g \in Frame
  BY <1>2, <1>5 DEF Frame
<1>7. /\ g.outcome = f.outcome /\ g.output # "owned" /\ g.failed = f.failed
      /\ g.panic = f.panic /\ g.error = f.error /\ g.processor = f.processor
      /\ g.stopped = f.stopped /\ g.answers = f.answers
      /\ g.diagnostic = f.diagnostic /\ g.id = f.id
  BY <1>2, <1>5 DEF Frame
<1>8. /\ last_error' \in [Threads -> 0..MaxCalls]
      /\ \A u \in Threads \ {t} : last_error'[u] = last_error[u]
  BY <1>1, <1>3, BoundsAssumption
<1>u. unwinds <=> f.outcome = "panic" /\ Len(s) > 1
  OBVIOUS
<1>. HIDE DEF f, r, g, unwinds
<1>9. Verdict(g)
  BY <1>2, <1>7 DEF Verdict, Clean
<1>10. \A i \in 1..Len(r) : i \in 1..Len(s) /\ i < Len(s) /\ r[i] = s[i]
  BY <1>4
<1>11. \A i \in 1..Len(r) : FrameInv(r[i]) /\ r[i].at = "callback"
  BY <1>2, <1>10 DEF TInv
<1>12. TInv(r, last_error'[t], unwinds, panicked[t], g)
  <2>1. CASE Len(s) > 1
    <3>1. r # <<>> /\ Len(r) \in 1..Len(r) /\ Last(r) = r[Len(r)]
      BY <1>4, <2>1 DEF Last
    <3>2. Last(r).at = "callback"
      BY <1>11, <3>1
    <3>3. panicked[t] => unwinds
      BY <1>2, <1>u, <2>1
    <3>. QED  BY <1>7, <1>9, <1>11, <3>1, <3>2, <3>3 DEF TInv, TopInv
  <2>2. CASE ~(Len(s) > 1)
    <3>1. r = <<>> /\ ~unwinds
      BY <1>4, <1>u, <2>2
    <3>. QED  BY <1>2, <1>7, <1>9, <1>11, <3>1 DEF TInv
  <2>. QED  BY <2>1, <2>2
<1>15. TInv(stack'[t], last_error'[t], unwinding'[t], panicked'[t], report'[t])
  BY <1>1, <1>3, <1>12
<1>16. TypeOK'
  BY <1>1, <1>3, <1>4, <1>5, <1>6, <1>8 DEF Inv, TypeOK
<1>. QED  BY <1>1, <1>3, <1>8, <1>15, <1>16, Lift

LEMMA NextStep == Inv /\ [Next]_vars => Inv'
<1>. SUFFICES ASSUME Inv, [Next]_vars PROVE Inv'
  OBVIOUS
<1>1. CASE UNCHANGED vars
  BY <1>1 DEF vars, Inv, TypeOK
<1>2. ASSUME NEW t \in Threads, Rust(t) PROVE Inv'
  BY <1>2, CatchUnwindStep, CopyStep, FreeStep, ArmGuardStep, SucceedStep, ReturnStep, LookStep,
     ConvertStep
     DEF Rust
<1>3. ASSUME NEW t \in Threads, Application(t) PROVE Inv'
  BY <1>3, EnterStep, RejectStep, CallbackReturnsStep, CallbackPanicsStep DEF Application
<1>4. ASSUME NEW t \in Threads, Native(t) PROVE Inv'
  BY <1>4, DeliverStep, NativeReturnsStep, ProcessorStep DEF Native
<1>. QED  BY <1>1, <1>2, <1>3, <1>4 DEF Next, Finished

THEOREM Safety == Spec => []Inv
BY InitStep, NextStep, PTL DEF Spec

-----------------------------------------------------------------------------
(* The results                                                                *)

\* Every thread is in a stack of well-formed calls (engine.rs, callback.rs).
THEOREM TypeCorrect == Spec => []TypeOK
<1>1. Inv => TypeOK
  BY DEF Inv
<1>. QED  BY <1>1, Safety, PTL

\* A panic of a callback, however deep in calls within callbacks, is what the outermost
\* call ends with: the panic is the first thing every call looks at, and a call that
\* ends with a panic unwinds the callback around it (engine.rs, resume_unwind).
THEOREM PanicResumes == Spec => []PanicReachesCaller
<1>1. Inv => PanicReachesCaller
  BY DEF Inv, TInv, PanicReachesCaller
<1>. QED  BY <1>1, Safety, PTL

\* A call that has returned owns no native storage, whatever path it took out: every check
\* that can end it comes after its guard is armed (engine.rs, NativeResultGuard and
\* NativeStringGuard), or after the handle of a failed video load is freed, or when there
\* is nothing to own.
THEOREM ResultsFreed == Spec => []NothingLeaks
<1>1. Inv => NothingLeaks
  BY DEF Inv, TInv, NothingLeaks
<1>. QED  BY <1>1, Safety, PTL

\* A call that succeeds had nothing go wrong, and reports a stop exactly if its callback
\* declined unfinished text (engine.rs and callback.rs): every check that is needed is
\* made before the call can succeed.
THEOREM SuccessMeans == Spec => []SuccessIsClean
<1>1. Inv => SuccessIsClean
  BY DEF Inv, TInv, Verdict, Clean, SuccessIsClean
<1>. QED  BY <1>1, Safety, PTL

\* A native error carries its own call's diagnostic (error.rs): it is copied before any
\* native call that would replace it.
THEOREM OwnDiagnostic == Spec => []DiagnosticIsOwn
<1>1. Inv => DiagnosticIsOwn
  BY DEF Inv, TInv, Verdict, DiagnosticIsOwn
<1>. QED  BY <1>1, Safety, PTL
=============================================================================
