---------------------------- MODULE ChatSession ----------------------------
(***************************************************************************)
(* The interactive chat program (vllm-cpp/examples/chat.rs): one thread that *)
(* reads messages, asks the engine for an answer, streamed or whole, prints  *)
(* it and remembers the conversation, with turns that may fail at any point. *)
(*                                                                          *)
(* Texts are made of pieces: a user's message is one, an answer any number.  *)
(* External: the user, the terminal, and what the engine sends.              *)
(***************************************************************************)
EXTENDS Naturals, Sequences

CONSTANTS
    Texts,      \* what the user can say
    Pieces,     \* what a choice of a response or chunk can say
    Chunks,     \* chunks of a stream: the contents of their choices
    Replies,    \* whole responses, likewise
    None,       \* no text: an option not given, a null or missing content
    Bad,        \* a choice that is not well-formed, or instead of all choices
    MaxInputs,  \* bound: messages and commands
    MaxEvents   \* bound: events of one stream

Content == Pieces \cup {None, Bad}

ASSUME NamesAssumption ==
    /\ None # Bad
    /\ {None, Bad} \cap (Texts \cup Pieces) = {}
ASSUME EngineAssumption ==
    /\ Chunks \subseteq Seq(Content)
    /\ Replies \subseteq Seq(Content)
ASSUME BoundsAssumption == MaxInputs \in Nat /\ MaxEvents \in Nat

Role == {"system", "user", "assistant"}
Text == Seq(Texts \cup Pieces)
Message == [role: Role, content: Text]

VARIABLES
    args,        \* the command line: system message, initial prompt, streaming
    pc,          \* what the program does
    history,     \* the messages of the conversation
    checkpoint,  \* the length of the history before this turn
    request,     \* the messages of the request the engine works on
    assistant,   \* the answer as far as it has been streamed
    failure,     \* the error of the stream callback: "none", "turn" or "fatal"
    transcript,  \* what the user said and saw, in this order
    status,      \* "running", or how the program ended
    faults,      \* what has failed outside the model: "launch", "stdin", "stdout"
    inputs,
    events

turnVars == <<checkpoint, request, assistant, failure>>
boundVars == <<inputs, events>>
vars == <<args, pc, history, turnVars, transcript, status, faults, boundVars>>

Said(text) == [kind |-> "user", content |-> <<text>>, whole |-> TRUE]
\* The part of an answer that is on the screen, and whether the engine has finished it.
Answer(content, whole) == [kind |-> "assistant", content |-> content, whole |-> whole]
Notice(kind) == [kind |-> kind, content |-> <<>>, whole |-> TRUE]
Entry == [kind: {"user", "assistant", "error", "cleared"}, content: Text, whole: BOOLEAN]

TypeOK ==
    /\ args \in [system: Texts \cup {None}, prompt: Texts \cup {None}, stream: BOOLEAN]
    /\ pc \in {"start", "prompt", "turn", "streaming", "blocking", "exited"}
    /\ history \in Seq(Message)
    /\ checkpoint \in Nat
    /\ request \in Seq(Message)
    /\ assistant \in Text
    /\ failure \in {"none", "turn", "fatal"}
    /\ transcript \in Seq(Entry)
    /\ status \in {"running", "success", "failure"}
    /\ faults \subseteq {"launch", "stdin", "stdout"}
    /\ inputs \in 0..MaxInputs
    /\ events \in 0..MaxEvents

message(role, content) == [role |-> role, content |-> content]

\* The elements of s that are in S, in their order: SelectSeq, written out because its
\* definition is not open to proofs.
Filter(s, S) ==
    LET kept[n \in 0..Len(s)] ==
            IF n = 0 THEN <<>>
            ELSE IF s[n] \in S THEN Append(kept[n - 1], s[n]) ELSE kept[n - 1]
    IN  kept[Len(s)]

\* The conversation begins with the system message, if there is one.
initial_history(a) ==
    IF a.system = None THEN <<>> ELSE <<message("system", <<a.system>>)>>

Init ==
    /\ args \in [system: Texts \cup {None}, prompt: Texts \cup {None}, stream: BOOLEAN]
    /\ pc = "start"
    /\ history = <<>> /\ transcript = <<>>
    /\ checkpoint = 0 /\ request = <<>> /\ assistant = <<>> /\ failure = "none"
    /\ status = "running" /\ faults = {}
    /\ inputs = 0 /\ events = 0

-----------------------------------------------------------------------------
(* Reading what the engine sends                                             *)

\* A choice adds its text; a null or missing content adds nothing.
text_of(choice) == IF choice = None THEN <<>> ELSE <<choice>>

\* The choices of a chunk, joined; one bad choice spoils the chunk.
is_valid_chunk(chunk) == \A i \in DOMAIN chunk : chunk[i] # Bad
extract_stream_content(chunk) == Filter(chunk, Pieces)

\* Only the first choice of a whole response counts, and there must be one.
is_valid_reply(reply) == reply # <<>> /\ reply[1] # Bad
extract_blocking_content(reply) == text_of(reply[1])

-----------------------------------------------------------------------------
(* Ending a program, starting and ending a turn                              *)

Exit(outcome) == pc' = "exited" /\ status' = outcome

\* Something outside has failed: the error is fatal.
Fatal(fault) == faults' = faults \cup {fault} /\ Exit("failure")

\* run_history_turn notes where the turn begins and pushes the user's message.
StartTurn(text, messages) ==
    /\ checkpoint' = Len(messages)
    /\ history' = Append(messages, message("user", <<text>>))
    /\ pc' = "turn"

\* Fault: the failed turn's question stays in the history.
keep_question(messages) == messages
rollback_turn(messages) == SubSeq(messages, 1, checkpoint)

\* Fault: any error of a turn is only reported.
report_all(result) == result # "ok"
is_reported(result) == result = "turn"

\* The answer is remembered, or all of the turn is forgotten; an error of the turn is
\* reported and the program goes on, a fatal one ends it.
EndTurn(result, content, shown) ==
    /\ history' = IF result = "ok"
                  THEN Append(history, message("assistant", content))
                  ELSE rollback_turn(history)
    /\ transcript' = IF is_reported(result) THEN Append(shown, Notice("error")) ELSE shown
    /\ IF result = "ok" \/ is_reported(result)
       THEN pc' = "prompt" /\ UNCHANGED status
       ELSE Exit("failure")
    /\ request' = <<>> /\ assistant' = <<>> /\ failure' = "none"
    /\ UNCHANGED <<args, checkpoint, boundVars>>

\* A write to the terminal succeeds or fails.
Written(written) ==
    faults' = IF written THEN faults ELSE faults \cup {"stdout"}

-----------------------------------------------------------------------------
(* Starting                                                                  *)

\* The initial prompt may have to be read from a file.
PromptFileFails ==
    /\ pc = "start" /\ args.prompt # None
    /\ Fatal("launch")
    /\ UNCHANGED <<args, history, turnVars, transcript, boundVars>>

\* The model source cannot be resolved, or the engine does not load.
LoadFails ==
    /\ pc = "start"
    /\ Fatal("launch")
    /\ UNCHANGED <<args, history, turnVars, transcript, boundVars>>

\* The banner is printed; an initial prompt is a message, whatever it says.
Launch(written) ==
    /\ pc = "start"
    /\ UNCHANGED <<args, request, assistant, failure, boundVars>>
    /\ IF ~written
       THEN Fatal("stdout") /\ UNCHANGED <<history, checkpoint, transcript>>
       ELSE /\ UNCHANGED <<status, faults>>
            /\ IF args.prompt = None
               THEN /\ pc' = "prompt" /\ history' = initial_history(args)
                    /\ UNCHANGED <<checkpoint, transcript>>
               ELSE /\ StartTurn(args.prompt, initial_history(args))
                    /\ transcript' = <<Said(args.prompt)>>

-----------------------------------------------------------------------------
(* The loop                                                                  *)

\* The prompt cannot be written.
PromptFails ==
    /\ pc = "prompt"
    /\ Fatal("stdout")
    /\ UNCHANGED <<args, history, turnVars, transcript, boundVars>>

ReadFails ==
    /\ pc = "prompt"
    /\ Fatal("stdin")
    /\ UNCHANGED <<args, history, turnVars, transcript, boundVars>>

\* The end of the input closes the line; /quit and /exit just leave.
Leave(written) ==
    /\ pc = "prompt"
    /\ IF written THEN Exit("success") /\ UNCHANGED faults ELSE Fatal("stdout")
    /\ UNCHANGED <<args, history, turnVars, transcript, boundVars>>

SystemMessage == [role: {"system"}, content: Text]
retained(messages) == Filter(messages, SystemMessage)

\* /clear, and its confirmation.
Clear(written) ==
    /\ pc = "prompt" /\ inputs < MaxInputs
    /\ inputs' = inputs + 1
    /\ history' = retained(history)
    /\ transcript' = Append(transcript, Notice("cleared"))
    /\ Written(written)
    /\ IF written THEN UNCHANGED <<pc, status>> ELSE Exit("failure")
    /\ UNCHANGED <<args, turnVars, events>>

\* Anything else but a blank line is a message.
Read(text) ==
    /\ pc = "prompt" /\ inputs < MaxInputs
    /\ inputs' = inputs + 1
    /\ StartTurn(text, history)
    /\ transcript' = Append(transcript, Said(text))
    /\ UNCHANGED <<args, request, assistant, failure, status, faults, events>>

-----------------------------------------------------------------------------
(* A turn                                                                    *)

\* The request cannot be serialized.
BuildFails ==
    /\ pc = "turn"
    /\ EndTurn("turn", <<>>, transcript)
    /\ UNCHANGED faults

build_request(messages) == messages

\* A request carries the history; a streamed answer begins with its prefix.
Ask(written) ==
    /\ pc = "turn"
    /\ IF args.stream /\ ~written
       THEN EndTurn("fatal", <<>>, transcript)
       ELSE /\ request' = build_request(history)
            /\ pc' = IF args.stream THEN "streaming" ELSE "blocking"
            /\ transcript' = IF args.stream
                             THEN Append(transcript, Answer(<<>>, FALSE)) ELSE transcript
            /\ UNCHANGED <<args, history, checkpoint, assistant, failure, status, inputs>>
            /\ events' = 0
    /\ Written(args.stream => written)

Shown(content, whole) == [transcript EXCEPT ![Len(transcript)] = Answer(content, whole)]

\* A chunk is added to the answer and printed.  After a first error the callback only
\* declines, and it passes over the event that says finished: neither is a step here.
StreamEvent(chunk, written) ==
    /\ pc = "streaming" /\ failure = "none" /\ events < MaxEvents
    /\ events' = events + 1
    /\ IF is_valid_chunk(chunk)
       THEN LET content == assistant \o extract_stream_content(chunk)
            IN  /\ assistant' = content
                /\ transcript' = IF written THEN Shown(content, FALSE) ELSE transcript
                /\ failure' = IF written THEN "none" ELSE "fatal"
                /\ Written(written)
       ELSE failure' = "turn" /\ UNCHANGED <<assistant, transcript, faults>>
    /\ UNCHANGED <<args, pc, history, checkpoint, request, status, inputs>>

\* Fault: a native failure after the first chunks is taken for the end.
accept_truncated(ok, stopped) == IF failure # "none" THEN failure ELSE "ok"

\* The callback's own error comes first, then the engine's, then an unexplained stop.
stream_result(ok, stopped) ==
    IF failure # "none" THEN failure
    ELSE IF ~ok \/ stopped THEN "turn"
    ELSE "ok"

\* The answer's line is ended in any case; if that fails, this is the error that counts.
StreamEnd(ok, stopped, written) ==
    /\ pc = "streaming"
    /\ EndTurn(IF written THEN stream_result(ok, stopped) ELSE "fatal", assistant,
               Shown(transcript[Len(transcript)].content, ok /\ ~stopped /\ failure = "none"))
    /\ Written(written)

BlockingFails ==
    /\ pc = "blocking"
    /\ EndTurn("turn", <<>>, transcript)
    /\ UNCHANGED faults

\* A whole answer is printed only if it is well-formed.
BlockingReply(reply, written) ==
    /\ pc = "blocking"
    /\ IF ~is_valid_reply(reply)
       THEN EndTurn("turn", <<>>, transcript) /\ UNCHANGED faults
       ELSE LET content == extract_blocking_content(reply)
            IN  /\ EndTurn(IF written THEN "ok" ELSE "fatal", content,
                           IF written THEN Append(transcript, Answer(content, TRUE))
                           ELSE transcript)
                /\ Written(written)

Exited == pc = "exited" /\ UNCHANGED vars

Turn ==
    \/ BuildFails \/ BlockingFails
    \/ \E written \in BOOLEAN :
          \/ Ask(written)
          \/ \E chunk \in Chunks : StreamEvent(chunk, written)
          \/ \E ok, stopped \in BOOLEAN : StreamEnd(ok, stopped, written)
          \/ \E reply \in Replies : BlockingReply(reply, written)

Next ==
    \/ PromptFileFails \/ LoadFails \/ PromptFails \/ ReadFails
    \/ \E written \in BOOLEAN : Launch(written) \/ Leave(written) \/ Clear(written)
    \/ \E text \in Texts : Read(text)
    \/ Turn
    \/ Exited

Spec == Init /\ [][Next]_vars

-----------------------------------------------------------------------------
(* Properties                                                                *)

InTurn == pc \in {"turn", "streaming", "blocking"}

\* After the system message, users and assistants take turns, the user first, and it
\* is the user's turn except while an answer is awaited: whatever failed, was cleared
\* or was only half streamed before, the engine never gets a conversation with two
\* messages of one side in a row.
HistoryAlternates ==
    LET first == IF history # <<>> /\ history[1].role = "system" THEN 2 ELSE 1
    IN  /\ \A i \in first..Len(history) :
              history[i].role = IF (i - first) % 2 = 0 THEN "user" ELSE "assistant"
        /\ pc # "exited" => (InTurn <=> (Len(history) - first) % 2 = 0)

\* The conversation as the screen tells it: since the last /clear, every question whose
\* answer was finished, and that answer.
Told(t) ==
    LET told[n \in 0..Len(t)] ==
            IF n = 0 \/ t[n].kind = "cleared" THEN <<>>
            ELSE IF t[n].kind = "assistant" /\ t[n].whole
                 THEN told[n - 1] \o <<message("user", t[n - 1].content),
                                      message("assistant", t[n].content)>>
            ELSE told[n - 1]
    IN  told[Len(t)]

\* What the engine is told is what the user saw: the history holds the system message
\* and exactly the exchanges whose answers were finished, as they were shown, text for
\* text, and a request adds the message it is to answer.  An answer that broke off, in
\* the engine, in a chunk or on the screen, is never taken for one.
HistoryIsTranscript ==
    LET said == initial_history(args) \o Told(transcript)
        asked == IF pc = "streaming" THEN Len(transcript) - 1 ELSE Len(transcript)
    IN  /\ pc = "prompt" => history = said
        /\ pc \in {"streaming", "blocking"} =>
               request = Append(said, message("user", transcript[asked].content))

\* The program ends with a failure when, and only when, its surroundings failed: a
\* failed turn never ends it, and after a failed write the engine is asked nothing more
\* and the exit status tells, even if the stream had already failed for another reason.
FaultsEndTheProgram ==
    /\ faults # {} => \/ pc = "exited" /\ status = "failure"
                      \/ pc = "streaming" /\ failure = "fatal"
    /\ status = "failure" => faults # {}
=============================================================================
