---------------------------- MODULE NativeResult ----------------------------
(***************************************************************************)
(* What crosses the C boundary by value in one blocking call: the sizes the *)
(* caller has (usize) become signed native counts, and the counts, pointers *)
(* and strings of a successful native result become Rust values (engine.rs).*)
(*                                                                          *)
(* Native code answers anything its types allow.  The integers have their   *)
(* widths: a 32-bit target is I32Max = IsizeMax, a 64-bit one has a larger  *)
(* IsizeMax.  Native failures and cleanup are the subject of BlockingCall.   *)
(***************************************************************************)
EXTENDS Integers

CONSTANTS
    I32Max, I64Max, IsizeMax,  \* i32::MAX, i64::MAX, isize::MAX
    ElementSize, PointerSize,  \* bytes of an i32 or f32, and of a pointer
    Sizes,                     \* sizes the caller passes
    Counts,                    \* counts native code reports
    Addresses                  \* pointers native code returns; 0 is null

UsizeMax == 2 * IsizeMax + 1
I32 == (-I32Max - 1)..I32Max
Usize == 0..UsizeMax

ASSUME WidthsAssumption ==
    /\ {I32Max, I64Max, IsizeMax, ElementSize, PointerSize} \subseteq Nat \ {0}
    /\ I32Max <= IsizeMax /\ I32Max <= I64Max
ASSUME InputsAssumption ==
    Sizes \subseteq Usize /\ Counts \subseteq I32 /\ Addresses \subseteq Usize

VARIABLES
    at,     \* how far the call is
    call,   \* what the caller asks for
    sent,   \* the sizes native code is told
    raw,    \* the native result
    slice,  \* the slice made of native memory, if any
    result  \* what the caller gets

vars == <<at, call, sent, raw, slice, result>>

Kinds == {"complete", "complete_tokens", "transcribe_wav", "transcribe_pcm", "embed",
          "mux_argv", "generate"}
Sized == {"complete_tokens", "transcribe_pcm", "embed"}

\* n is the number of prompt tokens, samples or texts, cap the output capacity or the
\* sample rate; include asks for the completion besides its tokens.
Calls ==
    [kind: Kinds \ Sized, n: {0}, cap: {0}, include: {FALSE}]
        \cup [kind: {"embed"}, n: Sizes, cap: {0}, include: {FALSE}]
        \cup [kind: {"transcribe_pcm"}, n: Sizes, cap: Sizes, include: {FALSE}]
        \cup [kind: {"complete_tokens"}, n: Sizes, cap: Sizes, include: BOOLEAN]

Strings == {"null", "empty", "text", "not_utf8"}

\* The C structs.  least is the smallest of the five numbers of a video result, and
\* entries says whether the argv ends in null, or holds a null before its end.
RawCompletion ==
    [written: Counts, prompt_tokens: Counts, completion_tokens: Counts,
     text: Strings, finish_reason: Strings]
RawTranscription ==
    [has_text: Counts, text: Strings, n_token_ids: Counts, pointer: Addresses]
RawEmbedding ==
    [n_embeddings: Counts, dim: Counts, prompt_tokens: Counts, pointer: Addresses]
RawArgv ==
    [argc: Counts, pointer: Addresses, entries: {"terminated", "hole", "unterminated"}]
RawVideo ==
    [argc: Counts, pointer: Addresses, entries: {"terminated", "hole", "unterminated"},
     frame_dir: Strings, audio_path: Strings, least: Counts]
Raws(kind) ==
    CASE kind \in {"complete", "complete_tokens"} -> RawCompletion
      [] kind \in {"transcribe_wav", "transcribe_pcm"} -> RawTranscription
      [] kind = "embed" -> RawEmbedding
      [] kind = "mux_argv" -> RawArgv
      [] kind = "generate" -> RawVideo

Slice == [pointer: Usize, length: Usize, size: {ElementSize, PointerSize}]
NoSlice == [pointer |-> 0, length |-> 0, size |-> ElementSize]
Unread == <<>>

Sent == [n: Int, cap: Int]
Result == [outcome: {"pending", "rejected", "invalid", "ok"},
           values: Usize, dimension: Usize, truncated: BOOLEAN]
Pending == [outcome |-> "pending", values |-> 0, dimension |-> 0, truncated |-> FALSE]
Invalid == [Pending EXCEPT !.outcome = "invalid"]
Ok(values) == [Pending EXCEPT !.outcome = "ok", !.values = values]

-----------------------------------------------------------------------------
(* Sizes on their way to native code                                         *)

\* Fault: the size is cast to i32 without a check.
no_check(size) == TRUE
\* i32::try_from of a usize or u32.
fits_i32(size) == size <= I32Max

\* The bits of a size, read as a signed integer.
as_signed(size, max) == IF size <= max THEN size ELSE size - 2 * max - 2

validate_token_input(n, cap) == n # 0 /\ fits_i32(n) /\ fits_i32(cap)
validate_pcm_input(n, rate) == n # 0 /\ n <= I64Max /\ rate # 0 /\ fits_i32(rate)
validate_embedding_count(n) == n # 0 /\ fits_i32(n)

ValidSizes(c) ==
    CASE c.kind = "complete_tokens" -> validate_token_input(c.n, c.cap)
      [] c.kind = "transcribe_pcm" -> validate_pcm_input(c.n, c.cap)
      [] c.kind = "embed" -> validate_embedding_count(c.n)
      [] OTHER -> TRUE

-----------------------------------------------------------------------------
(* Native memory                                                             *)

\* Fault: a negative count is taken as it is.
unsigned(count) == TRUE
\* usize::try_from of an i32.
fits_usize(count) == count >= 0

Overflow == -1
\* Fault: the product wraps.
wrapping_product(left, right) == (left * right) % (UsizeMax + 1)
checked_product(left, right) ==
    IF left * right <= UsizeMax THEN left * right ELSE Overflow

\* Fault: the limit of bytes is taken for one of elements.
elements_as_bytes(pointer, length, size) ==
    IF length = 0 THEN pointer = 0
    ELSE pointer # 0 /\ pointer % size = 0 /\ length <= IsizeMax
         /\ pointer + length * size <= UsizeMax
\* Fault: a range may run over the end of the address space.
range_wraps(pointer, length, size) ==
    IF length = 0 THEN pointer = 0
    ELSE pointer # 0 /\ pointer % size = 0 /\ length <= IsizeMax \div size
validate_pointer_count(pointer, length, size) ==
    IF length = 0 THEN pointer = 0
    ELSE /\ pointer # 0
         /\ pointer % size = 0
         /\ length <= IsizeMax \div size
         /\ pointer + length * size <= UsizeMax

-----------------------------------------------------------------------------
(* Conversions: which results are converted, and the slice that is read      *)

owned_string(string) == string \in {"empty", "text"}

completion_from_raw(r) ==
    /\ owned_string(r.text)
    /\ r.finish_reason = "null" \/ owned_string(r.finish_reason)
    /\ fits_usize(r.prompt_tokens) /\ fits_usize(r.completion_tokens)

least_of(a, b) == IF a <= b THEN a ELSE b

\* Fault: the written count may be anything up to what was generated.
any_prefix(c, r) ==
    /\ fits_usize(r.written) /\ r.written <= c.cap
    /\ fits_usize(r.prompt_tokens) /\ r.prompt_tokens = c.n
    /\ fits_usize(r.completion_tokens) /\ r.written <= r.completion_tokens
\* Fault: a full buffer is taken for an overrun.
full_is_over(c, r) ==
    /\ fits_usize(r.written) /\ r.written < c.cap
    /\ fits_usize(r.prompt_tokens) /\ r.prompt_tokens = c.n
    /\ fits_usize(r.completion_tokens)
    /\ r.written = least_of(r.completion_tokens, c.cap)
token_counts(c, r) ==
    /\ fits_usize(r.written) /\ r.written <= c.cap
    /\ fits_usize(r.prompt_tokens) /\ r.prompt_tokens = c.n
    /\ fits_usize(r.completion_tokens)
    /\ r.written = least_of(r.completion_tokens, c.cap)
token_completion_from_raw(c, r) ==
    token_counts(c, r) /\ (c.include => completion_from_raw(r))

transcription_text(r) ==
    (r.has_text = 0 /\ r.text = "null") \/ (r.has_text = 1 /\ owned_string(r.text))
transcription_from_raw(r) ==
    /\ transcription_text(r)
    /\ fits_usize(r.n_token_ids)
    /\ validate_pointer_count(r.pointer, r.n_token_ids, ElementSize)

embedding_from_raw(c, r) ==
    /\ fits_usize(r.n_embeddings) /\ r.n_embeddings # 0 /\ r.n_embeddings = c.n
    /\ fits_usize(r.dim) /\ r.dim # 0
    /\ fits_usize(r.prompt_tokens)
    /\ checked_product(r.n_embeddings, r.dim) # Overflow
    /\ validate_pointer_count(r.pointer, checked_product(r.n_embeddings, r.dim), ElementSize)

\* The argv is read together with the null that ends it.
mux_argv_range(r) ==
    /\ fits_usize(r.argc) /\ r.argc # 0 /\ r.argc + 1 <= UsizeMax
    /\ validate_pointer_count(r.pointer, r.argc + 1, PointerSize)
video_mux_argv_from_raw(r) == mux_argv_range(r) /\ r.entries = "terminated"

positive_native_i32(count) == count > 0
owned_path(string) == string \notin {"null", "empty"}
video_fields(r) ==
    owned_path(r.frame_dir) /\ owned_path(r.audio_path) /\ positive_native_i32(r.least)

-----------------------------------------------------------------------------
(* A blocking call                                                           *)

Init ==
    /\ at = "new" /\ call \in Calls
    /\ sent = [n |-> 0, cap |-> 0] /\ raw = Unread
    /\ slice = NoSlice /\ result = Pending

\* The sizes native code is told of.
native_sizes(c) ==
    [n |-> as_signed(c.n, IF c.kind = "transcribe_pcm" THEN I64Max ELSE I32Max),
     cap |-> as_signed(c.cap, I32Max)]

Marshal ==
    /\ at = "new"
    /\ IF ValidSizes(call)
       THEN at' = "sent" /\ sent' = native_sizes(call) /\ UNCHANGED result
       ELSE at' = "over" /\ result' = [Pending EXCEPT !.outcome = "rejected"]
            /\ UNCHANGED sent
    /\ UNCHANGED <<call, raw, slice>>

\* Native code succeeds.
NativeAnswers ==
    /\ at = "sent"
    /\ raw' \in Raws(call.kind)
    /\ at' = "answered"
    /\ UNCHANGED <<call, sent, slice, result>>

Convert(kinds) == at = "answered" /\ call.kind \in kinds /\ at' = "over"
Reads(pointer, length, size) ==
    slice' = IF length = 0 THEN NoSlice
             ELSE [pointer |-> pointer, length |-> length, size |-> size]
ReadsNothing == UNCHANGED slice

ConvertCompletion ==
    /\ Convert({"complete"})
    /\ result' = IF completion_from_raw(raw) THEN Ok(0) ELSE Invalid
    /\ ReadsNothing
    /\ UNCHANGED <<call, sent, raw>>

ConvertTokens ==
    /\ Convert({"complete_tokens"})
    /\ result' = IF token_completion_from_raw(call, raw)
                 THEN [Ok(raw.written) EXCEPT !.truncated = raw.written < raw.completion_tokens]
                 ELSE Invalid
    /\ ReadsNothing
    /\ UNCHANGED <<call, sent, raw>>

ConvertTranscription ==
    /\ Convert({"transcribe_wav", "transcribe_pcm"})
    /\ IF transcription_from_raw(raw)
       THEN /\ Reads(raw.pointer, raw.n_token_ids, ElementSize)
            /\ result' = Ok(raw.n_token_ids)
       ELSE ReadsNothing /\ result' = Invalid
    /\ UNCHANGED <<call, sent, raw>>

ConvertEmbedding ==
    /\ Convert({"embed"})
    /\ IF embedding_from_raw(call, raw)
       THEN LET count == checked_product(raw.n_embeddings, raw.dim)
            IN  /\ Reads(raw.pointer, count, ElementSize)
                /\ result' = [Ok(count) EXCEPT !.dimension = raw.dim]
       ELSE ReadsNothing /\ result' = Invalid
    /\ UNCHANGED <<call, sent, raw>>

\* The argv is read before its end is looked at.
ConvertArgv ==
    /\ Convert({"mux_argv"})
    /\ IF mux_argv_range(raw) THEN Reads(raw.pointer, raw.argc + 1, PointerSize)
       ELSE ReadsNothing
    /\ result' = IF video_mux_argv_from_raw(raw) THEN Ok(raw.argc) ELSE Invalid
    /\ UNCHANGED <<call, sent, raw>>

ConvertVideo ==
    /\ Convert({"generate"})
    /\ IF video_fields(raw) /\ mux_argv_range(raw)
       THEN Reads(raw.pointer, raw.argc + 1, PointerSize)
       ELSE ReadsNothing
    /\ result' = IF video_fields(raw) /\ video_mux_argv_from_raw(raw)
                 THEN Ok(raw.argc) ELSE Invalid
    /\ UNCHANGED <<call, sent, raw>>

Finished == at = "over" /\ UNCHANGED vars

Next ==
    \/ Marshal \/ NativeAnswers
    \/ ConvertCompletion \/ ConvertTokens \/ ConvertTranscription
    \/ ConvertEmbedding \/ ConvertArgv \/ ConvertVideo
    \/ Finished

Spec == Init /\ [][Next]_vars

-----------------------------------------------------------------------------
(* Properties                                                                *)

\* The types; in particular a count in a Rust result is a usize, and never negative.
TypeOK ==
    /\ at \in {"new", "sent", "answered", "over"}
    /\ call \in Calls /\ sent \in Sent
    /\ raw \in {Unread} \cup Raws(call.kind)
    /\ slice \in Slice /\ result \in Result

\* Native code is told the sizes of the caller's buffers as they are: a prompt, a
\* batch or an output buffer is never described longer, shorter or negative.
SentAsGiven ==
    at \in {"sent", "answered"} => sent = [n |-> call.n, cap |-> call.cap]

\* Whatever counts and pointers native code returns, a slice is made of native memory
\* only as from_raw_parts permits: not null, aligned, of at most isize::MAX bytes, and
\* not beyond the end of the address space.
SlicesAreSound ==
    slice # NoSlice =>
        LET bytes == slice.length * slice.size
        IN  /\ slice.pointer # 0 /\ slice.pointer % slice.size = 0
            /\ bytes <= IsizeMax /\ slice.pointer + bytes <= UsizeMax + 1

\* A result fits the call it answers.  Token IDs are what was generated, cut at the
\* capacity, and truncated says if it was cut; an embedding has one row of dim values
\* for every text, by the arithmetic of the integers, so rows() yields the batch; an
\* argv is read with its terminator.
ResultFitsCall ==
    result.outcome = "ok" =>
        CASE call.kind = "complete_tokens" ->
                /\ raw.prompt_tokens = call.n
                /\ result.values = least_of(raw.completion_tokens, call.cap)
                /\ result.truncated = (raw.completion_tokens > call.cap)
          [] call.kind = "embed" ->
                /\ result.dimension > 0
                /\ result.values = call.n * result.dimension
                /\ slice.length = result.values
          [] call.kind \in {"mux_argv", "generate"} ->
                result.values > 0 /\ slice.length = result.values + 1
          [] OTHER -> slice.length = result.values

\* What native code can return when it keeps its own word.
HonestArray(pointer, length, size) ==
    IF length = 0 THEN pointer = 0
    ELSE /\ pointer # 0 /\ pointer % size = 0
         /\ length * size <= IsizeMax /\ pointer + length * size <= UsizeMax
HonestArgv(r) ==
    r.argc > 0 /\ HonestArray(r.pointer, r.argc + 1, PointerSize) /\ r.entries = "terminated"
Honest(r) ==
    CASE call.kind \in {"complete", "complete_tokens"} ->
            /\ r.text \in {"empty", "text"} /\ r.finish_reason \in {"null", "text"}
            /\ r.prompt_tokens >= 0 /\ r.completion_tokens >= 0
            /\ call.kind = "complete_tokens" =>
                  /\ r.prompt_tokens = sent.n
                  /\ r.written = least_of(r.completion_tokens, sent.cap)
      [] call.kind \in {"transcribe_wav", "transcribe_pcm"} ->
            /\ <<r.has_text, r.text>> \in {<<0, "null">>, <<1, "empty">>, <<1, "text">>}
            /\ r.n_token_ids >= 0 /\ HonestArray(r.pointer, r.n_token_ids, ElementSize)
      [] call.kind = "embed" ->
            /\ r.n_embeddings = sent.n /\ r.dim > 0 /\ r.prompt_tokens >= 0
            /\ HonestArray(r.pointer, r.n_embeddings * r.dim, ElementSize)
      [] call.kind = "mux_argv" -> HonestArgv(r)
      [] call.kind = "generate" ->
            HonestArgv(r) /\ {r.frame_dir, r.audio_path} = {"text"} /\ r.least > 0

\* Validation is not too strict: whatever the sizes, a result of native code that
\* keeps its word is converted.
HonestIsAccepted ==
    at = "over" /\ raw # Unread =>
        (Honest(raw) => result.outcome = "ok")
=============================================================================
