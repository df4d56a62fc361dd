------------------------- MODULE NativeResultProofs -------------------------
(***************************************************************************)
(* Proofs about NativeResult, for integers of every width and whatever      *)
(* native code answers.                                                     *)
(***************************************************************************)
EXTENDS NativeResult, TLAPS

-----------------------------------------------------------------------------
(* Facts about the widths                                                    *)

\* The constants are positive numbers, one by one.
LEMMA Widths ==
    /\ I32Max \in Nat /\ I64Max \in Nat /\ IsizeMax \in Nat
    /\ I32Max > 0 /\ I64Max > 0 /\ IsizeMax > 0
    /\ ElementSize \in Nat /\ ElementSize > 0
    /\ PointerSize \in Nat /\ PointerSize > 0
    /\ I32Max <= IsizeMax /\ I32Max <= I64Max
    /\ UsizeMax \in Nat
<1>1. /\ I32Max \in Nat \ {0} /\ I64Max \in Nat \ {0} /\ IsizeMax \in Nat \ {0}
      /\ ElementSize \in Nat \ {0} /\ PointerSize \in Nat \ {0}
      /\ I32Max <= IsizeMax /\ I32Max <= I64Max
    BY WidthsAssumption
<1> QED
    BY <1>1 DEF UsizeMax

\* The number of elements that fit a limit of bytes is the quotient.
LEMMA Quotient ==
    ASSUME NEW length \in Nat, NEW size \in Nat, size > 0, NEW limit \in Nat
    PROVE  length <= limit \div size <=> length * size <= limit
<1> DEFINE q == limit \div size
<1>1. q \in Nat /\ q * size <= limit /\ limit < (q + 1) * size
    OBVIOUS
<1>2. ASSUME length <= q
      PROVE  length * size <= limit
  <2>1. length * size <= q * size
      BY <1>1, <1>2
  <2> QED
      BY <1>1, <2>1
<1>3. ASSUME length * size <= limit
      PROVE  length <= q
  <2>1. length * size < (q + 1) * size
      BY <1>1, <1>3
  <2>2. length < q + 1
      BY <2>1, <1>1
  <2> QED
      BY <2>2, <1>1
<1> QED
    BY <1>2, <1>3

\* A validated range, of at least one element, is one that from_raw_parts permits.
LEMMA ValidatedRange ==
    ASSUME NEW pointer \in Usize, NEW length \in Nat, length > 0,
           NEW size \in Nat, size > 0,
           validate_pointer_count(pointer, length, size)
    PROVE  /\ pointer # 0 /\ pointer % size = 0
           /\ length * size <= IsizeMax /\ pointer + length * size <= UsizeMax
           /\ length \in Usize
<1>1. /\ pointer # 0 /\ pointer % size = 0 /\ length <= IsizeMax \div size
      /\ pointer + length * size <= UsizeMax
    BY DEF validate_pointer_count
<1>2. length * size <= IsizeMax
    BY <1>1, Quotient, Widths
<1>3. length <= length * size
    OBVIOUS
<1>4. length \in Usize
    BY <1>2, <1>3, Widths DEF Usize, UsizeMax
<1> QED
    BY <1>1, <1>2, <1>4

-----------------------------------------------------------------------------
(* The inductive invariant                                                   *)

\* Nothing is read and nothing is returned before the call is over, and native code
\* was asked only with sizes that fit.
InOrder ==
    /\ at # "over" => result = Pending /\ slice = NoSlice
    /\ at \in {"new", "sent"} => raw = Unread
    /\ at = "answered" => raw \in Raws(call.kind)
    /\ at \in {"sent", "answered"} => ValidSizes(call)

IInv == TypeOK /\ InOrder /\ SentAsGiven /\ SlicesAreSound /\ ResultFitsCall

\* Which calls there are.
LEMMA CallTypes ==
    ASSUME NEW c \in Calls
    PROVE  /\ c.kind \in Kinds /\ c.n \in Usize /\ c.cap \in Usize /\ c.include \in BOOLEAN
           /\ c.kind \notin Sized => c.n = 0 /\ c.cap = 0
           /\ c.kind = "embed" => c.cap = 0
<1>1. {0} \subseteq Usize /\ Sizes \subseteq Usize
    BY Widths, InputsAssumption DEF Usize
<1> QED
    BY <1>1 DEF Calls, Kinds, Sized

\* What native code can answer to each kind of call.
LEMMA RawTypes ==
    ASSUME NEW kind \in Kinds
    PROVE  /\ kind \in {"complete", "complete_tokens"} => Raws(kind) = RawCompletion
           /\ kind \in {"transcribe_wav", "transcribe_pcm"} => Raws(kind) = RawTranscription
           /\ kind = "embed" => Raws(kind) = RawEmbedding
           /\ kind = "mux_argv" => Raws(kind) = RawArgv
           /\ kind = "generate" => Raws(kind) = RawVideo
BY DEF Raws, Kinds

\* Counts and addresses are integers of their widths.
LEMMA InputTypes ==
    /\ \A count \in Counts : count \in Int /\ count <= I32Max
    /\ \A pointer \in Addresses : pointer \in Usize
    /\ \A size \in Usize : size \in Nat
BY InputsAssumption, Widths DEF I32, Usize

\* The types of the results and slices that conversions make.
LEMMA Shapes ==
    /\ Pending \in Result /\ Invalid \in Result
    /\ \A values \in Usize : Ok(values) \in Result
    /\ NoSlice \in Slice
    /\ Pending.outcome = "pending" /\ Invalid.outcome = "invalid"
<1>1. 0 \in Usize
    BY Widths DEF Usize
<1>2. Pending \in Result /\ Pending.outcome = "pending"
    BY <1>1 DEF Pending, Result
<1>3. Invalid \in Result /\ Invalid.outcome = "invalid"
    BY <1>2 DEF Invalid, Result
<1>4. ASSUME NEW values \in Usize
      PROVE  Ok(values) \in Result
    BY <1>2, <1>4 DEF Ok, Result
<1>5. NoSlice \in Slice
    BY <1>1 DEF NoSlice, Slice
<1> QED
    BY <1>2, <1>3, <1>4, <1>5

-----------------------------------------------------------------------------
(* Reading a validated range                                                 *)

LEMMA ReadIsSound ==
    ASSUME NEW pointer \in Usize, NEW length \in Nat,
           NEW size \in {ElementSize, PointerSize},
           validate_pointer_count(pointer, length, size),
           Reads(pointer, length, size)
    PROVE  slice' \in Slice /\ SlicesAreSound' /\ slice'.length = length /\ length \in Usize
<1>1. CASE length = 0
    BY <1>1, Shapes, Widths DEF Reads, NoSlice, SlicesAreSound, Usize
<1>2. CASE length # 0
  <2>1. length > 0 /\ size \in Nat /\ size > 0
      BY <1>2, Widths
  <2>2. /\ pointer # 0 /\ pointer % size = 0
        /\ length * size <= IsizeMax /\ pointer + length * size <= UsizeMax
        /\ length \in Usize
      BY <2>1, ValidatedRange
  <2>3. slice' = [pointer |-> pointer, length |-> length, size |-> size]
      BY <1>2 DEF Reads
  <2>4. slice' \in Slice
      BY <2>2, <2>3 DEF Slice
  <2>5. pointer + length * size <= UsizeMax + 1
      BY <2>1, <2>2, Widths, InputTypes
  <2> QED
      BY <2>2, <2>3, <2>4, <2>5 DEF SlicesAreSound
<1> QED
    BY <1>1, <1>2

\* A conversion that reads nothing leaves no slice.
LEMMA UnreadIsSound ==
    ASSUME slice = NoSlice, ReadsNothing
    PROVE  slice' \in Slice /\ SlicesAreSound' /\ slice'.length = 0
BY Shapes DEF ReadsNothing, SlicesAreSound, NoSlice

-----------------------------------------------------------------------------
(* The invariant holds initially and is preserved                            *)

LEMMA InitInvariant == Init => IInv
<1> SUFFICES ASSUME Init PROVE IInv
    OBVIOUS
<1>1. call.kind \in Kinds
    BY CallTypes DEF Init
<1>2. sent \in Sent
    BY DEF Init, Sent
<1>3. TypeOK
    BY <1>2, Shapes DEF Init, TypeOK
<1> QED
    BY <1>3, Shapes DEF Init, IInv, InOrder, SentAsGiven, SlicesAreSound, ResultFitsCall

\* A conversion keeps the invariant if its slice is sound and its result fits.
LEMMA ConversionKeepsInvariant ==
    ASSUME IInv, NEW kinds, Convert(kinds), UNCHANGED <<call, sent, raw>>,
           slice' \in Slice, SlicesAreSound', result' \in Result, ResultFitsCall'
    PROVE  IInv'
<1>1. at = "answered" /\ at' = "over"
    BY DEF Convert
<1>2. TypeOK'
    BY <1>1 DEF IInv, TypeOK
<1>3. InOrder' /\ SentAsGiven'
    BY <1>1 DEF InOrder, SentAsGiven
<1> QED
    BY <1>2, <1>3 DEF IInv

\* A result that is not ok fits any call.
LEMMA NotOkFits ==
    ASSUME result' = Invalid
    PROVE  result' \in Result /\ ResultFitsCall'
BY Shapes DEF ResultFitsCall

LEMMA CompletionStep ==
    ASSUME IInv, ConvertCompletion
    PROVE  IInv'
<1>1. call.kind = "complete" /\ call' = call /\ slice = NoSlice /\ at = "answered"
    BY DEF ConvertCompletion, Convert, IInv, InOrder
<1>2. slice' \in Slice /\ SlicesAreSound' /\ slice'.length = 0
    BY <1>1, UnreadIsSound DEF ConvertCompletion
<1>3. result' \in Result /\ ResultFitsCall'
  <2>1. CASE result' = Ok(0)
    <3>1. 0 \in Usize
        BY Widths DEF Usize
    <3>2. result' \in Result /\ result'.values = 0
        BY <2>1, <3>1, Shapes DEF Ok, Pending
    <3> QED
        BY <1>1, <1>2, <3>2 DEF ResultFitsCall
  <2> QED
      BY <2>1, NotOkFits DEF ConvertCompletion
<1> QED
    BY <1>2, <1>3, ConversionKeepsInvariant DEF ConvertCompletion

LEMMA TokensStep ==
    ASSUME IInv, ConvertTokens
    PROVE  IInv'
<1>1. call.kind = "complete_tokens" /\ call' = call /\ raw' = raw /\ slice = NoSlice
      /\ at = "answered" /\ raw \in RawCompletion /\ call \in Calls
    BY RawTypes, CallTypes DEF ConvertTokens, Convert, IInv, InOrder, TypeOK
<1>2. slice' \in Slice /\ SlicesAreSound'
    BY <1>1, UnreadIsSound DEF ConvertTokens
<1>3. result' \in Result /\ ResultFitsCall'
  <2>1. CASE token_completion_from_raw(call, raw)
    <3>1. /\ raw.written \in Int /\ raw.completion_tokens \in Int
          /\ call.cap \in Usize /\ call.cap \in Nat
        BY <1>1, CallTypes, InputTypes DEF RawCompletion
    <3>2. /\ raw.written >= 0 /\ raw.written <= call.cap
          /\ raw.prompt_tokens = call.n
          /\ raw.written = least_of(raw.completion_tokens, call.cap)
        BY <2>1 DEF token_completion_from_raw, token_counts, fits_usize
    <3>3. raw.written \in Usize
        BY <3>1, <3>2, Widths DEF Usize
    <3>4. /\ result' \in Result /\ result'.values = raw.written
          /\ result'.truncated = (raw.written < raw.completion_tokens)
      <4>1. result' = [Ok(raw.written) EXCEPT !.truncated = raw.written < raw.completion_tokens]
          BY <2>1 DEF ConvertTokens
      <4>2. result' = [outcome |-> "ok", values |-> raw.written, dimension |-> 0,
                       truncated |-> raw.written < raw.completion_tokens]
          BY <4>1 DEF Ok, Pending
      <4>3. 0 \in Usize /\ (raw.written < raw.completion_tokens) \in BOOLEAN
          BY Widths DEF Usize
      <4> QED
          BY <3>3, <4>2, <4>3 DEF Result
    <3>5. result'.truncated = (raw.completion_tokens > call.cap)
        BY <3>1, <3>2, <3>4 DEF least_of
    <3> QED
        BY <1>1, <3>2, <3>4, <3>5 DEF ResultFitsCall
  <2> QED
      BY <2>1, NotOkFits DEF ConvertTokens
<1> QED
    BY <1>2, <1>3, ConversionKeepsInvariant DEF ConvertTokens

LEMMA TranscriptionStep ==
    ASSUME IInv, ConvertTranscription
    PROVE  IInv'
<1>1. call.kind \in {"transcribe_wav", "transcribe_pcm"} /\ call' = call
      /\ slice = NoSlice /\ at = "answered" /\ raw \in RawTranscription
    BY RawTypes, CallTypes DEF ConvertTranscription, Convert, IInv, InOrder, TypeOK
<1>2. CASE transcription_from_raw(raw)
  <2>1. /\ raw.n_token_ids \in Nat /\ raw.pointer \in Usize
        /\ validate_pointer_count(raw.pointer, raw.n_token_ids, ElementSize)
      BY <1>1, <1>2, InputTypes
      DEF RawTranscription, transcription_from_raw, fits_usize
  <2>2. /\ slice' \in Slice /\ SlicesAreSound'
        /\ slice'.length = raw.n_token_ids /\ raw.n_token_ids \in Usize
      BY <1>2, <2>1, ReadIsSound DEF ConvertTranscription
  <2>3. result' \in Result /\ result'.values = raw.n_token_ids
      BY <1>2, <2>2, Shapes DEF ConvertTranscription, Ok, Pending
  <2>4. ResultFitsCall'
      BY <1>1, <2>2, <2>3 DEF ResultFitsCall
  <2> QED
      BY <2>2, <2>3, <2>4, ConversionKeepsInvariant DEF ConvertTranscription
<1>3. CASE ~transcription_from_raw(raw)
    BY <1>1, <1>3, UnreadIsSound, NotOkFits, ConversionKeepsInvariant
    DEF ConvertTranscription
<1> QED
    BY <1>2, <1>3

LEMMA EmbeddingStep ==
    ASSUME IInv, ConvertEmbedding
    PROVE  IInv'
<1>1. call.kind = "embed" /\ call' = call /\ slice = NoSlice /\ at = "answered"
      /\ raw \in RawEmbedding /\ call \in Calls
    BY RawTypes, CallTypes DEF ConvertEmbedding, Convert, IInv, InOrder, TypeOK
<1>2. CASE embedding_from_raw(call, raw)
  <2> DEFINE count == checked_product(raw.n_embeddings, raw.dim)
  <2>1. /\ raw.n_embeddings \in Nat /\ raw.n_embeddings = call.n
        /\ raw.dim \in Nat /\ raw.dim > 0 /\ raw.pointer \in Usize
        /\ count # Overflow /\ validate_pointer_count(raw.pointer, count, ElementSize)
      BY <1>1, <1>2, InputTypes DEF RawEmbedding, embedding_from_raw, fits_usize
  <2>2. count = call.n * raw.dim /\ count \in Nat
      BY <2>1 DEF checked_product
  <2>3. /\ Reads(raw.pointer, count, ElementSize)
        /\ result' = [Ok(count) EXCEPT !.dimension = raw.dim]
      BY <1>2 DEF ConvertEmbedding
  <2>4. /\ slice' \in Slice /\ SlicesAreSound'
        /\ slice'.length = count /\ count \in Usize
      BY <2>1, <2>2, <2>3, ReadIsSound
  <2>5. raw.dim \in Usize
    <3>1. raw.dim <= I32Max
        BY <1>1, InputTypes DEF RawEmbedding
    <3> QED
        BY <2>1, <3>1, Widths DEF Usize, UsizeMax
  <2>6. result' = [outcome |-> "ok", values |-> count, dimension |-> raw.dim,
                   truncated |-> FALSE]
      BY <2>3 DEF Ok, Pending
  <2>7. result' \in Result
      BY <2>4, <2>5, <2>6 DEF Result
  <2>8. ResultFitsCall'
      BY <1>1, <2>1, <2>2, <2>4, <2>6 DEF ResultFitsCall
  <2> QED
      BY <2>4, <2>7, <2>8, ConversionKeepsInvariant DEF ConvertEmbedding
<1>3. CASE ~embedding_from_raw(call, raw)
    BY <1>1, <1>3, UnreadIsSound, NotOkFits, ConversionKeepsInvariant
    DEF ConvertEmbedding
<1> QED
    BY <1>2, <1>3

\* An argv that is in range is read with its terminator.
LEMMA ArgvRead ==
    ASSUME NEW r, r.argc \in Counts, r.pointer \in Addresses, mux_argv_range(r),
           Reads(r.pointer, r.argc + 1, PointerSize)
    PROVE  /\ slice' \in Slice /\ SlicesAreSound' /\ slice'.length = r.argc + 1
           /\ r.argc \in Usize /\ r.argc > 0
<1>1. /\ r.argc \in Nat /\ r.argc > 0 /\ r.argc + 1 \in Nat /\ r.pointer \in Usize
      /\ r.argc <= I32Max
      /\ validate_pointer_count(r.pointer, r.argc + 1, PointerSize)
    BY InputTypes DEF mux_argv_range, fits_usize
<1>2. slice' \in Slice /\ SlicesAreSound' /\ slice'.length = r.argc + 1
    BY <1>1, ReadIsSound
<1>3. r.argc \in Usize
    BY <1>1, Widths DEF Usize, UsizeMax
<1> QED
    BY <1>1, <1>2, <1>3

LEMMA ArgvStep ==
    ASSUME IInv, ConvertArgv \/ ConvertVideo
    PROVE  IInv'
<1>1. call.kind \in {"mux_argv", "generate"} /\ UNCHANGED <<call, sent, raw>>
      /\ slice = NoSlice /\ at = "answered" /\ (\E kinds : Convert(kinds))
      /\ raw.argc \in Counts /\ raw.pointer \in Addresses
  <2>1. call.kind \in {"mux_argv", "generate"} /\ at = "answered" /\ slice = NoSlice
        /\ raw \in RawArgv \cup RawVideo
      BY RawTypes, CallTypes DEF ConvertArgv, ConvertVideo, Convert, IInv, InOrder, TypeOK
  <2>2. raw.argc \in Counts /\ raw.pointer \in Addresses
      BY <2>1 DEF RawArgv, RawVideo
  <2> QED
      BY <2>1, <2>2 DEF ConvertArgv, ConvertVideo
<1>2. \/ Reads(raw.pointer, raw.argc + 1, PointerSize) /\ mux_argv_range(raw)
      \/ ReadsNothing /\ result' = Invalid
    BY DEF ConvertArgv, ConvertVideo, video_mux_argv_from_raw
<1>3. result' = Ok(raw.argc) \/ result' = Invalid
    BY DEF ConvertArgv, ConvertVideo
<1>4. CASE ReadsNothing /\ result' = Invalid
    BY <1>1, <1>4, UnreadIsSound, NotOkFits, ConversionKeepsInvariant
<1>5. CASE Reads(raw.pointer, raw.argc + 1, PointerSize) /\ mux_argv_range(raw)
  <2>1. /\ slice' \in Slice /\ SlicesAreSound' /\ slice'.length = raw.argc + 1
        /\ raw.argc \in Usize /\ raw.argc > 0
      BY <1>1, <1>5, ArgvRead
  <2>2. result' \in Result /\ ResultFitsCall'
    <3>1. CASE result' = Ok(raw.argc)
      <4>1. result' \in Result /\ result'.values = raw.argc
          BY <2>1, <3>1, Shapes DEF Ok, Pending
      <4> QED
          BY <1>1, <2>1, <4>1 DEF ResultFitsCall
    <3> QED
        BY <1>3, <3>1, NotOkFits
  <2> QED
      BY <1>1, <2>1, <2>2, ConversionKeepsInvariant
<1> QED
    BY <1>2, <1>4, <1>5

LEMMA MarshalStep ==
    ASSUME IInv, Marshal
    PROVE  IInv'
<1>1. /\ call \in Calls /\ call' = call /\ at = "new" /\ raw' = raw /\ raw = Unread
      /\ slice' = slice /\ slice = NoSlice /\ result = Pending
    BY DEF IInv, TypeOK, InOrder, Marshal
<1>2. /\ call.kind \in Kinds /\ call.n \in Nat /\ call.cap \in Nat
      /\ call.kind \notin Sized => call.n = 0 /\ call.cap = 0
      /\ call.kind = "embed" => call.cap = 0
    BY <1>1, CallTypes, InputTypes
<1>3. SlicesAreSound' /\ slice' \in Slice
    BY <1>1, Shapes DEF SlicesAreSound
<1>4. CASE ValidSizes(call)
  <2>1. /\ call.n <= (IF call.kind = "transcribe_pcm" THEN I64Max ELSE I32Max)
        /\ call.cap <= I32Max
    <3>1. CASE call.kind \in Sized
        BY <1>2, <1>4, <3>1, Widths
        DEF ValidSizes, Sized, validate_token_input, validate_pcm_input,
            validate_embedding_count, fits_i32
    <3>2. CASE call.kind \notin Sized
        BY <1>2, <3>2, Widths
    <3> QED
        BY <3>1, <3>2
  <2>2. /\ at' = "sent" /\ sent' = native_sizes(call) /\ result' = result
      BY <1>4 DEF Marshal
  <2>3. sent' = [n |-> call.n, cap |-> call.cap]
      BY <2>1, <2>2 DEF native_sizes, as_signed
  <2>4. TypeOK'
      BY <1>1, <1>2, <1>3, <2>2, <2>3, Shapes DEF TypeOK, Sent
  <2>5. InOrder' /\ SentAsGiven' /\ ResultFitsCall'
      BY <1>1, <1>4, <2>2, <2>3, Shapes DEF InOrder, SentAsGiven, ResultFitsCall
  <2> QED
      BY <1>3, <2>4, <2>5 DEF IInv
<1>5. CASE ~ValidSizes(call)
  <2>1. /\ at' = "over" /\ result' = [Pending EXCEPT !.outcome = "rejected"] /\ sent' = sent
      BY <1>5 DEF Marshal
  <2>2. result' \in Result /\ result'.outcome = "rejected"
    <3>1. result' = [outcome |-> "rejected", values |-> 0, dimension |-> 0,
                     truncated |-> FALSE]
        BY <2>1 DEF Pending
    <3> QED
        BY <3>1, Widths DEF Result, Usize
  <2>3. TypeOK'
      BY <1>1, <1>3, <2>1, <2>2 DEF TypeOK, IInv
  <2>4. InOrder' /\ SentAsGiven' /\ ResultFitsCall'
      BY <2>1, <2>2 DEF InOrder, SentAsGiven, ResultFitsCall
  <2> QED
      BY <1>3, <2>3, <2>4 DEF IInv
<1> QED
    BY <1>4, <1>5

LEMMA NativeAnswersStep ==
    ASSUME IInv, NativeAnswers
    PROVE  IInv'
<1>1. /\ at = "sent" /\ at' = "answered" /\ raw' \in Raws(call.kind)
      /\ UNCHANGED <<call, sent, slice, result>> /\ result = Pending /\ slice = NoSlice
    BY DEF NativeAnswers, IInv, InOrder
<1>2. TypeOK'
    BY <1>1 DEF IInv, TypeOK
<1>3. InOrder' /\ SentAsGiven'
    BY <1>1 DEF InOrder, SentAsGiven, IInv
<1>4. SlicesAreSound' /\ ResultFitsCall'
    BY <1>1, Shapes DEF SlicesAreSound, ResultFitsCall
<1> QED
    BY <1>2, <1>3, <1>4 DEF IInv

LEMMA NextInvariant == IInv /\ [Next]_vars => IInv'
<1> SUFFICES ASSUME IInv, [Next]_vars PROVE IInv'
    OBVIOUS
<1>1. CASE UNCHANGED vars
    BY <1>1 DEF vars, IInv, TypeOK, InOrder, SentAsGiven, SlicesAreSound, ResultFitsCall
<1>2. CASE Finished
    BY <1>1, <1>2 DEF Finished
<1> QED
    BY <1>1, <1>2, MarshalStep, NativeAnswersStep, CompletionStep, TokensStep,
       TranscriptionStep, EmbeddingStep, ArgvStep
    DEF Next

-----------------------------------------------------------------------------
(* Validation is not too strict                                              *)

\* An array native code can really have is validated.
LEMMA ArrayIsValidated ==
    ASSUME NEW pointer, NEW length \in Nat, NEW size \in {ElementSize, PointerSize},
           HonestArray(pointer, length, size)
    PROVE  validate_pointer_count(pointer, length, size)
BY Quotient, Widths DEF HonestArray, validate_pointer_count

\* When native code answered, it had been told the sizes of the caller's buffers.
LEMMA Answered ==
    ASSUME IInv, NEW kinds, Convert(kinds)
    PROVE  /\ sent = [n |-> call.n, cap |-> call.cap]
           /\ call.kind \in kinds /\ call.kind \in Kinds /\ call \in Calls
           /\ raw \in Raws(call.kind) /\ ValidSizes(call)
BY CallTypes DEF Convert, IInv, InOrder, SentAsGiven, TypeOK

LEMMA HonestInit == Init => HonestIsAccepted
BY DEF Init, HonestIsAccepted

LEMMA HonestCompletion ==
    ASSUME IInv, ConvertCompletion
    PROVE  HonestIsAccepted'
<1>1. /\ call.kind = "complete" /\ raw \in RawCompletion
      /\ call' = call /\ raw' = raw /\ sent' = sent
    BY Answered, RawTypes DEF ConvertCompletion
<1>2. ASSUME Honest(raw)'
      PROVE  result'.outcome = "ok"
  <2>1. completion_from_raw(raw)
      BY <1>1, <1>2 DEF Honest, completion_from_raw, owned_string, fits_usize
  <2> QED
      BY <2>1 DEF ConvertCompletion, Ok, Pending
<1> QED
    BY <1>1, <1>2 DEF HonestIsAccepted

LEMMA HonestTokens ==
    ASSUME IInv, ConvertTokens
    PROVE  HonestIsAccepted'
<1>1. /\ call.kind = "complete_tokens" /\ raw \in RawCompletion /\ call \in Calls
      /\ call' = call /\ raw' = raw /\ sent' = sent
      /\ sent = [n |-> call.n, cap |-> call.cap]
    BY Answered, RawTypes DEF ConvertTokens
<1>2. raw.completion_tokens \in Int /\ call.cap \in Nat /\ call.n \in Nat
    BY <1>1, CallTypes, InputTypes DEF RawCompletion
<1>3. ASSUME Honest(raw)'
      PROVE  result'.outcome = "ok"
  <2>1. /\ owned_string(raw.text)
        /\ raw.finish_reason = "null" \/ owned_string(raw.finish_reason)
        /\ raw.prompt_tokens >= 0 /\ raw.completion_tokens >= 0
        /\ raw.prompt_tokens = call.n
        /\ raw.written = least_of(raw.completion_tokens, call.cap)
      BY <1>1, <1>3 DEF Honest, owned_string
  <2>2. raw.written >= 0 /\ raw.written <= call.cap
      BY <1>2, <2>1 DEF least_of
  <2>3. token_completion_from_raw(call, raw)
      BY <2>1, <2>2
      DEF token_completion_from_raw, token_counts, completion_from_raw, fits_usize
  <2> QED
      BY <2>3 DEF ConvertTokens, Ok, Pending
<1> QED
    BY <1>1, <1>3 DEF HonestIsAccepted

LEMMA HonestTranscription ==
    ASSUME IInv, ConvertTranscription
    PROVE  HonestIsAccepted'
<1>1. /\ call.kind \in {"transcribe_wav", "transcribe_pcm"} /\ raw \in RawTranscription
      /\ call' = call /\ raw' = raw /\ sent' = sent
    BY Answered, RawTypes DEF ConvertTranscription
<1>2. raw.n_token_ids \in Int
    BY <1>1, InputTypes DEF RawTranscription
<1>3. ASSUME Honest(raw)'
      PROVE  result'.outcome = "ok"
  <2>1. /\ <<raw.has_text, raw.text>> \in {<<0, "null">>, <<1, "empty">>, <<1, "text">>}
        /\ raw.n_token_ids >= 0
        /\ HonestArray(raw.pointer, raw.n_token_ids, ElementSize)
      BY <1>1, <1>3 DEF Honest
  <2>2. transcription_text(raw)
      BY <2>1 DEF transcription_text, owned_string
  <2>3. validate_pointer_count(raw.pointer, raw.n_token_ids, ElementSize)
      BY <1>2, <2>1, ArrayIsValidated
  <2>4. transcription_from_raw(raw)
      BY <2>1, <2>2, <2>3 DEF transcription_from_raw, fits_usize
  <2> QED
      BY <2>4 DEF ConvertTranscription, Ok, Pending
<1> QED
    BY <1>1, <1>3 DEF HonestIsAccepted

LEMMA HonestEmbedding ==
    ASSUME IInv, ConvertEmbedding
    PROVE  HonestIsAccepted'
<1>1. /\ call.kind = "embed" /\ raw \in RawEmbedding /\ call \in Calls
      /\ call' = call /\ raw' = raw /\ sent' = sent
      /\ sent = [n |-> call.n, cap |-> call.cap] /\ call.n # 0
    BY Answered, RawTypes DEF ConvertEmbedding, ValidSizes, validate_embedding_count
<1>2. raw.n_embeddings \in Int /\ raw.dim \in Int /\ call.n \in Nat
    BY <1>1, CallTypes, InputTypes DEF RawEmbedding
<1>3. ASSUME Honest(raw)'
      PROVE  result'.outcome = "ok"
  <2> DEFINE count == raw.n_embeddings * raw.dim
  <2>1. /\ raw.n_embeddings = call.n /\ raw.dim > 0 /\ raw.prompt_tokens >= 0
        /\ HonestArray(raw.pointer, count, ElementSize)
      BY <1>1, <1>3 DEF Honest
  <2>2. count \in Nat /\ count > 0
      BY <1>1, <1>2, <2>1
  <2>3. count * ElementSize <= IsizeMax
      BY <2>1, <2>2 DEF HonestArray
  <2>4. count <= UsizeMax
      BY <2>2, <2>3, Widths DEF UsizeMax
  <2>5. checked_product(raw.n_embeddings, raw.dim) = count /\ count # Overflow
      BY <2>2, <2>4 DEF checked_product, Overflow
  <2>6. validate_pointer_count(raw.pointer, count, ElementSize)
      BY <2>1, <2>2, ArrayIsValidated
  <2>7. embedding_from_raw(call, raw)
      BY <1>1, <1>2, <2>1, <2>5, <2>6 DEF embedding_from_raw, fits_usize
  <2> QED
      BY <2>7 DEF ConvertEmbedding, Ok, Pending
<1> QED
    BY <1>1, <1>3 DEF HonestIsAccepted

LEMMA HonestArgvIsAccepted ==
    ASSUME NEW r, r.argc \in Counts, HonestArgv(r)
    PROVE  video_mux_argv_from_raw(r)
<1>1. /\ r.argc \in Int /\ r.argc > 0 /\ r.argc <= I32Max /\ r.entries = "terminated"
      /\ HonestArray(r.pointer, r.argc + 1, PointerSize)
    BY InputTypes DEF HonestArgv
<1>2. r.argc + 1 \in Nat /\ r.argc + 1 <= UsizeMax
    BY <1>1, Widths DEF UsizeMax
<1>3. validate_pointer_count(r.pointer, r.argc + 1, PointerSize)
    BY <1>1, <1>2, ArrayIsValidated
<1> QED
    BY <1>1, <1>2, <1>3 DEF video_mux_argv_from_raw, mux_argv_range, fits_usize

LEMMA HonestVideo ==
    ASSUME IInv, ConvertArgv \/ ConvertVideo
    PROVE  HonestIsAccepted'
<1>1. /\ call' = call /\ raw' = raw /\ sent' = sent /\ raw.argc \in Counts
      /\ \/ call.kind = "mux_argv" /\ ConvertArgv
         \/ call.kind = "generate" /\ ConvertVideo
  <2>1. CASE ConvertArgv
    <3>1. call.kind = "mux_argv" /\ raw \in RawArgv
        BY <2>1, Answered, RawTypes DEF ConvertArgv
    <3> QED
        BY <2>1, <3>1 DEF ConvertArgv, RawArgv
  <2>2. CASE ConvertVideo
    <3>1. call.kind = "generate" /\ raw \in RawVideo
        BY <2>2, Answered, RawTypes DEF ConvertVideo
    <3> QED
        BY <2>2, <3>1 DEF ConvertVideo, RawVideo
  <2> QED
      BY <2>1, <2>2
<1>2. ASSUME Honest(raw)'
      PROVE  result'.outcome = "ok"
  <2>1. HonestArgv(raw)
      BY <1>1, <1>2 DEF Honest
  <2>2. video_mux_argv_from_raw(raw)
      BY <1>1, <2>1, HonestArgvIsAccepted
  <2>3. CASE call.kind = "mux_argv" /\ ConvertArgv
      BY <2>2, <2>3 DEF ConvertArgv, Ok, Pending
  <2>4. CASE call.kind = "generate" /\ ConvertVideo
    <3>1. video_fields(raw)
        BY <1>1, <1>2, <2>4 DEF Honest, video_fields, owned_path, positive_native_i32
    <3> QED
        BY <2>2, <2>4, <3>1 DEF ConvertVideo, Ok, Pending
  <2> QED
      BY <1>1, <2>3, <2>4
<1> QED
    BY <1>1, <1>2 DEF HonestIsAccepted

LEMMA HonestNext == IInv /\ HonestIsAccepted /\ [Next]_vars => HonestIsAccepted'
<1> SUFFICES ASSUME IInv, HonestIsAccepted, [Next]_vars PROVE HonestIsAccepted'
    OBVIOUS
<1>1. CASE UNCHANGED vars
    BY <1>1 DEF vars, HonestIsAccepted, Honest
<1>2. CASE Finished
    BY <1>1, <1>2 DEF Finished
<1>3. CASE Marshal
    BY <1>3 DEF Marshal, HonestIsAccepted, IInv, InOrder
<1>4. CASE NativeAnswers
    BY <1>4 DEF NativeAnswers, HonestIsAccepted
<1> QED
    BY <1>1, <1>2, <1>3, <1>4, HonestCompletion, HonestTokens, HonestTranscription,
       HonestEmbedding, HonestVideo
    DEF Next

-----------------------------------------------------------------------------
(* Theorems                                                                  *)

\* The inductive invariant of a blocking call's values: types, order, sizes, slices
\* and results, for all widths of the integers.
THEOREM Invariant == Spec => []IInv
BY InitInvariant, NextInvariant, PTL DEF Spec

\* No count of a Rust result is negative or out of usize (TypeOK of engine.rs results).
THEOREM TypeCorrect == Spec => []TypeOK
<1>1. IInv => TypeOK
    BY DEF IInv
<1> QED
    BY <1>1, Invariant, PTL

\* try_from lets a size reach native code only unchanged.
THEOREM SizesAreExact == Spec => []SentAsGiven
<1>1. IInv => SentAsGiven
    BY DEF IInv
<1> QED
    BY <1>1, Invariant, PTL

\* validate_pointer_count establishes what from_raw_parts requires.
THEOREM SlicesStaySound == Spec => []SlicesAreSound
<1>1. IInv => SlicesAreSound
    BY DEF IInv
<1> QED
    BY <1>1, Invariant, PTL

\* The *_from_raw conversions return only results that fit the call.
THEOREM ResultsFit == Spec => []ResultFitsCall
<1>1. IInv => ResultFitsCall
    BY DEF IInv
<1> QED
    BY <1>1, Invariant, PTL

\* Results of native code that keeps its word are never turned down by the checks.
THEOREM HonestResultsPass == Spec => []HonestIsAccepted
BY Invariant, HonestInit, HonestNext, PTL DEF Spec
=============================================================================
