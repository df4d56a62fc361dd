------------------------------ MODULE EngineLoad ------------------------------
(***************************************************************************)
(* Configuration of native calls (vllm-cpp/src/engine.rs, params.rs and     *)
(* abi.rs): loading text, transcription, embedding and video engines,       *)
(* completing text, transcribing, generating video and composing mux        *)
(* arguments.                                                               *)
(*                                                                          *)
(* The application sets fields of a builder.  A call converts them to owned *)
(* native values, checks that the linked library has the ABI the bindings   *)
(* were made for, takes the library's defaults, lays the settings over them *)
(* and calls native code, which is external.  A text, transcription or       *)
(* video engine keeps the proof of the check for the calls made on it.      *)
(*                                                                          *)
(* A setting is abstracted to what the conversion tells apart.              *)
(***************************************************************************)
EXTENDS Naturals, FiniteSets

CONSTANT MaxSettings, MaxCalls  \* bounds: setters per builder, and calls

ASSUME BoundsAssumption == MaxSettings \in Nat /\ MaxCalls \in Nat

\* What a field can be set to: something native code can take, or a number that is zero
\* or not finite, one beyond the native type, a string that is empty, holds a NUL or is
\* longer than 481 bytes.  "rust" is the default of SamplingParams itself.
Settings == {"unset", "rust", "valid", "zero", "large", "empty", "nul", "long"}

Counts == {"valid", "zero", "large"}
Strings == {"valid", "empty", "nul"}
FrameDirs == Strings \cup {"long"}

\* ModelConfig, with the setters of EmbeddingEngineBuilder and TranscriptionEngineBuilder.
Memory == {"kv_cache_memory_bytes", "gpu_memory_utilization"}
Capacity == {"block_size", "num_blocks", "max_model_len", "max_num_seqs",
             "max_num_batched_tokens"}
Parsers == {"tool_parser", "reasoning_parser", "speculative_config", "kv_transfer_config"}
EmbeddingFields == Capacity \cup Memory \cup {"model_path", "prefix_caching", "device"}
ModelFields == EmbeddingFields \cup Parsers
                   \cup {"tokenizer_config_path", "scheduler", "jump_forward"}

VideoPaths == {"encoder_path", "tokenizer_path", "video_vae_path", "video_vae_config_path",
               "audio_vae_path", "audio_vae_config_path", "prompt_embeds_path"}
VideoModelFields == VideoPaths \cup
    {"dit_path", "partition", "device", "dequant_bf16", "fp4_resident"}

Keyframes == {"first_frame", "last_frame"}
References == {"reference_image", "reference_video", "reference_audio"}
GenerationFields == Keyframes \cup References \cup
    {"prompt", "output_dir", "dimensions", "num_frames", "steps", "seed",
     "noise_augmentation"}

MuxFields == {"frame_pattern", "output_path", "audio_path", "fps", "crf"}

\* scalars stands for temperature, top_p, top_k, min_p, the penalties and ignore_eos,
\* which are handed on as they are.
SamplingFields == {"prompt", "scalars", "max_tokens", "min_tokens", "seed", "stop",
                   "structured_output", "logits_processor"}

\* The two variants of TranscriptionInput.
PcmFields == {"pcm", "sample_rate"}
TranscriptionFields == {"wav"} \cup PcmFields

Loads == {"text", "transcription", "embedding", "video"}
Transcribes == {"transcribe_wav", "transcribe_pcm"}
Calls == Loads \cup Transcribes \cup {"complete", "generate", "mux"}

FieldsOf(call) ==
    CASE call \in {"text", "transcription", "embedding"} -> ModelFields
      [] call = "video" -> VideoModelFields
      [] call = "generate" -> GenerationFields
      [] call = "mux" -> MuxFields
      [] call \in Transcribes -> TranscriptionFields
      [] OTHER -> SamplingFields

\* The fields that a builder's constructor, or a variant of the input, sets.
GivenToNew(call) ==
    CASE call \in {"text", "transcription", "embedding"} -> {"model_path"}
      [] call = "video" -> {"dit_path"}
      [] call = "generate" -> {"prompt", "output_dir"}
      [] call = "mux" -> {"frame_pattern", "output_path"}
      [] call = "transcribe_wav" -> {"wav"}
      [] call = "transcribe_pcm" -> PcmFields
      [] OTHER -> {"prompt"}

\* The setters a builder has.
Setters(call) ==
    CASE call = "transcription" -> {"device"}
      [] call = "embedding" -> EmbeddingFields \ {"model_path"}
      [] call \in Transcribes -> {}
      [] OTHER -> FieldsOf(call) \ GivenToNew(call)

\* What a setter, or a constructor, can be given; an empty structured_output is a choice
\* of nothing.
Domain(call, f) ==
    IF call = "complete"
    THEN CASE f = "max_tokens" -> Counts \cup {"unset"}
           [] f = "min_tokens" -> {"valid", "large"}
           [] f = "seed" -> {"valid", "unset"}
           [] f = "stop" -> {"valid", "nul"}
           [] f \in {"structured_output", "prompt"} -> Strings
           [] f = "logits_processor" -> {"valid", "unset"}
           [] OTHER -> {"valid"}
    ELSE CASE f \in Capacity \cup {"kv_cache_memory_bytes", "dimensions", "num_frames",
                                   "steps", "fps", "crf", "sample_rate"} -> Counts
           [] f \in {"gpu_memory_utilization", "noise_augmentation", "pcm"} ->
                  {"valid", "zero"}
           [] f \in {"prefix_caching", "jump_forward"} -> {"valid", "unset"}
           [] f \in {"output_dir", "reference_video"} -> FrameDirs
           [] f \in {"device", "scheduler", "partition", "dequant_bf16", "fp4_resident",
                     "seed"} -> {"valid"}
           [] OTHER -> Strings

VARIABLES
    abi,       \* the linked library has the expected ABI
    pc,        \* the step of the call that is made
    call,      \* that call
    config,    \* the builder's settings
    raw,       \* the native structure
    engines,   \* the engines of each kind that Rust owns
    crossed,   \* a versioned structure has crossed the boundary
    settings,  \* bounds
    calls

boundVars == <<settings, calls>>
vars == <<abi, pc, call, config, raw, engines, crossed, boundVars>>

Steps == {"idle", "build", "marshal", "check", "defaults", "call"}
\* A field of the native structure is absent, or holds the library's default or a value.
RawValues == Settings \cup {"absent", "default"}

TypeOK ==
    /\ abi \in BOOLEAN
    /\ pc \in Steps
    /\ call \in Calls
    /\ config \in [FieldsOf(call) -> Settings]
    /\ raw \in [FieldsOf(call) -> RawValues]
    /\ engines \in [Loads -> Nat]
    /\ crossed \in BOOLEAN
    /\ settings \in 0..MaxSettings
    /\ calls \in 0..MaxCalls

NoSettings(c) == [f \in FieldsOf(c) |-> "unset"]
NoRaw(c) == [f \in FieldsOf(c) |-> "absent"]

Init ==
    /\ abi \in BOOLEAN
    /\ pc = "idle"
    /\ call = "text"
    /\ config = NoSettings("text")
    /\ raw = NoRaw("text")
    /\ engines = [e \in Loads |-> 0]
    /\ crossed = FALSE
    /\ settings = 0
    /\ calls = 0

-----------------------------------------------------------------------------
(* Builders                                                                  *)

\* SamplingParams::default has values of its own, and a finite max_tokens.
Defaults(c) ==
    [f \in FieldsOf(c) |-> IF c = "complete" /\ f \in {"scalars", "min_tokens", "max_tokens"}
                           THEN "rust" ELSE "unset"]

\* The engine a call is made on; the others are associated functions.
Owner(c) == CASE c = "complete" -> {"text"}
              [] c \in Transcribes -> {"transcription"}
              [] c = "generate" -> {"video"}
              [] OTHER -> {}

\* A builder is made, with the values its constructor asks for.
NewBuilder(c) ==
    /\ pc = "idle" /\ calls < MaxCalls
    /\ \A e \in Owner(c) : engines[e] > 0
    /\ \E given \in [GivenToNew(c) -> Settings] :
           /\ \A f \in GivenToNew(c) : given[f] \in Domain(c, f)
           /\ config' = [f \in FieldsOf(c) |-> IF f \in GivenToNew(c) THEN given[f]
                                               ELSE Defaults(c)[f]]
    /\ raw' = NoRaw(c)
    /\ call' = c /\ pc' = "build"
    /\ calls' = calls + 1 /\ settings' = 0
    /\ UNCHANGED <<abi, engines, crossed>>

\* One setter; a stop string is added to the ones before.
Configure ==
    /\ pc = "build" /\ settings < MaxSettings
    /\ \E f \in Setters(call) : \E value \in Domain(call, f) :
           /\ f = "stop" /\ config["stop"] = "nul" => value = "nul"
           /\ config' = [config EXCEPT ![f] = value]
    /\ settings' = settings + 1
    /\ UNCHANGED <<abi, pc, call, raw, engines, crossed, calls>>

\* The application starts the call.
Begin ==
    /\ pc = "build"
    /\ pc' = "marshal"
    /\ UNCHANGED <<abi, call, config, raw, engines, crossed, boundVars>>

-----------------------------------------------------------------------------
(* Conversion                                                                *)

\* Strings hold no NUL, a directory of frames fits native code's buffer, and the paths
\* of the video interface are not empty: a text engine's may be.
string_accepted(f, value) ==
    /\ value \notin {"nul", "long"}
    /\ value = "empty" =>
           f \in {"prompt", "model_path", "tokenizer_config_path", "wav"} \cup Parsers

\* Fault: the check for zero is made for video only.
zero_budget(f, value) ==
    value # "large" /\ (value = "zero" => f \in Capacity \cup Memory \cup {"max_tokens"})
\* u32 and u64 must fit the signed native field; what must be positive is.
number_accepted(f, value) == value # "large" /\ (value = "zero" => f \in Capacity)

converted(p, fields) == \A f \in fields : string_accepted(f, p[f]) /\ number_accepted(f, p[f])
is_set(p, fields) == \E f \in fields : p[f] # "unset"

model_accepted(p) == converted(p, ModelFields)

required(p, f) == p[f] # "unset"
video_model_accepted(p) ==
    /\ converted(p, VideoModelFields)
    /\ required(p, "video_vae_path") /\ required(p, "audio_vae_path")

\* Fault: a reference video counts as a keyframe's companion.
references_but_video(p) ==
    /\ ~(is_set(p, Keyframes) /\ is_set(p, References \ {"reference_video"}))
    /\ ~(is_set(p, {"reference_image"}) /\ is_set(p, {"reference_video"}))
\* Keyframes exclude references, and a reference is an image or a video.
generation_rules(p) ==
    /\ ~(is_set(p, Keyframes) /\ is_set(p, References))
    /\ ~(is_set(p, {"reference_image"}) /\ is_set(p, {"reference_video"}))
generation_accepted(p) == generation_rules(p) /\ converted(p, GenerationFields)

mux_accepted(p) == converted(p, MuxFields)

\* PCM samples are not empty, and their rate is positive.
transcription_accepted(p) == converted(p, TranscriptionFields)

\* Fault: a processor is accepted without a limit.
unbounded_processor(p) == TRUE
\* A logits processor cannot abort, so it needs a limit.
processor_rule(p) == is_set(p, {"logits_processor"}) => is_set(p, {"max_tokens"})
sampling_accepted(p) == converted(p, SamplingFields) /\ processor_rule(p)

\* What is looked at before native code is called: everything, except that sampling
\* parameters are converted over the library's defaults.
accepted(c, p) ==
    CASE c \in {"text", "transcription", "embedding"} -> model_accepted(p)
      [] c = "video" -> video_model_accepted(p)
      [] c = "generate" -> generation_accepted(p)
      [] c = "mux" -> mux_accepted(p)
      [] c \in Transcribes -> transcription_accepted(p)
      [] c = "complete" -> converted(p, {"prompt"})

\* The call is over: what it owned is dropped.
End ==
    /\ pc' = "idle"
    /\ config' = NoSettings(call) /\ raw' = NoRaw(call)
    /\ settings' = 0
    /\ UNCHANGED <<abi, call, calls>>

\* Fault: mux arguments are composed without a check, no model being loaded.
unchecked_mux(c) == IF c \in Loads THEN "check" ELSE "defaults"
\* What follows the conversion; an engine's proof stands in for the check.
after_marshal(c) == IF Owner(c) = {} THEN "check" ELSE "defaults"

MarshalFails ==
    /\ pc = "marshal" /\ ~accepted(call, config)
    /\ End /\ UNCHANGED <<engines, crossed>>

Marshal ==
    /\ pc = "marshal" /\ accepted(call, config)
    /\ pc' = after_marshal(call)
    /\ UNCHANGED <<abi, call, config, raw, engines, crossed, boundVars>>

\* Compatibility::check.
CheckAbi ==
    /\ pc = "check" /\ abi
    /\ pc' = "defaults"
    /\ UNCHANGED <<abi, call, config, raw, engines, crossed, boundVars>>

AbiMismatch == pc = "check" /\ ~abi /\ End /\ UNCHANGED <<engines, crossed>>

-----------------------------------------------------------------------------
(* Defaults, overlay and the native call                                     *)

\* A setting, or the library's default where there is none.
overlaid(p, f) == IF p[f] # "unset" THEN p[f] ELSE "default"

\* Fault: no limit leaves the library's own limit in place.
default_limit(p, f) == IF f = "seed" /\ p[f] = "unset" THEN "zero" ELSE overlaid(p, f)
\* Of sampling parameters, no limit is written as 0, and no seed as 0 and a flag.
sampling_value(p, f) ==
    IF f \in {"max_tokens", "seed"} /\ p[f] = "unset" THEN "zero" ELSE overlaid(p, f)

\* The settings are laid over the defaults of the library.
Overlay ==
    /\ pc = "defaults"
    /\ crossed' = TRUE
    /\ raw' = [f \in FieldsOf(call) |-> overlaid(config, f)]
    /\ pc' = "call"
    /\ UNCHANGED <<abi, call, config, engines, boundVars>>

ApplyModelDefaults == call \in {"text", "transcription", "embedding"} /\ Overlay
ApplyVideoModelDefaults == call = "video" /\ Overlay
ApplyVideoDefaults == call = "generate" /\ Overlay
ApplyVideoMuxDefaults == call = "mux" /\ Overlay
ApplyTranscriptionDefaults == call \in Transcribes /\ Overlay

MarshalSampling ==
    /\ pc = "defaults" /\ call = "complete" /\ sampling_accepted(config)
    /\ crossed' = TRUE
    /\ raw' = [f \in FieldsOf(call) |-> sampling_value(config, f)]
    /\ pc' = "call"
    /\ UNCHANGED <<abi, call, config, engines, boundVars>>

MarshalSamplingFails ==
    /\ pc = "defaults" /\ call = "complete" /\ ~sampling_accepted(config)
    /\ crossed' = TRUE
    /\ End /\ UNCHANGED engines

add(count, e) == [count EXCEPT ![e] = @ + 1]
remove(count, e) == [count EXCEPT ![e] = @ - 1]

\* The native call fails, or a load succeeds without a handle.
NativeFails == pc = "call" /\ End /\ UNCHANGED <<engines, crossed>>

\* A load hands its handle to the engine that is returned.
NativeSucceeds ==
    /\ pc = "call" /\ End
    /\ IF call \in Loads THEN engines' = add(engines, call) ELSE UNCHANGED engines
    /\ UNCHANGED crossed

DropEngine(e) ==
    /\ pc = "idle" /\ engines[e] > 0
    /\ engines' = remove(engines, e)
    /\ UNCHANGED <<abi, pc, call, config, raw, crossed, boundVars>>

-----------------------------------------------------------------------------
Finished == pc = "idle" /\ calls = MaxCalls /\ UNCHANGED vars

Next ==
    \/ \E c \in Calls : NewBuilder(c)
    \/ Configure \/ Begin \/ Marshal \/ MarshalFails \/ CheckAbi \/ AbiMismatch
    \/ ApplyModelDefaults \/ ApplyVideoModelDefaults
    \/ ApplyVideoDefaults \/ ApplyVideoMuxDefaults \/ ApplyTranscriptionDefaults
    \/ MarshalSampling \/ MarshalSamplingFails
    \/ NativeFails \/ NativeSucceeds
    \/ \E e \in Loads : DropEngine(e)
    \/ Finished

Spec == Init /\ [][Next]_vars

-----------------------------------------------------------------------------
(* Properties                                                                *)

\* No versioned structure crosses the boundary of a library with another ABI, and no
\* engine of such a library exists, whichever of the calls comes first and whether it
\* makes the check itself or rests on an engine's.
AbiBeforeStructs == crossed \/ pc = "call" \/ (\E e \in Loads : engines[e] > 0) => abi

\* A structure that native code is given holds the library's default wherever the
\* application was silent and nothing native code does not take: signed fields are not
\* negative, strings are whole and fit, keyframes and references are not mixed, audio is
\* a file or samples with their rate.  A 0
\* means automatic in a capacity; in max_tokens it lifts the limit, which only unbounded()
\* does, and never for a processor, which could not stop the generation.
NativeContract ==
    pc = "call" =>
        /\ \A f \in FieldsOf(call) :
              /\ raw[f] \notin {"absent", "unset", "large", "nul", "long"}
              /\ raw[f] = "zero" => f \in Capacity \cup {"max_tokens", "seed"}
              /\ f \notin Setters(call) \cup GivenToNew(call) => raw[f] = "default"
        /\ call = "video" => \A f \in {"dit_path", "video_vae_path", "audio_vae_path"} :
                                raw[f] = "valid"
        /\ call = "generate" =>
              LET given == {f \in GenerationFields : raw[f] # "default"}
              IN  /\ given \cap Keyframes # {} => given \cap References = {}
                  /\ ~({"reference_image", "reference_video"} \subseteq given)
        /\ call = "complete" =>
              /\ raw["max_tokens"] = "zero" <=> config["max_tokens"] = "unset"
              /\ raw["max_tokens"] = "zero" => raw["logits_processor"] = "default"
        /\ call \in Transcribes =>
              \/ raw["wav"] # "default" /\ \A f \in PcmFields : raw[f] = "default"
              \/ raw["wav"] = "default" /\ \A f \in PcmFields : raw[f] = "valid"
=============================================================================
