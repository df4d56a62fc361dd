--------------------------- MODULE EngineLoadProofs ---------------------------
(* Proofs about EngineLoad, for any number of calls and settings.             *)
EXTENDS EngineLoad, TLAPS

-----------------------------------------------------------------------------
(* Builders only set fields of their own call, to settings                    *)

LEMMA OwnFields ==
    ASSUME NEW c \in Calls
    PROVE  /\ Setters(c) \subseteq FieldsOf(c)
           /\ GivenToNew(c) \subseteq FieldsOf(c)
           /\ Setters(c) \cap GivenToNew(c) = {}
           /\ Owner(c) \subseteq Loads
<1>1. CASE c \in {"text", "transcription", "embedding"}
  BY <1>1 DEF Transcribes, Setters, FieldsOf, GivenToNew, Owner, Loads, ModelFields, EmbeddingFields
<1>2. CASE c = "video"
  BY <1>2 DEF Transcribes, Setters, FieldsOf, GivenToNew, Owner, Loads, VideoModelFields
<1>3. CASE c = "generate"
  BY <1>3 DEF Transcribes, Setters, FieldsOf, GivenToNew, Owner, Loads, GenerationFields
<1>4. CASE c = "mux"
  BY <1>4 DEF Transcribes, Setters, FieldsOf, GivenToNew, Owner, Loads, MuxFields
<1>5. CASE c = "complete"
  BY <1>5 DEF Setters, FieldsOf, GivenToNew, Owner, Loads, SamplingFields, Transcribes
<1>6. CASE c \in Transcribes
  BY <1>6 DEF Setters, FieldsOf, GivenToNew, Owner, Loads, TranscriptionFields, PcmFields,
              Transcribes
<1>. QED  BY <1>1, <1>2, <1>3, <1>4, <1>5, <1>6 DEF Calls, Loads

LEMMA DomainsAreSettings ==
    ASSUME NEW c, NEW f
    PROVE  Domain(c, f) \subseteq Settings \ (IF c = "complete" THEN {} ELSE {"rust"})
<1>1. CASE c = "complete"
  BY <1>1 DEF Domain, Settings, Counts, Strings
<1>2. CASE c # "complete"
  BY <1>2 DEF Domain, Settings, Counts, Strings, FrameDirs
<1>. QED  BY <1>1, <1>2

\* A constructor is given values.
LEMMA GivenValues ==
    ASSUME NEW c \in Calls, NEW f \in GivenToNew(c)
    PROVE  {"unset", "rust"} \cap Domain(c, f) = {}
<1>1. CASE c = "complete"
  BY <1>1 DEF Transcribes, GivenToNew, Domain, Strings
<1>2. CASE c \in {"text", "transcription", "embedding", "video"}
  BY <1>2 DEF Transcribes, GivenToNew, Domain, Counts, Strings, FrameDirs, Capacity
<1>3. CASE c \in {"generate", "mux", "transcribe_wav", "transcribe_pcm"}
  BY <1>3 DEF Transcribes, GivenToNew, PcmFields, Domain, Counts, Strings, FrameDirs, Capacity
<1>. QED  BY <1>1, <1>2, <1>3 DEF Transcribes, Calls, Loads

-----------------------------------------------------------------------------
(* The types                                                                  *)

\* Every reachable state has the declared types: a builder only ever holds settings of
\* its own call, and no engine is dropped more often than it was loaded.
LEMMA TypeInit == Init => TypeOK
<1>. SUFFICES ASSUME Init PROVE TypeOK
  OBVIOUS
<1>1. "text" \in Calls
  BY DEF Calls, Loads
<1>2. "unset" \in Settings /\ "absent" \in RawValues
  BY DEF Settings, RawValues
<1>3. config \in [FieldsOf(call) -> Settings] /\ raw \in [FieldsOf(call) -> RawValues]
  BY <1>2 DEF Init, NoSettings, NoRaw
<1>4. engines \in [Loads -> Nat]
  BY DEF Init
<1>5. settings \in 0..MaxSettings /\ calls \in 0..MaxCalls
  BY BoundsAssumption DEF Init
<1>6. abi \in BOOLEAN /\ pc \in Steps /\ call \in Calls /\ crossed \in BOOLEAN
  BY <1>1 DEF Init, Steps
<1>. QED  BY <1>3, <1>4, <1>5, <1>6 DEF TypeOK

LEMMA TypeEnd ==
    ASSUME TypeOK, End
    PROVE  /\ abi' \in BOOLEAN /\ pc' \in Steps /\ call' \in Calls
           /\ config' \in [FieldsOf(call') -> Settings]
           /\ raw' \in [FieldsOf(call') -> RawValues]
           /\ settings' \in 0..MaxSettings /\ calls' \in 0..MaxCalls
<1>1. "unset" \in Settings /\ "absent" \in RawValues
  BY DEF Settings, RawValues
<1>2. call' = call /\ config' = NoSettings(call) /\ raw' = NoRaw(call)
  BY DEF End
<1>3. config' \in [FieldsOf(call') -> Settings] /\ raw' \in [FieldsOf(call') -> RawValues]
  BY <1>1, <1>2 DEF NoSettings, NoRaw
<1>. QED  BY <1>3, BoundsAssumption DEF End, TypeOK, Steps

LEMMA TypeStep == TypeOK /\ [Next]_vars => TypeOK'
<1>. SUFFICES ASSUME TypeOK, [Next]_vars PROVE TypeOK'
  OBVIOUS
<1>t. /\ call \in Calls /\ config \in [FieldsOf(call) -> Settings]
      /\ raw \in [FieldsOf(call) -> RawValues]
      /\ engines \in [Loads -> Nat]
      /\ settings \in 0..MaxSettings /\ calls \in 0..MaxCalls /\ abi \in BOOLEAN
      /\ crossed \in BOOLEAN /\ pc \in Steps
  BY DEF TypeOK
<1>1. ASSUME NEW c \in Calls, NewBuilder(c) PROVE TypeOK'
  <2>1. PICK given \in [GivenToNew(c) -> Settings] :
            config' = [f \in FieldsOf(c) |-> IF f \in GivenToNew(c) THEN given[f]
                                             ELSE Defaults(c)[f]]
    BY <1>1 DEF NewBuilder
  <2>2. \A f \in FieldsOf(c) : Defaults(c)[f] \in Settings
    BY DEF Defaults, Settings
  <2>4. config' \in [FieldsOf(c) -> Settings]
    BY <2>1, <2>2
  <2>5. raw' \in [FieldsOf(c) -> RawValues]
    BY <1>1 DEF NewBuilder, NoRaw, RawValues
  <2>6. calls' \in 0..MaxCalls /\ settings' \in 0..MaxSettings
    BY <1>1, <1>t, BoundsAssumption DEF NewBuilder
  <2>. QED  BY <1>1, <1>t, <2>4, <2>5, <2>6 DEF NewBuilder, TypeOK, Steps
<1>2. ASSUME Configure PROVE TypeOK'
  <2>0. PICK f \in Setters(call) : \E value \in Domain(call, f) :
            config' = [config EXCEPT ![f] = value]
    BY <1>2 DEF Configure
  <2>1. PICK value \in Domain(call, f) : config' = [config EXCEPT ![f] = value]
    BY <2>0
  <2>2. value \in Settings
    BY DomainsAreSettings
  <2>3. config' \in [FieldsOf(call) -> Settings]
    BY <1>t, <2>1, <2>2
  <2>4. settings' \in 0..MaxSettings
    BY <1>2, <1>t, BoundsAssumption DEF Configure
  <2>. QED  BY <1>2, <1>t, <2>3, <2>4 DEF Configure, TypeOK, boundVars
<1>3. ASSUME Begin \/ Marshal \/ CheckAbi PROVE TypeOK'
  <2>1. pc' \in Steps
    BY <1>3 DEF Begin, Marshal, CheckAbi, after_marshal, Steps
  <2>2. UNCHANGED <<abi, call, config, raw, engines, crossed, settings, calls>>
    BY <1>3 DEF Begin, Marshal, CheckAbi, boundVars
  <2>. QED  BY <2>1, <2>2, <1>t DEF TypeOK
<1>4. ASSUME Overlay PROVE TypeOK'
  <2>1. \A f \in FieldsOf(call) : overlaid(config, f) \in RawValues
    BY <1>t DEF overlaid, RawValues
  <2>2. raw' \in [FieldsOf(call) -> RawValues]
    BY <1>4, <2>1 DEF Overlay
  <2>. QED  BY <1>4, <1>t, <2>2 DEF Overlay, TypeOK, boundVars, Steps
<1>5. ASSUME MarshalSampling PROVE TypeOK'
  <2>1. \A f \in FieldsOf(call) : sampling_value(config, f) \in RawValues
    BY <1>t DEF sampling_value, overlaid, RawValues, Settings
  <2>2. raw' \in [FieldsOf(call) -> RawValues]
    BY <1>5, <2>1 DEF MarshalSampling
  <2>. QED  BY <1>5, <1>t, <2>2 DEF MarshalSampling, TypeOK, boundVars, Steps
<1>6. ASSUME MarshalFails \/ AbiMismatch \/ MarshalSamplingFails \/ NativeFails PROVE TypeOK'
  <2>1. End /\ UNCHANGED engines /\ (crossed' = TRUE \/ crossed' = crossed)
    BY <1>6 DEF MarshalFails, AbiMismatch, MarshalSamplingFails, NativeFails
  <2>. QED  BY <2>1, <1>t, TypeEnd DEF TypeOK
<1>7. ASSUME NativeSucceeds PROVE TypeOK'
  <2>1. End /\ crossed' = crossed
    BY <1>7 DEF NativeSucceeds
  <2>2. engines' \in [Loads -> Nat]
    BY <1>7, <1>t DEF NativeSucceeds, add
  <2>. QED  BY <2>1, <2>2, <1>t, TypeEnd DEF TypeOK
<1>8. ASSUME NEW e \in Loads, DropEngine(e) PROVE TypeOK'
  <2>1. engines' \in [Loads -> Nat]
    BY <1>8, <1>t DEF DropEngine, remove
  <2>. QED  BY <1>8, <2>1, <1>t DEF DropEngine, TypeOK, boundVars
<1>9. ASSUME UNCHANGED vars PROVE TypeOK'
  BY <1>9, <1>t DEF vars, boundVars, TypeOK
<1>. QED
  BY <1>1, <1>2, <1>3, <1>4, <1>5, <1>6, <1>7, <1>8, <1>9
     DEF Next, Finished, ApplyModelDefaults, ApplyVideoModelDefaults, ApplyVideoDefaults,
         ApplyVideoMuxDefaults, ApplyTranscriptionDefaults

\* Every reachable state has the declared types, for any number of settings and calls.
THEOREM TypeCorrect == Spec => []TypeOK
<1>. QED  BY TypeInit, TypeStep, PTL DEF Spec

-----------------------------------------------------------------------------
(* The ABI check                                                              *)

\* Engines carry the proof of the check, and a call on one keeps it alive.
AbiInv ==
    /\ \A e \in Loads : engines[e] > 0 => abi
    /\ pc \in {"build", "marshal"} => \A e \in Owner(call) : engines[e] > 0
    /\ pc \in {"defaults", "call"} \/ crossed => abi

AInv == TypeOK /\ AbiInv

LEMMA AbiStep == AInv /\ [Next]_vars => AInv'
<1>. SUFFICES ASSUME AInv, [Next]_vars PROVE AbiInv'
  BY TypeStep DEF AInv
<1>t. call \in Calls /\ engines \in [Loads -> Nat] /\ AbiInv
  BY DEF AInv, TypeOK
<1>. USE DEF AbiInv
<1>1. ASSUME NEW c \in Calls, NewBuilder(c) PROVE AbiInv'
  BY <1>1, <1>t DEF NewBuilder
<1>2. ASSUME Configure \/ Begin PROVE AbiInv'
  BY <1>2, <1>t DEF Configure, Begin, boundVars
<1>3. ASSUME Marshal PROVE AbiInv'
  <2>1. ASSUME Owner(call) # {} PROVE abi
    <3>1. PICK e \in Owner(call) : engines[e] > 0
      BY <1>3, <1>t, <2>1 DEF Marshal
    <3>. QED  BY <3>1, <1>t, OwnFields
  <2>. QED  BY <1>3, <1>t, <2>1 DEF Marshal, after_marshal, boundVars
<1>4. ASSUME CheckAbi PROVE AbiInv'
  BY <1>4, <1>t DEF CheckAbi, boundVars
<1>5. ASSUME Overlay \/ MarshalSampling PROVE AbiInv'
  BY <1>5, <1>t DEF Overlay, MarshalSampling, boundVars
<1>6. ASSUME MarshalFails \/ AbiMismatch \/ MarshalSamplingFails \/ NativeFails
      PROVE AbiInv'
  <2>1. pc' = "idle" /\ abi' = abi /\ engines' = engines
    BY <1>6 DEF MarshalFails, AbiMismatch, MarshalSamplingFails, NativeFails, End
  <2>2. crossed' = crossed \/ abi
    BY <1>6, <1>t DEF MarshalFails, AbiMismatch, MarshalSamplingFails, NativeFails
  <2>. QED  BY <2>1, <2>2, <1>t
<1>7. ASSUME NativeSucceeds PROVE AbiInv'
  BY <1>7, <1>t DEF NativeSucceeds, End
<1>8. ASSUME NEW e \in Loads, DropEngine(e) PROVE AbiInv'
  BY <1>8, <1>t DEF DropEngine, remove, boundVars
<1>9. ASSUME UNCHANGED vars PROVE AbiInv'
  BY <1>9, <1>t DEF vars, boundVars
<1>. QED
  BY <1>1, <1>2, <1>3, <1>4, <1>5, <1>6, <1>7, <1>8, <1>9
     DEF Next, Finished, ApplyModelDefaults, ApplyVideoModelDefaults, ApplyVideoDefaults,
         ApplyVideoMuxDefaults, ApplyTranscriptionDefaults

\* "Loading checks exact runtime ABI equality before any versioned struct crosses FFI":
\* for every sequence of calls, also of those that rest on an engine's check.
THEOREM AbiFirst == Spec => []AbiBeforeStructs
<1>1. Init => AInv
  BY TypeInit DEF AInv, AbiInv, Init
<1>2. AInv => AbiBeforeStructs
  BY DEF AInv, AbiInv, AbiBeforeStructs
<1>. QED  BY <1>1, <1>2, AbiStep, PTL DEF Spec

-----------------------------------------------------------------------------
(* What native code is given                                                  *)

\* A builder leaves alone what it has no setter for, its constructor's values are set,
\* and only sampling parameters have defaults of their own.
BuilderInv ==
    pc # "idle" =>
        \A f \in FieldsOf(call) :
            /\ f \notin Setters(call) \cup GivenToNew(call) => config[f] = "unset"
            /\ f \in GivenToNew(call) => config[f] # "unset"
            /\ call # "complete" => config[f] # "rust"

\* The conversion looked at the settings that are laid over the defaults.
ConvertedInv ==
    /\ pc \in {"check", "defaults", "call"} => accepted(call, config)
    /\ pc = "call" =>
          /\ call = "complete" => sampling_accepted(config)
          /\ raw = [f \in FieldsOf(call) |-> IF call = "complete" THEN sampling_value(config, f)
                                             ELSE overlaid(config, f)]

CInv == TypeOK /\ BuilderInv /\ ConvertedInv

LEMMA ConvertedStep == CInv /\ [Next]_vars => CInv'
<1>. SUFFICES ASSUME CInv, [Next]_vars PROVE BuilderInv' /\ ConvertedInv'
  BY TypeStep DEF CInv
<1>t. /\ call \in Calls /\ config \in [FieldsOf(call) -> Settings]
      /\ BuilderInv /\ ConvertedInv
  BY DEF CInv, TypeOK
<1>1. ASSUME NEW c \in Calls, NewBuilder(c) PROVE BuilderInv' /\ ConvertedInv'
  <2>1. PICK given \in [GivenToNew(c) -> Settings] :
            /\ \A f \in GivenToNew(c) : given[f] \in Domain(c, f)
            /\ config' = [f \in FieldsOf(c) |-> IF f \in GivenToNew(c) THEN given[f]
                                                ELSE Defaults(c)[f]]
    BY <1>1 DEF NewBuilder
  <2>2. \A f \in GivenToNew(c) : given[f] \notin {"unset", "rust"}
    BY <2>1, GivenValues
  <2>3. \A f \in FieldsOf(c) : /\ c # "complete" => Defaults(c)[f] = "unset"
                               /\ f \notin Setters(c) \cup GivenToNew(c) => Defaults(c)[f] = "unset"
    BY DEF Defaults, Transcribes, Setters, FieldsOf, SamplingFields
  <2>4. call' = c /\ pc' = "build"
    BY <1>1 DEF NewBuilder
  <2>. QED  BY <2>1, <2>2, <2>3, <2>4 DEF BuilderInv, ConvertedInv
<1>2. ASSUME Configure PROVE BuilderInv' /\ ConvertedInv'
  <2>0. PICK f \in Setters(call) : \E value \in Domain(call, f) :
            config' = [config EXCEPT ![f] = value]
    BY <1>2 DEF Configure
  <2>1. PICK value \in Domain(call, f) : config' = [config EXCEPT ![f] = value]
    BY <2>0
  <2>2. f \notin GivenToNew(call)
    BY <1>t, OwnFields
  <2>3. call # "complete" => value # "rust"
    BY DomainsAreSettings
  <2>4. call' = call /\ pc = "build" /\ pc' = "build"
    BY <1>2 DEF Configure
  <2>. QED  BY <1>t, <2>1, <2>2, <2>3, <2>4 DEF BuilderInv, ConvertedInv
<1>3. ASSUME Begin \/ Marshal \/ CheckAbi PROVE BuilderInv' /\ ConvertedInv'
  <2>1. call' = call /\ config' = config /\ pc # "idle" /\ pc' \notin {"idle", "call"}
    BY <1>3 DEF Begin, Marshal, CheckAbi, after_marshal
  <2>2. pc' \in {"check", "defaults", "call"} => accepted(call, config)
    BY <1>3, <1>t DEF Begin, Marshal, CheckAbi, ConvertedInv
  <2>. QED  BY <1>t, <2>1, <2>2 DEF BuilderInv, ConvertedInv
<1>4. ASSUME Overlay, call # "complete" PROVE BuilderInv' /\ ConvertedInv'
  <2>1. /\ call' = call /\ config' = config /\ pc = "defaults" /\ pc' = "call"
        /\ raw' = [f \in FieldsOf(call) |-> overlaid(config, f)]
    BY <1>4 DEF Overlay
  <2>2. BuilderInv'
    BY <1>t, <2>1 DEF BuilderInv
  <2>3. accepted(call, config)'
    BY <1>t, <2>1 DEF ConvertedInv
  <2>4. raw' = [f \in FieldsOf(call) |-> IF call = "complete" THEN sampling_value(config, f)
                                         ELSE overlaid(config, f)]
    BY <2>1, <1>4
  <2>5. (raw = [f \in FieldsOf(call) |-> IF call = "complete" THEN sampling_value(config, f)
                                         ELSE overlaid(config, f)])'
    BY <2>1, <2>4
  <2>. QED  BY <1>4, <2>1, <2>2, <2>3, <2>5 DEF ConvertedInv
<1>5. ASSUME MarshalSampling PROVE BuilderInv' /\ ConvertedInv'
  <2>1. /\ call' = call /\ config' = config /\ pc = "defaults" /\ pc' = "call"
        /\ call = "complete" /\ sampling_accepted(config)
        /\ raw' = [f \in FieldsOf(call) |-> sampling_value(config, f)]
    BY <1>5 DEF MarshalSampling
  <2>2. BuilderInv'
    BY <1>t, <2>1 DEF BuilderInv
  <2>3. accepted(call, config)' /\ sampling_accepted(config)'
    BY <1>t, <2>1 DEF ConvertedInv
  <2>4. raw' = [f \in FieldsOf(call) |-> IF call = "complete" THEN sampling_value(config, f)
                                         ELSE overlaid(config, f)]
    BY <2>1
  <2>5. (raw = [f \in FieldsOf(call) |-> IF call = "complete" THEN sampling_value(config, f)
                                         ELSE overlaid(config, f)])'
    BY <2>1, <2>4
  <2>. QED  BY <2>1, <2>2, <2>3, <2>5 DEF ConvertedInv
<1>6. ASSUME pc' = "idle" PROVE BuilderInv' /\ ConvertedInv'
  BY <1>6 DEF BuilderInv, ConvertedInv
<1>7. ASSUME UNCHANGED vars PROVE BuilderInv' /\ ConvertedInv'
  <2>1. UNCHANGED <<pc, call, config, raw>>
    BY <1>7 DEF vars
  <2>2. BuilderInv'
    BY <1>t, <2>1 DEF BuilderInv
  <2>3. ConvertedInv'
    BY <1>t, <2>1 DEF ConvertedInv
  <2>. QED  BY <2>2, <2>3
<1>8. Next => \/ \E c \in Calls : NewBuilder(c)
              \/ Configure \/ Begin \/ Marshal \/ CheckAbi
              \/ Overlay /\ call # "complete"
              \/ MarshalSampling \/ pc' = "idle" \/ UNCHANGED vars
  BY DEF Next, Finished, ApplyModelDefaults, ApplyVideoModelDefaults, ApplyVideoDefaults,
         ApplyVideoMuxDefaults, ApplyTranscriptionDefaults, Transcribes, MarshalFails,
         AbiMismatch, MarshalSamplingFails, NativeFails,
         NativeSucceeds, DropEngine, End
<1>. QED  BY <1>1, <1>2, <1>3, <1>4, <1>5, <1>6, <1>7, <1>8

LEMMA ContractHolds == CInv => NativeContract
<1>. SUFFICES ASSUME CInv, pc = "call" PROVE NativeContract
  BY DEF NativeContract
<1>t. /\ call \in Calls /\ config \in [FieldsOf(call) -> Settings]
      /\ BuilderInv /\ ConvertedInv
  BY DEF CInv, TypeOK
<1>a. accepted(call, config) /\ (call = "complete" => sampling_accepted(config))
  BY <1>t DEF ConvertedInv
<1>r. \A f \in FieldsOf(call) :
          raw[f] = IF call = "complete" THEN sampling_value(config, f) ELSE overlaid(config, f)
  BY <1>t DEF ConvertedInv
\* Every field passed the conversion.
<1>c. \A f \in FieldsOf(call) : string_accepted(f, config[f]) /\ number_accepted(f, config[f])
  BY <1>a, <1>t DEF Transcribes, accepted, sampling_accepted, model_accepted,
                    video_model_accepted, generation_accepted, mux_accepted,
                    transcription_accepted, converted, Calls, Loads, FieldsOf
<1>v. \A f \in FieldsOf(call) :
          /\ config[f] \notin {"absent", "large", "nul", "long", "default"}
          /\ config[f] = "zero" => f \in Capacity
  BY <1>c, <1>t DEF string_accepted, number_accepted, Settings
<1>1. ASSUME NEW f \in FieldsOf(call)
      PROVE  /\ raw[f] \notin {"absent", "unset", "large", "nul", "long"}
             /\ raw[f] = "zero" => f \in Capacity \cup {"max_tokens", "seed"}
             /\ f \notin Setters(call) \cup GivenToNew(call) => raw[f] = "default"
  <2>1. CASE call = "complete"
    <3>1. f \in Setters(call) \cup GivenToNew(call)
      BY <2>1 DEF Transcribes, FieldsOf, Setters, GivenToNew
    <3>2. raw[f] = IF f \in {"max_tokens", "seed"} /\ config[f] = "unset" THEN "zero"
                   ELSE IF config[f] # "unset" THEN config[f] ELSE "default"
      BY <1>r, <2>1 DEF sampling_value, overlaid
    <3>. QED  BY <3>1, <3>2, <1>v
  <2>2. CASE call # "complete"
    <3>1. raw[f] = IF config[f] # "unset" THEN config[f] ELSE "default"
      BY <1>r, <2>2 DEF overlaid
    <3>2. f \notin Setters(call) \cup GivenToNew(call) => config[f] = "unset"
      BY <1>t DEF BuilderInv
    <3>. QED  BY <3>1, <3>2, <1>v
  <2>. QED  BY <2>1, <2>2
<1>2. ASSUME call = "video", NEW f \in {"dit_path", "video_vae_path", "audio_vae_path"}
      PROVE  raw[f] = "valid"
  <2>1. f \in FieldsOf(call)
    BY <1>2 DEF Transcribes, FieldsOf, VideoModelFields, VideoPaths
  <2>2. config[f] # "unset"
    BY <1>2, <1>t, <1>a, <2>1 DEF BuilderInv, Transcribes, accepted, video_model_accepted, required, GivenToNew
  <2>3. config[f] # "rust" /\ config[f] \in Settings
    BY <1>2, <1>t, <2>1 DEF BuilderInv
  <2>4. config[f] \notin {"empty", "zero"}
    BY <1>2, <1>c, <2>1 DEF string_accepted, number_accepted, Parsers, Capacity
  <2>5. raw[f] = config[f]
    BY <1>2, <1>r, <2>1, <2>2 DEF overlaid
  <2>. QED  BY <2>1, <2>2, <2>3, <2>4, <2>5, <1>v DEF Settings
<1>3. ASSUME call = "generate"
      PROVE  LET given == {f \in GenerationFields : raw[f] # "default"}
             IN  /\ given \cap Keyframes # {} => given \cap References = {}
                 /\ ~({"reference_image", "reference_video"} \subseteq given)
  <2>1. FieldsOf(call) = GenerationFields /\ generation_rules(config)
    BY <1>3, <1>a DEF Transcribes, FieldsOf, accepted, generation_accepted
  <2>2. \A f \in GenerationFields : raw[f] # "default" => config[f] # "unset"
    BY <1>3, <1>r, <2>1 DEF overlaid
  <2>. QED  BY <2>1, <2>2 DEF generation_rules, is_set, Keyframes, References, GenerationFields
<1>4. ASSUME call = "complete"
      PROVE  /\ raw["max_tokens"] = "zero" <=> config["max_tokens"] = "unset"
             /\ raw["max_tokens"] = "zero" => raw["logits_processor"] = "default"
  <2>1. {"max_tokens", "logits_processor"} \subseteq FieldsOf(call)
    BY <1>4 DEF Transcribes, FieldsOf, SamplingFields
  <2>2. config["max_tokens"] # "zero"
    BY <1>v, <2>1 DEF Capacity
  <2>3. raw["max_tokens"] = "zero" <=> config["max_tokens"] = "unset"
    BY <1>4, <1>r, <2>1, <2>2 DEF sampling_value, overlaid
  <2>4. config["max_tokens"] = "unset" => config["logits_processor"] = "unset"
    BY <1>4, <1>a DEF sampling_accepted, processor_rule, is_set
  <2>5. config["logits_processor"] = "unset" => raw["logits_processor"] = "default"
    BY <1>4, <1>r, <2>1 DEF sampling_value, overlaid
  <2>. QED  BY <2>3, <2>4, <2>5
<1>5. ASSUME call \in Transcribes
      PROVE  \/ raw["wav"] # "default" /\ \A f \in PcmFields : raw[f] = "default"
             \/ raw["wav"] = "default" /\ \A f \in PcmFields : raw[f] = "valid"
  <2>1. FieldsOf(call) = {"wav", "pcm", "sample_rate"} /\ Setters(call) = {}
    BY <1>5 DEF Transcribes, FieldsOf, Setters, TranscriptionFields, PcmFields
  <2>2. \A f \in FieldsOf(call) : /\ raw[f] = overlaid(config, f)
                                  /\ config[f] \in Settings /\ config[f] # "rust"
    BY <1>5, <1>r, <1>t DEF Transcribes, BuilderInv
  <2>3. \A f \in FieldsOf(call) : config[f] = "unset" <=> f \notin GivenToNew(call)
    BY <1>t, <2>1 DEF BuilderInv
  <2>4. \A f \in PcmFields : config[f] # "unset" => raw[f] = "valid"
    <3>1. ASSUME NEW f \in PcmFields, config[f] # "unset" PROVE raw[f] = "valid"
      <4>1. f \in FieldsOf(call) /\ f \in {"pcm", "sample_rate"}
        BY <2>1 DEF PcmFields
      <4>2. config[f] \notin {"empty", "zero"}
        BY <1>c, <4>1 DEF string_accepted, number_accepted, Parsers, Capacity
      <4>. QED  BY <1>v, <2>2, <3>1, <4>1, <4>2 DEF Settings, overlaid
    <3>. QED  BY <3>1
  <2>5. CASE call = "transcribe_wav"
    <3>1. GivenToNew(call) = {"wav"}
      BY <2>5 DEF GivenToNew, Transcribes
    <3>2. config["wav"] # "unset" /\ \A f \in PcmFields : config[f] = "unset"
      BY <2>1, <2>3, <3>1 DEF PcmFields
    <3>. QED  BY <1>v, <2>1, <2>2, <3>2 DEF overlaid, PcmFields
  <2>6. CASE call = "transcribe_pcm"
    <3>1. GivenToNew(call) = PcmFields
      BY <2>6 DEF GivenToNew, Transcribes
    <3>2. config["wav"] = "unset" /\ \A f \in PcmFields : config[f] # "unset"
      BY <2>1, <2>3, <3>1 DEF PcmFields
    <3>. QED  BY <2>1, <2>2, <2>4, <3>2 DEF overlaid
  <2>. QED  BY <1>5, <2>5, <2>6 DEF Transcribes
<1>. QED  BY <1>1, <1>2, <1>3, <1>4, <1>5 DEF NativeContract

\* Whatever setters are called, in whatever order, native code is given only structures
\* it takes, with its own defaults where the application was silent.
THEOREM ContractKept == Spec => []NativeContract
<1>1. Init => CInv
  BY TypeInit DEF CInv, BuilderInv, ConvertedInv, Init
<1>. QED  BY <1>1, ConvertedStep, ContractHolds, PTL DEF Spec
=============================================================================
