------------------------------ MODULE BuildPlan ------------------------------
(***************************************************************************)
(* The build script of vllm-cpp-sys: build.rs, src/build_config.rs and      *)
(* src/build_support.rs.                                                    *)
(*                                                                          *)
(* The script reads Cargo features, the target and the environment, turns   *)
(* down what is not supported, builds the native library or finds one, and  *)
(* prints the directives that make rustc link it.  CMake, the file system   *)
(* and the linker are external: CMake leaves any layout of libraries, and    *)
(* the linker looks through the search directories in the order in which    *)
(* they were printed and resolves symbols from left to right.               *)
(*                                                                          *)
(* Paths are abstracted to the directories a library can lie in, and values *)
(* of the environment to what the script tells apart.  "vllm" is the        *)
(* artifact of the chosen link mode, shared or static.                      *)
(***************************************************************************)
EXTENDS Naturals, Sequences, FiniteSets, Functions

CONSTANTS
    Inputs,  \* what the script is run with, a subset of InputSpace
    None     \* no directory

Features == {"bundled", "system", "dynamic-link", "cuda", "cuda-cutlass",
             "triton-aot", "vulkan", "metal", "mlx"}
Backends == Features \ {"bundled", "system", "dynamic-link"}
Targets == {"linux", "apple_arm64", "other"}
\* CUDA_ARCHITECTURES; CUTLASS has kernels for the tuned ones.
CUDA_ARCHITECTURES == {"tuned", "portable"}
Sanitizers == {"address", "undefined", "address,undefined", "thread"}
\* A directory variable: unset, without what it must hold, or complete.  A CUTLASS
\* checkout can also be complete and older than 4.5.0.
Roots == {"unset", "bad", "old", "ok"}

InputSpace ==
    [features: SUBSET Features, target: Targets,
     cuda_architectures: CUDA_ARCHITECTURES \cup {"unset", "unsupported"},
     cutlass_dir: Roots, mlx_root: Roots \ {"old"},
     sanitizer: Sanitizers \cup {"unset", "OFF", "unsupported", "not UTF-8"}]

\* Standard library directories, then the ones of VLLM_CPP_LIB_DIR and
\* VLLM_CPP_BLAKE3_LIB_DIR, two of CMake's build tree, and two of CUDA.
LIB_DIR_CANDIDATES == <<"lib64", "lib">>
SystemDirs == {"lib64", "lib", "override", "archive"}
BuildDirs == {"build", "build/blake3"}
CudaDirs == {"toolkit", "stubs"}
Dirs == SystemDirs \cup BuildDirs \cup CudaDirs
Artifacts == {"vllm", "blake3_vendored"}
CudaComponents == {"cudart", "cublasLt", "cuda"}
Libraries == Artifacts \cup CudaComponents

\* Directives and requirements: a search directory, or a library of a kind.
Search(d) == [print |-> "search", name |-> d]
Link(kind, lib) == [print |-> kind, name |-> lib]

ASSUME InputsAssumption == Inputs \subseteq InputSpace
ASSUME NamesAssumption == None \notin Dirs

VARIABLES
    pc,         \* the step of main that comes next
    inputs,     \* features, target and environment
    sanitizer,  \* the sanitizers to link runtimes of
    native,     \* what CMake compiled into the library, if it ran
    disk,       \* the libraries in each directory
    aliased,    \* lib64 and lib hold one and the same file
    chosen,     \* the directory each library was chosen from
    todo,       \* link requirements not emitted yet
    emitted,    \* the directives printed
    failure     \* why the script panicked

vars == <<pc, inputs, sanitizer, native, disk, aliased, chosen, todo, emitted, failure>>

Steps == {"plan", "sanitizer", "root", "build", "locate", "link", "cache", "emit",
          "done", "skipped", "failed"}
Failures == {"none", "config", "root", "source", "cmake", "library", "archive", "cache",
             "cuda"}
Built == [components: SUBSET Backends, sanitizers: SUBSET {"address", "undefined", "thread"}]
Directives ==
    [print: {"search"}, name: Dirs \cup {"mlx/lib"}] \cup
    [print: {"dylib", "framework", "static", "static:+whole-archive"},
     name: Libraries \cup {"stdc++", "pthread", "dl", "c++", "Metal", "Foundation", "mlx",
                           "asan", "ubsan", "tsan"}]
Requirements == Directives \cup [print: {"CudaToolkit"}, name: CudaComponents]

TypeOK ==
    /\ pc \in Steps
    /\ inputs \in InputSpace
    /\ sanitizer \in SUBSET {"address", "undefined", "thread"}
    /\ native \in SUBSET Built
    /\ disk \in [Dirs -> SUBSET Libraries]
    /\ aliased \in BOOLEAN
    /\ chosen \in [Libraries -> Dirs \cup {None}]
    /\ todo \in Seq(Requirements)
    /\ emitted \in Seq(Directives)
    /\ failure \in Failures

Init ==
    /\ pc = "plan"
    /\ inputs \in Inputs
    /\ sanitizer = {}
    /\ native = {}
    /\ disk = [d \in Dirs |-> {}]
    /\ aliased = FALSE
    /\ chosen = [lib \in Libraries |-> None]
    /\ todo = <<>>
    /\ emitted = <<>>
    /\ failure = "none"

-----------------------------------------------------------------------------
(* build_config::plan                                                        *)

Has(i, feature) == feature \in i.features
has_backend(i) == i.features \cap Backends # {}

validate_source_mode(i) ==
    /\ Has(i, "bundled") # Has(i, "system")
    /\ Has(i, "system") => ~has_backend(i)

validate_feature_implications(i) ==
    /\ Has(i, "cuda-cutlass") \/ Has(i, "triton-aot") => Has(i, "cuda")
    /\ Has(i, "mlx") => Has(i, "metal")
    /\ ~(Has(i, "cuda") /\ Has(i, "vulkan"))

validate_targets(i) ==
    /\ i.target # "other"
    /\ Has(i, "cuda") \/ Has(i, "vulkan") => i.target = "linux"
    /\ Has(i, "metal") \/ Has(i, "mlx") => i.target = "apple_arm64"

validate_cuda(i) ==
    IF Has(i, "cuda") THEN i.cuda_architectures \in CUDA_ARCHITECTURES
    ELSE i.cuda_architectures = "unset"

\* Without the feature VLLM_CPP_CUTLASS_DIR is not looked at.
validate_cutlass(i) ==
    Has(i, "cuda-cutlass") => i.cutlass_dir = "ok" /\ i.cuda_architectures # "portable"

validate_mlx(i) == i.mlx_root = IF Has(i, "mlx") THEN "ok" ELSE "unset"

\* A value that is not UTF-8 counts as unset here.
planned_sanitizer(i) == IF i.sanitizer \in {"unset", "not UTF-8"} THEN "OFF" ELSE i.sanitizer

plan_accepts(i) ==
    /\ validate_source_mode(i) /\ validate_feature_implications(i) /\ validate_targets(i)
    /\ validate_cuda(i) /\ validate_cutlass(i) /\ validate_mlx(i)
    /\ Has(i, "cuda") => planned_sanitizer(i) = "OFF"

\* split(',') of a value that was accepted.
names(value) ==
    IF value = "address,undefined" THEN {"address", "undefined"} ELSE {value} \cap Sanitizers

\* What the CMake definitions switch on.  Without its feature CUTLASS is pointed at a
\* directory that does not exist.
cmake_defines(i) ==
    [components |-> i.features \cap Backends, sanitizers |-> names(planned_sanitizer(i))]

platform_link_requirements(i) ==
    IF Has(i, "dynamic-link") THEN <<>>
    ELSE IF i.target = "linux"
    THEN <<Link("dylib", "stdc++"), Link("dylib", "pthread"), Link("dylib", "dl")>>
    ELSE <<Link("dylib", "c++")>>
         \o (IF Has(i, "metal")
             THEN <<Link("framework", "Metal"), Link("framework", "Foundation")>> ELSE <<>>)

cuda_link_requirements(i) ==
    IF ~Has(i, "cuda") \/ Has(i, "dynamic-link") THEN <<>>
    ELSE <<Link("CudaToolkit", "cudart"), Link("CudaToolkit", "cublasLt")>>
         \o (IF Has(i, "triton-aot") THEN <<Link("CudaToolkit", "cuda")>> ELSE <<>>)

mlx_link_requirements(i) ==
    IF ~Has(i, "mlx") \/ Has(i, "dynamic-link") THEN <<>>
    ELSE <<Search("mlx/lib"), Link("dylib", "mlx")>>

\* Fault: the driver is linked for CUTLASS in place of the Triton kernels.
driver_for_cutlass(i) ==
    platform_link_requirements(i)
    \o SelectSeq(cuda_link_requirements(i), LAMBDA r : r.name # "cuda")
    \o (IF Has(i, "cuda-cutlass") /\ ~Has(i, "dynamic-link")
        THEN <<Link("CudaToolkit", "cuda")>> ELSE <<>>)
    \o mlx_link_requirements(i)
link_requirements(i) ==
    platform_link_requirements(i) \o cuda_link_requirements(i) \o mlx_link_requirements(i)

-----------------------------------------------------------------------------
(* main: configuration                                                       *)

Fail(why) ==
    /\ pc' = "failed"
    /\ failure' = why
    /\ UNCHANGED <<sanitizer, native, disk, aliased, chosen, todo, emitted>>

Go(step) == pc' = step /\ UNCHANGED failure

\* On docs.rs nothing is built or linked.
SkipForDocs ==
    /\ pc = "plan"
    /\ Go("skipped")
    /\ UNCHANGED <<sanitizer, native, disk, aliased, chosen, todo, emitted>>

Plan ==
    /\ pc = "plan"
    /\ \/ ~plan_accepts(inputs) /\ Fail("config")
       \/ /\ plan_accepts(inputs)
          /\ Go("sanitizer")
          /\ UNCHANGED <<sanitizer, native, disk, aliased, chosen, todo, emitted>>

\* Fault: whatever the plan took for OFF is left alone.
follow_plan(i) ==
    \/ planned_sanitizer(i) = "OFF"
    \/ i.sanitizer \in Sanitizers /\ Has(i, "bundled")
\* What sanitizer_config lets through.  It reads the variable once more.
sanitizer_accepted(i) ==
    \/ i.sanitizer \in {"unset", "OFF"}
    \/ i.sanitizer \in Sanitizers /\ Has(i, "bundled")

sanitizer_config ==
    /\ pc = "sanitizer"
    /\ \/ ~sanitizer_accepted(inputs) /\ Fail("config")
       \/ /\ sanitizer_accepted(inputs)
          /\ sanitizer' = names(inputs.sanitizer)
          /\ Go(IF Has(inputs, "system") THEN "root" ELSE "build")
          /\ UNCHANGED <<native, disk, aliased, chosen, todo, emitted>>

-----------------------------------------------------------------------------
(* The native library                                                        *)

\* Libraries in the standard directories, which may be links to one file.
Standard(d, alias) == alias => d["lib64"] = d["lib"] /\ "vllm" \in d["lib"]

\* CMake installs vllm; its build tree holds the archives, vllm's among them.
Installed == {d \in [SystemDirs \cup BuildDirs -> SUBSET Artifacts] :
                  /\ d["lib64"] \cup d["lib"] \subseteq {"vllm"}
                  /\ d["override"] = {} /\ d["archive"] = {}
                  /\ "vllm" \notin d["build"]}
\* System libraries, provisioned anywhere.
Provisioned == {d \in [SystemDirs \cup BuildDirs -> SUBSET Artifacts] :
                    \A b \in BuildDirs : d[b] = {}}

\* The CUDA directories hold any of CUDA's libraries.  What is in them makes no difference
\* where none is linked.
CudaLayouts ==
    IF Has(inputs, "cuda") /\ ~Has(inputs, "dynamic-link")
    THEN [CudaDirs -> SUBSET CudaComponents] ELSE {[c \in CudaDirs |-> {}]}

Layout(layouts) ==
    \E d \in layouts, cuda \in CudaLayouts, alias \in BOOLEAN :
        /\ Standard(d, alias)
        /\ disk' = [e \in Dirs |-> IF e \in CudaDirs THEN cuda[e] ELSE d[e]]
        /\ aliased' = alias

\* The source is checked out, CMake configures, builds and installs.
BuildNative ==
    /\ pc = "build"
    /\ native' = {cmake_defines(inputs)}
    /\ Layout(Installed)
    /\ Go("locate")
    /\ UNCHANGED <<sanitizer, chosen, todo, emitted>>

BuildFails == pc = "build" /\ (Fail("source") \/ Fail("cmake"))

\* VLLM_CPP_ROOT is set and has the header.
ValidateSystemRoot ==
    /\ pc = "root"
    /\ Layout(Provisioned)
    /\ Go("locate")
    /\ UNCHANGED <<sanitizer, native, chosen, todo, emitted>>

RootFails == pc = "root" /\ Fail("root")

\* The positions of the candidates that hold the library.
candidates(lib) == {k \in DOMAIN LIB_DIR_CANDIDATES : lib \in disk[LIB_DIR_CANDIDATES[k]]}
IsFirst(k, S) == \A j \in S : k <= j

\* Fault: the first directory that has the library is taken.
first_match(lib) ==
    {LIB_DIR_CANDIDATES[k] : k \in {k \in candidates(lib) : IsFirst(k, candidates(lib))}}
\* The one standard directory that holds the library; a second link to one file is left
\* out of the matches.
find_installed_library_dir(lib) ==
    LET matches == {k \in candidates(lib) : aliased => IsFirst(k, candidates(lib))}
    IN  {LIB_DIR_CANDIDATES[k] : k \in {k \in matches : matches = {k}}}

\* VLLM_CPP_LIB_DIR, if it is set, or the standard directories.
system_library_dir(override) ==
    IF ~override THEN find_installed_library_dir("vllm")
    ELSE IF "vllm" \in disk["override"] THEN {"override"} ELSE {}

Locate ==
    /\ pc = "locate"
    /\ \E override \in IF Has(inputs, "system") THEN BOOLEAN ELSE {FALSE} :
           \/ system_library_dir(override) = {} /\ Fail("library")
           \/ \E d \in system_library_dir(override) :
                  /\ chosen' = [chosen EXCEPT !["vllm"] = d]
                  /\ Go("link")
                  /\ UNCHANGED <<sanitizer, native, disk, aliased, todo, emitted>>

\* After the library: requirements are next, for a bundled build once the cache is there.
Linked(directives) ==
    /\ emitted' = emitted \o directives
    /\ IF Has(inputs, "bundled") THEN Go("cache") /\ UNCHANGED todo
       ELSE Go("emit") /\ todo' = link_requirements(inputs)
    /\ UNCHANGED <<sanitizer, native, disk, aliased>>

LinkDynamic ==
    /\ pc = "link" /\ Has(inputs, "dynamic-link")
    /\ Linked(<<Search(chosen["vllm"]), Link("dylib", "vllm")>>)
    /\ UNCHANGED chosen

StaticLibraries == <<Link("static:+whole-archive", "vllm"), Link("static", "blake3_vendored")>>

\* Fault: as for a system library, the archive's directory comes first.
archive_first(dir, archive) == <<Search(archive), Search(dir)>>
bundled_search(dir, archive) == <<Search(dir), Search(archive)>>

\* find_unique_file: exactly one archive in the build tree.
LinkBundledStatic ==
    /\ pc = "link" /\ Has(inputs, "bundled") /\ ~Has(inputs, "dynamic-link")
    /\ LET found == {d \in BuildDirs : "blake3_vendored" \in disk[d]}
       IN  \/ Cardinality(found) # 1 /\ Fail("archive")
           \/ \E d \in found :
                  /\ Cardinality(found) = 1
                  /\ chosen' = [chosen EXCEPT !["blake3_vendored"] = d]
                  /\ Linked(bundled_search(chosen["vllm"], d) \o StaticLibraries)

\* VLLM_CPP_BLAKE3_LIB_DIR, or the directory of vllm.
LinkSystemStatic ==
    /\ pc = "link" /\ Has(inputs, "system") /\ ~Has(inputs, "dynamic-link")
    /\ \E d \in {"archive", chosen["vllm"]} :
           \/ "blake3_vendored" \notin disk[d] /\ Fail("archive")
           \/ /\ "blake3_vendored" \in disk[d]
              /\ chosen' = [chosen EXCEPT !["blake3_vendored"] = d]
              /\ Linked((IF d = chosen["vllm"] THEN <<Search(d)>>
                         ELSE <<Search(d), Search(chosen["vllm"])>>) \o StaticLibraries)

CheckCache ==
    /\ pc = "cache"
    /\ \/ Fail("cache")
       \/ /\ Go("emit")
          /\ todo' = link_requirements(inputs)
          /\ UNCHANGED <<sanitizer, native, disk, aliased, chosen, emitted>>

-----------------------------------------------------------------------------
(* Link requirements and sanitizer runtimes                                  *)

\* What one entry of the CMake cache can hold.
CacheValues == {"", "NOTFOUND", "relative"} \cup CudaDirs
\* The entries of a component's key, as a set of positions and values.
CacheEntries == UNION {[1..n -> CacheValues] : n \in 0..2}
\* Exactly one entry, an absolute path.
cmake_cache_path(entries) == IF Len(entries) # 1 THEN {} ELSE {entries[1]} \cap CudaDirs

EmitRequirement ==
    /\ pc = "emit" /\ todo # <<>> /\ Head(todo).print # "CudaToolkit"
    /\ emitted' = Append(emitted, Head(todo))
    /\ todo' = Tail(todo)
    /\ UNCHANGED <<pc, sanitizer, native, disk, aliased, chosen, failure>>

\* link_cuda_component: CMake's result for the component, if the file is there.
LinkCudaComponent ==
    /\ pc = "emit" /\ todo # <<>> /\ Head(todo).print = "CudaToolkit"
    /\ \E entries \in CacheEntries :
           LET found == {d \in cmake_cache_path(entries) : Head(todo).name \in disk[d]}
           IN
           \/ (~Has(inputs, "bundled") \/ found = {}) /\ Fail("cuda")
           \/ \E d \in found :
                  /\ Has(inputs, "bundled")
                  /\ emitted' = emitted \o <<Search(d), Link("dylib", Head(todo).name)>>
                  /\ chosen' = [chosen EXCEPT ![Head(todo).name] = d]
                  /\ todo' = Tail(todo)
                  /\ UNCHANGED <<pc, sanitizer, native, disk, aliased, failure>>

Runtime(requested, name, lib) == IF name \in requested THEN <<Link("dylib", lib)>> ELSE <<>>

\* Fault: the whole value is compared with one name.
one_name(requested) ==
    IF requested = {"address"} THEN <<Link("dylib", "asan")>>
    ELSE IF requested = {"undefined"} THEN <<Link("dylib", "ubsan")>>
    ELSE IF requested = {"thread"} THEN <<Link("dylib", "tsan")>> ELSE <<>>
link_sanitizer_runtimes(requested) ==
    Runtime(requested, "address", "asan") \o Runtime(requested, "undefined", "ubsan")
    \o Runtime(requested, "thread", "tsan")

LinkSanitizers ==
    /\ pc = "emit" /\ todo = <<>>
    /\ emitted' = emitted \o link_sanitizer_runtimes(sanitizer)
    /\ Go("done")
    /\ UNCHANGED <<sanitizer, native, disk, aliased, chosen, todo>>

-----------------------------------------------------------------------------
Finished == pc \in {"done", "skipped", "failed"} /\ UNCHANGED vars

main ==
    \/ SkipForDocs \/ Plan \/ sanitizer_config
    \/ BuildNative \/ BuildFails \/ ValidateSystemRoot \/ RootFails \/ Locate
    \/ LinkDynamic \/ LinkBundledStatic \/ LinkSystemStatic \/ CheckCache
    \/ EmitRequirement \/ LinkCudaComponent
    \/ LinkSanitizers

Next == (main /\ UNCHANGED inputs) \/ Finished

Spec == Init /\ [][Next]_vars

-----------------------------------------------------------------------------
(* Properties                                                                *)

\* The directives that link a library, and those that add a directory, by position.
LinksOf(lib) == {k \in 1..Len(emitted) : emitted[k].print # "search" /\ emitted[k].name = lib}
SearchesOf(dirs) == {k \in 1..Len(emitted) : emitted[k].print = "search" /\ emitted[k].name \in dirs}

\* The directories that hold a library.  The linker takes the first of those it is told to
\* search; is that the one the script chose?
Holding(lib) == {d \in Dirs : lib \in disk[d]}
LinkedFromChosen(lib) ==
    \E k \in SearchesOf({chosen[lib]}) : \A j \in SearchesOf(Holding(lib)) : k <= j

RuntimeOf == [address |-> "asan", undefined |-> "ubsan", thread |-> "tsan"]

\* What a static vllm refers to: its archive, the platform's libraries, and those of
\* everything that was compiled into it.
Needed ==
    {"blake3_vendored"}
    \cup (IF inputs.target = "linux" THEN {"stdc++", "pthread", "dl"} ELSE {"c++"})
    \cup UNION {   (IF "cuda" \in b.components THEN {"cudart", "cublasLt"} ELSE {})
              \cup (IF "triton-aot" \in b.components THEN {"cuda"} ELSE {})
              \cup (IF "metal" \in b.components THEN {"Metal", "Foundation"} ELSE {})
              \cup (IF "mlx" \in b.components THEN {"mlx"} ELSE {})
              \cup {RuntimeOf[s] : s \in b.sanitizers} : b \in native}

\* A script that succeeds links everything that what it built refers to.  The CMake
\* definitions and the link requirements are two lists made apart from each other; the
\* linker resolves symbols from left to right, so each library follows vllm.  A shared
\* vllm brings its own dependencies.
LinkIsComplete ==
    pc = "done" =>
        \E v \in LinksOf("vllm") :
            IF Has(inputs, "dynamic-link")
            THEN \A k \in 1..Len(emitted) :
                     emitted[k].print # "search" /\ k # v => emitted[k].name \in Range(RuntimeOf)
            ELSE \A lib \in Needed : \E k \in LinksOf(lib) : k > v

\* The directory of a system archive is searched first: a vllm in it is linked, whichever
\* was chosen.
Shadowed == chosen["blake3_vendored"] = "archive" /\ "vllm" \in disk["archive"]

\* vllm and its archive are linked from the directories they were chosen from: no directory
\* that is searched earlier holds another one, such as the copy of vllm in CMake's build
\* tree, and no second installed vllm was passed over in silence.  The one exception is a
\* vllm that VLLM_CPP_BLAKE3_LIB_DIR holds besides the archive.  Nothing of the kind is true
\* of the CUDA libraries: the directory printed for one may hold another of the next one.
LinkedAsChosen ==
    pc = "done" =>
        /\ ~Shadowed => LinkedFromChosen("vllm")
        /\ LinksOf("blake3_vendored") # {} => LinkedFromChosen("blake3_vendored")
        /\ chosen["vllm"] # "override" =>
               \A d \in Range(LIB_DIR_CANDIDATES) :
                   "vllm" \in disk[d] => d = chosen["vllm"] \/ aliased

\* VLLM_CPP_SANITIZE is read twice, by rules of their own.  What the library is compiled
\* with and the runtimes that are linked agree, a system library is never given any, and
\* no native build is started for a value that is then turned down.
SanitizersAgree ==
    /\ native # {} => failure # "config" /\ inputs.sanitizer \in Sanitizers \cup {"unset", "OFF"}
    /\ pc = "done" =>
           {s \in DOMAIN RuntimeOf : LinksOf(RuntimeOf[s]) # {}} = UNION {b.sanitizers : b \in native}
=============================================================================
