--------------------------- MODULE BuildPlanProofs ---------------------------
(***************************************************************************)
(* Proofs about BuildPlan, for any set of inputs, any layout of libraries   *)
(* and any cache that CMake leaves.                                         *)
(*                                                                          *)
(* BuildInv follows the script: the configuration that was accepted, the    *)
(* directories that were chosen, and the directives printed so far together *)
(* with the requirements that are still to come.                            *)
(***************************************************************************)
EXTENDS BuildPlan, Integers, FiniteSetTheorems, SequenceTheorems, TLAPS

\* The names of the libraries a list links, and of the directories it adds.
Names(s) == {s[k].name : k \in {k \in 1..Len(s) : s[k].print # "search"}}
Searched(s) == {s[k].name : k \in {k \in 1..Len(s) : s[k].print = "search"}}

\* Everything that a plan can require.
Asked ==
    {Link("dylib", "stdc++"), Link("dylib", "pthread"), Link("dylib", "dl"),
     Link("dylib", "c++"), Link("framework", "Metal"), Link("framework", "Foundation"),
     Link("CudaToolkit", "cudart"), Link("CudaToolkit", "cublasLt"),
     Link("CudaToolkit", "cuda"), Search("mlx/lib"), Link("dylib", "mlx")}

RuntimeNames == {"asan", "ubsan", "tsan"}
ArchiveDirs == {"lib64", "lib"}

\* The steps from a configuration that was accepted, from a library that is there, from
\* one that was chosen, and from directives that link it.
Accepted == Steps \ {"plan", "skipped", "failed"}
Planned == Accepted \ {"sanitizer"}
Located == Planned \ {"root", "build"}
Selected == Located \ {"locate"}
Linking == Selected \ {"link"}
Emitting == Linking \ {"cache"}

Bundled == Has(inputs, "bundled")
Dynamic == Has(inputs, "dynamic-link")

\* The configuration: what was validated, and what CMake was given.
ConfigInv ==
    /\ pc \in Accepted => plan_accepts(inputs)
    /\ pc \in Planned => sanitizer_accepted(inputs) /\ sanitizer = names(inputs.sanitizer)
    /\ pc = "root" => ~Bundled
    /\ pc \in {"build", "cache"} => Bundled
    /\ pc # "failed" => native = IF Bundled /\ pc \in Located THEN {cmake_defines(inputs)} ELSE {}
    /\ pc # "failed" => failure = "none"
    /\ native # {} => failure # "config" /\ sanitizer_accepted(inputs)

\* The chosen vllm is there, and no other one in a standard directory.
LibraryChosen ==
    /\ chosen["vllm"] \in ArchiveDirs \cup (IF Bundled THEN {} ELSE {"override"})
    /\ "vllm" \in disk[chosen["vllm"]]
    /\ chosen["vllm"] # "override" =>
           \A d \in ArchiveDirs : "vllm" \in disk[d] => (d = chosen["vllm"] \/ aliased)

\* So is the chosen archive, and in CMake's build tree it is the only one.
ArchiveChosen ==
    /\ "blake3_vendored" \in disk[chosen["blake3_vendored"]]
    /\ IF Bundled
       THEN /\ chosen["blake3_vendored"] \in BuildDirs
            /\ \A d \in BuildDirs : "blake3_vendored" \in disk[d] => d = chosen["blake3_vendored"]
       ELSE chosen["blake3_vendored"] \in {"archive", chosen["vllm"]}

\* CMake installs no archive next to vllm.
InstalledAlone == \A d \in ArchiveDirs : "blake3_vendored" \notin disk[d]

\* The libraries: where they are, and the directories they were chosen from.
ChoiceInv ==
    /\ pc \in Located /\ Bundled => InstalledAlone
    /\ pc \in Selected => LibraryChosen
    /\ pc \in Linking /\ ~Dynamic => ArchiveChosen

\* The directives that link a vllm in dir, and its archive, come first.
OpeningOf(i, dir, archive) ==
    IF Has(i, "dynamic-link") THEN <<Search(dir), Link("dylib", "vllm")>>
    ELSE (IF Has(i, "bundled") THEN <<Search(dir), Search(archive)>>
          ELSE IF archive = dir THEN <<Search(dir)>>
          ELSE <<Search(archive), Search(dir)>>) \o StaticLibraries
Opening == OpeningOf(inputs, chosen["vllm"], chosen["blake3_vendored"])

Opened ==
    /\ Len(Opening) <= Len(emitted)
    /\ \A k \in 1..Len(Opening) : emitted[k] = Opening[k]
    /\ Dynamic => \A k \in 1..Len(emitted) :
           k > Len(Opening) => emitted[k].print # "search" /\ emitted[k].name \in RuntimeNames

\* The directives: what is printed or still to come.
EmitInv ==
    /\ pc \notin Emitting \cup {"failed"} => todo = <<>>
    /\ pc \notin Linking \cup {"failed"} => emitted = <<>>
    /\ pc \in Linking => Opened
    /\ todo \in Seq(Asked)
    /\ pc \in Emitting => Names(link_requirements(inputs)) \subseteq Names(todo) \cup Names(emitted)
    /\ pc \in Emitting /\ Dynamic => todo = <<>>
    /\ pc = "done" => todo = <<>>
    /\ pc \in Linking =>
           Names(emitted) \cap RuntimeNames =
               IF pc = "done" THEN {RuntimeOf[s] : s \in sanitizer} ELSE {}

BuildInv == TypeOK /\ ConfigInv /\ ChoiceInv /\ EmitInv

-----------------------------------------------------------------------------
(* Lists of directives                                                       *)

LEMMA NamesOfConcat ==
    ASSUME NEW s \in Seq(Requirements), NEW t \in Seq(Requirements)
    PROVE  /\ Names(s \o t) = Names(s) \cup Names(t)
           /\ Searched(s \o t) = Searched(s) \cup Searched(t)
<1>1. /\ Len(s) \in Nat /\ Len(t) \in Nat /\ Len(s \o t) = Len(s) + Len(t)
      /\ \A k \in 1..Len(s) : (s \o t)[k] = s[k]
      /\ \A k \in 1..Len(t) : (s \o t)[Len(s) + k] = t[k]
  OBVIOUS
<1>2. ASSUME NEW k \in 1..Len(s \o t)
      PROVE  \/ k \in 1..Len(s) /\ (s \o t)[k] = s[k]
             \/ \E j \in 1..Len(t) : (s \o t)[k] = t[j]
  <2>1. CASE k <= Len(s)
    BY <1>1, <2>1
  <2>2. CASE k > Len(s)
    <3>1. k - Len(s) \in 1..Len(t) /\ Len(s) + (k - Len(s)) = k
      BY <1>1, <2>2
    <3>. QED  BY <1>1, <3>1
  <2>. QED  BY <1>1, <2>1, <2>2
<1>3. ASSUME NEW k \in 1..Len(s) PROVE k \in 1..Len(s \o t)
  BY <1>1
<1>4. ASSUME NEW k \in 1..Len(t) PROVE Len(s) + k \in 1..Len(s \o t)
  BY <1>1
<1>. DEFINE u == s \o t
<1>. HIDE DEF u
<1>5. /\ \A k \in 1..Len(u) : \/ k \in 1..Len(s) /\ u[k] = s[k]
                              \/ \E j \in 1..Len(t) : u[k] = t[j]
      /\ \A k \in 1..Len(s) : k \in 1..Len(u) /\ u[k] = s[k]
      /\ \A k \in 1..Len(t) : Len(s) + k \in 1..Len(u) /\ u[Len(s) + k] = t[k]
  BY <1>1, <1>2, <1>3, <1>4 DEF u
<1>6. Names(u) = Names(s) \cup Names(t)
  <2>1. ASSUME NEW k \in 1..Len(u), u[k].print # "search"
        PROVE  u[k].name \in Names(s) \cup Names(t)
    BY <1>5, <2>1 DEF Names
  <2>2. Names(s) \subseteq Names(u)
    BY <1>5 DEF Names
  <2>3. Names(t) \subseteq Names(u)
    BY <1>5 DEF Names
  <2>4. Names(u) \subseteq Names(s) \cup Names(t)
    BY <2>1 DEF Names
  <2>. QED  BY <2>2, <2>3, <2>4
<1>7. Searched(u) = Searched(s) \cup Searched(t)
  <2>1. ASSUME NEW k \in 1..Len(u), u[k].print = "search"
        PROVE  u[k].name \in Searched(s) \cup Searched(t)
    BY <1>5, <2>1 DEF Searched
  <2>2. Searched(s) \subseteq Searched(u)
    BY <1>5 DEF Searched
  <2>3. Searched(t) \subseteq Searched(u)
    BY <1>5 DEF Searched
  <2>4. Searched(u) \subseteq Searched(s) \cup Searched(t)
    BY <2>1 DEF Searched
  <2>. QED  BY <2>2, <2>3, <2>4
<1>. QED  BY <1>6, <1>7 DEF u

LEMMA NamesOfOne ==
    ASSUME NEW e \in Requirements
    PROVE  /\ <<e>> \in Seq(Requirements)
           /\ Names(<<e>>) = IF e.print # "search" THEN {e.name} ELSE {}
           /\ Searched(<<e>>) = IF e.print = "search" THEN {e.name} ELSE {}
<1>1. Len(<<e>>) = 1 /\ <<e>>[1] = e /\ 1..1 = {1}
  OBVIOUS
<1>. DEFINE s == <<e>>
<1>. HIDE DEF s
<1>2. 1..Len(s) = {1} /\ s[1] = e
  BY <1>1 DEF s
<1>3. Names(s) = IF e.print # "search" THEN {e.name} ELSE {}
  BY <1>2 DEF Names
<1>4. Searched(s) = IF e.print = "search" THEN {e.name} ELSE {}
  BY <1>2 DEF Searched
<1>. QED  BY <1>3, <1>4 DEF s

LEMMA NamesOfNone == Names(<<>>) = {} /\ Searched(<<>>) = {}
  BY DEF Names, Searched

LEMMA NamesOfTwo ==
    ASSUME NEW e \in Requirements, NEW f \in Requirements
    PROVE  /\ <<e, f>> \in Seq(Requirements)
           /\ Names(<<e, f>>) = Names(<<e>>) \cup Names(<<f>>)
           /\ Searched(<<e, f>>) = Searched(<<e>>) \cup Searched(<<f>>)
<1>. DEFINE S == Requirements
<1>. HIDE DEF S
<1>1. <<e>> \in Seq(S) /\ <<f>> \in Seq(S) /\ <<e, f>> \in Seq(S)
  BY DEF S
<1>2. <<e, f>> = <<e>> \o <<f>>
  <2>. DEFINE u == <<e>> \o <<f>>
              w == <<e, f>>
  <2>1. w \in Seq(S) /\ Len(w) = 2 /\ w[1] = e /\ w[2] = f
    BY <1>1
  <2>2. Len(<<e>>) = 1 /\ Len(<<f>>) = 1 /\ <<e>>[1] = e /\ <<f>>[1] = f
    OBVIOUS
  <2>3. u \in Seq(S) /\ Len(u) = 2 /\ u[1] = e /\ u[2] = f
    BY <1>1, <2>2, ConcatProperties
  <2>. HIDE DEF u, w
  <2>4. \A k \in 1..Len(u) : w[k] = u[k]
    BY <2>1, <2>3
  <2>5. w = u
    BY <2>1, <2>3, <2>4, SeqEqual
  <2>. QED  BY <2>5 DEF u, w
<1>. QED  BY <1>1, <1>2, NamesOfConcat DEF S

\* A list is its head and its tail.
LEMMA NamesOfTail ==
    ASSUME NEW s \in Seq(Requirements), s # <<>>
    PROVE  /\ Head(s) \in Requirements
           /\ Names(s) = Names(<<Head(s)>>) \cup Names(Tail(s))
<1>1. /\ Head(s) \in Requirements /\ Tail(s) \in Seq(Requirements)
      /\ <<Head(s)>> \in Seq(Requirements)
  OBVIOUS
<1>2. s = <<Head(s)>> \o Tail(s)
  OBVIOUS
<1>. QED  BY <1>1, <1>2, NamesOfConcat

\* The positions the properties speak of are those of the names.
LEMMA Positions ==
    ASSUME NEW lib
    PROVE  LinksOf(lib) # {} <=> lib \in Names(emitted)
BY DEF LinksOf, Names

\* A list of three.
LEMMA NamesOfThree ==
    ASSUME NEW e \in Requirements, NEW f \in Requirements, NEW g \in Requirements
    PROVE  Names(<<e, f, g>>) = Names(<<e>>) \cup Names(<<f>>) \cup Names(<<g>>)
<1>. DEFINE s == <<e, f, g>>
<1>1. 1..Len(s) = {1, 2, 3} /\ s[1] = e /\ s[2] = f /\ s[3] = g
  OBVIOUS
<1>. HIDE DEF s
<1>2. Names(s) = {r.name : r \in {r \in {e, f, g} : r.print # "search"}}
  BY <1>1 DEF Names
<1>. HIDE DEF Requirements
<1>3. Names(s) = Names(<<e>>) \cup Names(<<f>>) \cup Names(<<g>>)
  BY <1>2, NamesOfOne
<1>. QED  BY <1>3 DEF s

-----------------------------------------------------------------------------
(* What a plan requires                                                      *)

LEMMA AskedTypes == Asked \subseteq Requirements /\ Seq(Asked) \subseteq Seq(Requirements)
<1>1. Asked \subseteq Requirements
  BY DEF Asked, Requirements, Directives, Search, Link, Libraries, CudaComponents
<1>. QED  BY <1>1, SeqMonotonic

\* The libraries a static vllm is linked with, by the features of the plan.
PlatformNames(i) ==
    IF i.target = "linux" THEN {"stdc++", "pthread", "dl"}
    ELSE {"c++"} \cup (IF Has(i, "metal") THEN {"Metal", "Foundation"} ELSE {})
CudaLinked(i) ==
    IF Has(i, "cuda")
    THEN {"cudart", "cublasLt"} \cup (IF Has(i, "triton-aot") THEN {"cuda"} ELSE {}) ELSE {}
MlxLinked(i) == IF Has(i, "mlx") THEN {"mlx"} ELSE {}

LEMMA PlatformRequires ==
    ASSUME NEW i \in InputSpace, ~Has(i, "dynamic-link")
    PROVE  /\ platform_link_requirements(i) \in Seq(Asked)
           /\ Names(platform_link_requirements(i)) = PlatformNames(i)
<1>. DEFINE a == Link("dylib", "stdc++")  b == Link("dylib", "pthread")
            c == Link("dylib", "dl")  d == Link("dylib", "c++")
            m == Link("framework", "Metal")  f == Link("framework", "Foundation")
<1>1. /\ {a, b, c, d, m, f} \subseteq Asked
      /\ a.name = "stdc++" /\ b.name = "pthread" /\ c.name = "dl" /\ d.name = "c++"
      /\ m.name = "Metal" /\ f.name = "Foundation"
      /\ \A r \in {a, b, c, d, m, f} : r.print # "search"
  BY DEF Asked, Link
<1>2. platform_link_requirements(i) =
          IF i.target = "linux" THEN <<a, b, c>>
          ELSE <<d>> \o (IF Has(i, "metal") THEN <<m, f>> ELSE <<>>)
  BY DEF platform_link_requirements
<1>. HIDE DEF a, b, c, d, m, f
<1>3. {a, b, c, d, m, f} \subseteq Requirements
  BY <1>1, AskedTypes
<1>4. /\ Names(<<a>>) = {"stdc++"} /\ Names(<<b>>) = {"pthread"} /\ Names(<<c>>) = {"dl"}
      /\ Names(<<d>>) = {"c++"} /\ Names(<<m>>) = {"Metal"} /\ Names(<<f>>) = {"Foundation"}
  BY <1>1, <1>3, NamesOfOne
<1>. DEFINE p == platform_link_requirements(i)
<1>5. CASE i.target = "linux"
  <2>1. <<a, b, c>> \in Seq(Asked)
    BY <1>1
  <2>2. Names(<<a, b, c>>) = {"stdc++", "pthread", "dl"}
    BY <1>3, <1>4, NamesOfThree
  <2>3. p = <<a, b, c>>
    BY <1>2, <1>5, Zenon
  <2>. QED  BY <1>5, <2>1, <2>2, <2>3, Zenon DEF PlatformNames
<1>6. CASE i.target # "linux" /\ Has(i, "metal")
  <2>1. <<d>> \in Seq(Asked) /\ <<m, f>> \in Seq(Asked)
    BY <1>1
  <2>2. Names(<<m, f>>) = {"Metal", "Foundation"}
    BY <1>3, <1>4, NamesOfTwo
  <2>3. p = <<d>> \o <<m, f>>
    BY <1>2, <1>6, Zenon
  <2>4. <<d>> \o <<m, f>> \in Seq(Asked)
    BY <2>1, ConcatProperties
  <2>5. Names(<<d>> \o <<m, f>>) = {"c++"} \cup {"Metal", "Foundation"}
    BY <1>4, <2>1, <2>2, AskedTypes, NamesOfConcat
  <2>. QED  BY <1>6, <2>3, <2>4, <2>5, Zenon DEF PlatformNames
<1>7. CASE i.target # "linux" /\ ~Has(i, "metal")
  <2>1. <<d>> \in Seq(Asked)
    BY <1>1
  <2>2. p = <<d>> \o <<>>
    BY <1>2, <1>7, Zenon
  <2>3. p = <<d>>
    BY <2>1, <2>2, ConcatEmptySeq
  <2>4. PlatformNames(i) = {"c++"}
    BY <1>7 DEF PlatformNames
  <2>. QED  BY <1>4, <2>1, <2>3, <2>4, Zenon
<1>. QED  BY <1>5, <1>6, <1>7

LEMMA CudaRequires ==
    ASSUME NEW i \in InputSpace, ~Has(i, "dynamic-link")
    PROVE  /\ cuda_link_requirements(i) \in Seq(Asked)
           /\ Names(cuda_link_requirements(i)) = CudaLinked(i)
<1>. DEFINE a == Link("CudaToolkit", "cudart")  b == Link("CudaToolkit", "cublasLt")
            c == Link("CudaToolkit", "cuda")
<1>1. /\ {a, b, c} \subseteq Asked
      /\ a.name = "cudart" /\ b.name = "cublasLt" /\ c.name = "cuda"
      /\ \A r \in {a, b, c} : r.print # "search"
  BY DEF Asked, Link
<1>2. cuda_link_requirements(i) =
          IF ~Has(i, "cuda") THEN <<>>
          ELSE <<a, b>> \o (IF Has(i, "triton-aot") THEN <<c>> ELSE <<>>)
  BY DEF cuda_link_requirements
<1>. HIDE DEF a, b, c
<1>3. {a, b, c} \subseteq Requirements
  BY <1>1, AskedTypes
<1>4. /\ Names(<<a>>) = {"cudart"} /\ Names(<<b>>) = {"cublasLt"} /\ Names(<<c>>) = {"cuda"}
  BY <1>1, <1>3, NamesOfOne
<1>5. /\ <<a, b>> \in Seq(Asked) /\ <<c>> \in Seq(Asked)
      /\ Names(<<a, b>>) = {"cudart", "cublasLt"}
  <2>1. <<a, b>> \in Seq(Asked) /\ <<c>> \in Seq(Asked)
    BY <1>1
  <2>. QED  BY <1>3, <1>4, <2>1, NamesOfTwo
<1>. DEFINE p == cuda_link_requirements(i)
<1>6. CASE ~Has(i, "cuda")
  <2>1. p = <<>> /\ CudaLinked(i) = {}
    BY <1>2, <1>6 DEF CudaLinked
  <2>2. <<>> \in Seq(Asked)
    OBVIOUS
  <2>. QED  BY <2>1, <2>2, NamesOfNone, Zenon
<1>7. CASE Has(i, "cuda") /\ Has(i, "triton-aot")
  <2>1. p = <<a, b>> \o <<c>>
    BY <1>2, <1>7, Zenon
  <2>2. <<a, b>> \o <<c>> \in Seq(Asked)
    BY <1>5, ConcatProperties
  <2>3. Names(<<a, b>> \o <<c>>) = {"cudart", "cublasLt"} \cup {"cuda"}
    BY <1>4, <1>5, AskedTypes, NamesOfConcat
  <2>. QED  BY <1>7, <2>1, <2>2, <2>3, Zenon DEF CudaLinked
<1>8. CASE Has(i, "cuda") /\ ~Has(i, "triton-aot")
  <2>1. p = <<a, b>> \o <<>>
    BY <1>2, <1>8, Zenon
  <2>2. p = <<a, b>>
    BY <1>5, <2>1, ConcatEmptySeq
  <2>3. CudaLinked(i) = {"cudart", "cublasLt"}
    BY <1>8 DEF CudaLinked
  <2>. QED  BY <1>5, <2>2, <2>3, Zenon
<1>. QED  BY <1>6, <1>7, <1>8

\* MLX, which no shared vllm is linked with.
LEMMA MlxRequires ==
    ASSUME NEW i \in InputSpace, ~Has(i, "dynamic-link")
    PROVE  /\ mlx_link_requirements(i) \in Seq(Asked)
           /\ Names(mlx_link_requirements(i)) = MlxLinked(i)
<1>. DEFINE a == Search("mlx/lib")  b == Link("dylib", "mlx")
<1>1. /\ {a, b} \subseteq Asked
      /\ a.print = "search" /\ b.print # "search" /\ b.name = "mlx"
  BY DEF Asked, Link, Search
<1>2. mlx_link_requirements(i) = IF Has(i, "mlx") THEN <<a, b>> ELSE <<>>
  BY DEF mlx_link_requirements
<1>. HIDE DEF a, b
<1>3. {a, b} \subseteq Requirements
  BY <1>1, AskedTypes
<1>4. Names(<<a>>) = {} /\ Names(<<b>>) = {"mlx"}
  BY <1>1, <1>3, NamesOfOne
<1>. DEFINE p == mlx_link_requirements(i)
<1>5. CASE Has(i, "mlx")
  <2>1. p = <<a, b>>
    BY <1>2, <1>5, Zenon
  <2>2. <<a, b>> \in Seq(Asked)
    BY <1>1
  <2>3. Names(<<a, b>>) = {"mlx"}
    BY <1>3, <1>4, NamesOfTwo
  <2>4. MlxLinked(i) = {"mlx"}
    BY <1>5 DEF MlxLinked
  <2>. QED  BY <2>1, <2>2, <2>3, <2>4, Zenon
<1>6. CASE ~Has(i, "mlx")
  <2>1. p = <<>> /\ MlxLinked(i) = {}
    BY <1>2, <1>6 DEF MlxLinked
  <2>2. <<>> \in Seq(Asked)
    OBVIOUS
  <2>. QED  BY <2>1, <2>2, NamesOfNone, Zenon
<1>. QED  BY <1>5, <1>6

\* The requirements of a plan (build_config.rs, plan).
LEMMA PlanRequires ==
    ASSUME NEW i \in InputSpace
    PROVE  /\ link_requirements(i) \in Seq(Asked)
           /\ Has(i, "dynamic-link") => link_requirements(i) = <<>>
           /\ ~Has(i, "dynamic-link") =>
                  Names(link_requirements(i)) = PlatformNames(i) \cup CudaLinked(i) \cup MlxLinked(i)
<1>. DEFINE p == platform_link_requirements(i)
            c == cuda_link_requirements(i)
            m == mlx_link_requirements(i)
<1>0. link_requirements(i) = (p \o c) \o m
  BY DEF link_requirements
<1>1. CASE Has(i, "dynamic-link")
  <2>1. p = <<>> /\ c = <<>> /\ m = <<>>
    BY <1>1 DEF platform_link_requirements, cuda_link_requirements, mlx_link_requirements
  <2>2. <<>> \in Seq(Asked) /\ Len(<<>>) = 0 /\ (<<>> \o <<>>) \o <<>> = <<>>
    OBVIOUS
  <2>3. link_requirements(i) = <<>>
    BY <1>0, <2>1, <2>2, Zenon
  <2>. QED  BY <1>1, <2>2, <2>3
<1>2. CASE ~Has(i, "dynamic-link")
  <2>1. p \in Seq(Asked) /\ c \in Seq(Asked) /\ m \in Seq(Asked)
    BY <1>2, PlatformRequires, CudaRequires, MlxRequires
  <2>2. p \o c \in Seq(Asked) /\ link_requirements(i) \in Seq(Asked)
    BY <1>0, <2>1, ConcatProperties
  <2>3. Names(link_requirements(i)) = Names(p) \cup Names(c) \cup Names(m)
    <3>1. Names(p \o c) = Names(p) \cup Names(c)
      BY <2>1, AskedTypes, NamesOfConcat
    <3>2. Names((p \o c) \o m) = Names(p \o c) \cup Names(m)
      BY <2>1, <2>2, AskedTypes, NamesOfConcat
    <3>. QED  BY <1>0, <3>1, <3>2, Zenon
  <2>4. Names(p) = PlatformNames(i) /\ Names(c) = CudaLinked(i) /\ Names(m) = MlxLinked(i)
    BY <1>2, PlatformRequires, CudaRequires, MlxRequires
  <2>. QED  BY <1>2, <2>2, <2>3, <2>4
<1>. QED  BY <1>1, <1>2

-----------------------------------------------------------------------------
(* Types and configuration                                                   *)

\* What CMake is given, and what is read of the sanitizers.
LEMMA DefinesTypes ==
    ASSUME NEW i \in InputSpace
    PROVE  cmake_defines(i) \in Built /\ names(i.sanitizer) \subseteq {"address", "undefined", "thread"}
<1>1. ASSUME NEW value PROVE names(value) \subseteq {"address", "undefined", "thread"}
  BY DEF names, Sanitizers
<1>2. i.features \cap Backends \in SUBSET Backends
  OBVIOUS
<1>. QED  BY <1>1, <1>2 DEF cmake_defines, Built

LEMMA LayoutTypes ==
    ASSUME NEW layouts \in {Installed, Provisioned}, Layout(layouts)
    PROVE  /\ disk' \in [Dirs -> SUBSET Libraries] /\ aliased' \in BOOLEAN
           /\ layouts = Installed => InstalledAlone'
<1>1. PICK d \in layouts, cuda \in CudaLayouts :
          disk' = [e \in Dirs |-> IF e \in CudaDirs THEN cuda[e] ELSE d[e]]
  BY DEF Layout
<1>2. aliased' \in BOOLEAN
  BY DEF Layout
<1>3. d \in [SystemDirs \cup BuildDirs -> SUBSET Artifacts]
  BY DEF Installed, Provisioned
<1>4. cuda \in [CudaDirs -> SUBSET CudaComponents]
  BY DEF CudaLayouts
<1>5. ASSUME NEW e \in Dirs
      PROVE  (IF e \in CudaDirs THEN cuda[e] ELSE d[e]) \in SUBSET Libraries
  <2>1. CASE e \in CudaDirs
    BY <1>4, <2>1 DEF Libraries
  <2>2. CASE e \notin CudaDirs
    <3>1. e \in SystemDirs \cup BuildDirs
      BY <2>2 DEF Dirs
    <3>2. d[e] \in SUBSET Artifacts
      BY <1>3, <3>1
    <3>. QED  BY <2>2, <3>2 DEF Libraries
  <2>. QED  BY <2>1, <2>2
<1>6. disk' \in [Dirs -> SUBSET Libraries]
  BY <1>1, <1>5
<1>7. ASSUME layouts = Installed, NEW e \in ArchiveDirs PROVE "blake3_vendored" \notin disk'[e]
  <2>1. e \in Dirs /\ e \notin CudaDirs
    BY DEF ArchiveDirs, Dirs, SystemDirs, CudaDirs
  <2>2. d["lib64"] \cup d["lib"] \subseteq {"vllm"}
    BY <1>7 DEF Installed
  <2>3. disk'[e] = d[e] /\ d[e] \subseteq {"vllm"}
    BY <1>1, <2>1, <2>2 DEF ArchiveDirs
  <2>. QED  BY <2>3
<1>. QED  BY <1>2, <1>6, <1>7 DEF InstalledAlone

\* A list of directives stays one when some are added.
LEMMA EmittedTypes ==
    ASSUME NEW e \in Directives, NEW f \in Directives, NEW s \in Seq(Directives)
    PROVE  /\ <<e>> \in Seq(Directives) /\ <<e, f>> \in Seq(Directives)
           /\ Append(s, e) \in Seq(Directives) /\ Append(s, e) = s \o <<e>>
           /\ s \o <<e, f>> \in Seq(Directives)
<1>. DEFINE S == Directives
<1>. HIDE DEF S
<1>1. <<e>> \in Seq(S) /\ <<e, f>> \in Seq(S) /\ Append(s, e) \in Seq(S)
  BY DEF S
<1>2. s \o <<e, f>> \in Seq(S) /\ s \o <<e>> \in Seq(S)
  BY <1>1, ConcatProperties DEF S
<1>3. Append(s, e) = s \o <<e>>
  BY DEF S
<1>. QED  BY <1>1, <1>2, <1>3 DEF S

LEMMA DirectiveTypes ==
    /\ \A d \in Dirs : Search(d) \in Directives
    /\ \A kind \in {"dylib", "framework", "static", "static:+whole-archive"},
          lib \in Libraries \cup {"stdc++", "pthread", "dl", "c++", "Metal", "Foundation"}
                    \cup RuntimeNames :
           Link(kind, lib) \in Directives
    /\ Directives \subseteq Requirements /\ Seq(Directives) \subseteq Seq(Requirements)
    /\ StaticLibraries \in Seq(Directives)
<1>1. /\ \A d \in Dirs : Search(d) \in Directives
      /\ \A kind \in {"dylib", "framework", "static", "static:+whole-archive"},
            lib \in Libraries \cup {"stdc++", "pthread", "dl", "c++", "Metal", "Foundation"}
                      \cup RuntimeNames :
             Link(kind, lib) \in Directives
  BY DEF Search, Link, Directives, RuntimeNames
<1>2. Directives \subseteq Requirements
  BY DEF Requirements
<1>3. StaticLibraries \in Seq(Directives)
  <2>1. /\ Link("static:+whole-archive", "vllm") \in Directives
        /\ Link("static", "blake3_vendored") \in Directives
    BY <1>1 DEF Libraries, Artifacts
  <2>. QED  BY <2>1, EmittedTypes DEF StaticLibraries
<1>. QED  BY <1>1, <1>2, <1>3, SeqMonotonic

LEMMA RuntimeTypes ==
    ASSUME NEW requested
    PROVE  /\ link_sanitizer_runtimes(requested) \in Seq(Directives)
           /\ Names(link_sanitizer_runtimes(requested)) =
                  {RuntimeOf[s] : s \in requested \cap {"address", "undefined", "thread"}}
           /\ Searched(link_sanitizer_runtimes(requested)) = {}
<1>1. ASSUME NEW name, NEW lib \in RuntimeNames
      PROVE  /\ Runtime(requested, name, lib) \in Seq(Directives)
             /\ Names(Runtime(requested, name, lib)) = IF name \in requested THEN {lib} ELSE {}
             /\ Searched(Runtime(requested, name, lib)) = {}
  <2>1. /\ Link("dylib", lib) \in Directives /\ Link("dylib", lib) \in Requirements
        /\ Link("dylib", lib).print # "search" /\ Link("dylib", lib).name = lib
    BY DirectiveTypes DEF Link
  <2>. DEFINE e == Link("dylib", lib)
  <2>. HIDE DEF e
  <2>2. <<e>> \in Seq(Directives) /\ <<>> \in Seq(Directives)
    BY <2>1, EmittedTypes DEF e
  <2>3. Names(<<e>>) = {lib} /\ Searched(<<e>>) = {}
    BY <2>1, NamesOfOne DEF e
  <2>4. CASE name \in requested
    <3>1. Runtime(requested, name, lib) = <<e>>
      BY <2>4 DEF Runtime, e
    <3>. QED  BY <2>2, <2>3, <2>4, <3>1, Zenon
  <2>5. CASE name \notin requested
    <3>1. Runtime(requested, name, lib) = <<>>
      BY <2>5 DEF Runtime
    <3>. QED  BY <2>2, <2>5, <3>1, NamesOfNone, Zenon
  <2>. QED  BY <2>4, <2>5
<1>. DEFINE a == Runtime(requested, "address", "asan")
            u == Runtime(requested, "undefined", "ubsan")
            t == Runtime(requested, "thread", "tsan")
<1>2. /\ a \in Seq(Directives) /\ u \in Seq(Directives) /\ t \in Seq(Directives)
      /\ Names(a) = (IF "address" \in requested THEN {"asan"} ELSE {}) /\ Searched(a) = {}
      /\ Names(u) = (IF "undefined" \in requested THEN {"ubsan"} ELSE {}) /\ Searched(u) = {}
      /\ Names(t) = (IF "thread" \in requested THEN {"tsan"} ELSE {}) /\ Searched(t) = {}
  BY <1>1 DEF RuntimeNames
<1>3. link_sanitizer_runtimes(requested) = (a \o u) \o t
  BY DEF link_sanitizer_runtimes
<1>. HIDE DEF a, u, t
<1>4. a \o u \in Seq(Directives) /\ (a \o u) \o t \in Seq(Directives)
  BY <1>2, ConcatProperties
<1>5. /\ Names(a \o u) = Names(a) \cup Names(u) /\ Searched(a \o u) = {}
      /\ Names((a \o u) \o t) = Names(a \o u) \cup Names(t) /\ Searched((a \o u) \o t) = {}
  <2>1. /\ a \in Seq(Requirements) /\ u \in Seq(Requirements) /\ t \in Seq(Requirements)
        /\ a \o u \in Seq(Requirements)
    BY <1>2, <1>4, DirectiveTypes
  <2>2. Names(a \o u) = Names(a) \cup Names(u) /\ Searched(a \o u) = Searched(a) \cup Searched(u)
    BY <2>1, NamesOfConcat
  <2>3. /\ Names((a \o u) \o t) = Names(a \o u) \cup Names(t)
        /\ Searched((a \o u) \o t) = Searched(a \o u) \cup Searched(t)
    BY <2>1, NamesOfConcat
  <2>. QED  BY <1>2, <2>2, <2>3
<1>6. Names(a) \cup Names(u) \cup Names(t) =
          {RuntimeOf[s] : s \in requested \cap {"address", "undefined", "thread"}}
  BY <1>2 DEF RuntimeOf
<1>. QED  BY <1>3, <1>4, <1>5, <1>6, Zenon

LEMMA ChosenTypes ==
    ASSUME TypeOK
    PROVE  \A lib \in Libraries, d \in Dirs : [chosen EXCEPT ![lib] = d] \in [Libraries -> Dirs \cup {None}]
  BY DEF TypeOK

\* A path in CMake's cache is one of a toolkit.
LEMMA CachePaths == \A entries : cmake_cache_path(entries) \subseteq CudaDirs
  BY DEF cmake_cache_path

\* The library found is in a standard directory, and in one only, links to it aside
\* (build_support.rs, find_installed_library_dir).
LEMMA FoundInstalled ==
    ASSUME NEW d \in find_installed_library_dir("vllm")
    PROVE  /\ d \in ArchiveDirs /\ "vllm" \in disk[d]
           /\ \A e \in ArchiveDirs : "vllm" \in disk[e] => (e = d \/ aliased)
<1>. DEFINE L == LIB_DIR_CANDIDATES
<1>1. DOMAIN L = {1, 2} /\ L[1] = "lib64" /\ L[2] = "lib"
  BY DEF LIB_DIR_CANDIDATES
<1>. HIDE DEF L
<1>. DEFINE found == candidates("vllm")
            matches == {k \in found : aliased => IsFirst(k, found)}
<1>2. found = {k \in {1, 2} : "vllm" \in disk[L[k]]}
  BY <1>1 DEF candidates, L
<1>3. PICK k \in matches : matches = {k} /\ d = L[k]
  BY DEF find_installed_library_dir, L
<1>4. k \in found /\ k \in {1, 2}
  BY <1>2, <1>3
<1>5. ASSUME NEW e \in ArchiveDirs, "vllm" \in disk[e], e # d PROVE aliased
  <2>1. PICK j \in {1, 2} : e = L[j]
    BY <1>1, <1>5 DEF ArchiveDirs
  <2>2. j \in found /\ j # k
    BY <1>2, <1>3, <1>5, <2>1
  <2>. QED  BY <1>3, <2>2
<1>. HIDE DEF matches
<1>. QED  BY <1>1, <1>2, <1>3, <1>4, <1>5 DEF ArchiveDirs

LEMMA FoundDirs ==
    \A override : system_library_dir(override) \subseteq ArchiveDirs \cup {"override"}
  BY FoundInstalled DEF system_library_dir

LEMMA TypeInit == Init => TypeOK
<1>1. ASSUME Init PROVE TypeOK
  <2>1. <<>> \in Seq(Requirements) /\ <<>> \in Seq(Directives)
    OBVIOUS
  <2>2. chosen \in [Libraries -> Dirs \cup {None}]
    BY <1>1 DEF Init
  <2>3. disk \in [Dirs -> SUBSET Libraries]
    BY <1>1 DEF Init
  <2>4. inputs \in InputSpace
    BY <1>1, InputsAssumption DEF Init
  <2>5. /\ pc \in Steps /\ sanitizer \in SUBSET {"address", "undefined", "thread"}
        /\ native \in SUBSET Built /\ aliased \in BOOLEAN /\ failure \in Failures
        /\ todo = <<>> /\ emitted = <<>>
    BY <1>1 DEF Init, Steps, Failures
  <2>. QED  BY <2>1, <2>2, <2>3, <2>4, <2>5, Zenon DEF TypeOK
<1>. QED  BY <1>1

LEMMA TypeStep ==
    ASSUME TypeOK, ChoiceInv, EmitInv, [Next]_vars
    PROVE  TypeOK'
<1>0. /\ inputs \in InputSpace /\ todo \in Seq(Requirements) /\ emitted \in Seq(Directives)
  BY DEF TypeOK
<1>. DEFINE Quiet == UNCHANGED <<inputs, sanitizer, native, disk, aliased, chosen, todo, emitted>>
            Outcome == pc' \in Steps /\ failure' \in Failures
<1>1. ASSUME NEW why \in Failures, Fail(why), UNCHANGED inputs PROVE Outcome /\ Quiet
  BY <1>1 DEF Fail, Steps
<1>2. ASSUME Outcome, Quiet PROVE TypeOK'
  BY <1>2 DEF TypeOK
<1>3. ASSUME NEW step \in Steps, Go(step) PROVE Outcome
  BY <1>3 DEF Go, TypeOK
<1>4. CASE Finished
  BY <1>4 DEF Finished, vars, TypeOK
<1>5. CASE UNCHANGED vars
  BY <1>5 DEF vars, TypeOK
<1>. HIDE DEF Quiet, Outcome
<1>steps. /\ {"sanitizer", "root", "build", "locate", "link", "cache", "emit", "done", "skipped"}
                 \subseteq Steps
          /\ {"config", "root", "source", "cmake", "library", "archive", "cache", "cuda"} \subseteq Failures
  BY DEF Steps, Failures
<1>6. ASSUME main, UNCHANGED inputs PROVE TypeOK'
  <2>1. CASE SkipForDocs
    <3>1. Outcome
      BY <1>3, <1>steps, <2>1 DEF SkipForDocs
    <3>. QED  BY <1>2, <1>6, <2>1, <3>1 DEF SkipForDocs, Quiet
  <2>2. CASE Plan
    <3>1. CASE Fail("config")
      BY <1>1, <1>2, <1>6, <1>steps, <3>1
    <3>2. CASE ~Fail("config")
      <4>1. Outcome
        BY <1>3, <1>steps, <2>2, <3>2 DEF Plan
      <4>. QED  BY <1>2, <1>6, <2>2, <3>2, <4>1 DEF Plan, Quiet
    <3>. QED  BY <3>1, <3>2
  <2>3. CASE sanitizer_config
    <3>1. CASE Fail("config")
      BY <1>1, <1>2, <1>6, <1>steps, <3>1
    <3>2. CASE ~Fail("config")
      <4>1. Outcome
        BY <1>3, <1>steps, <2>3, <3>2 DEF sanitizer_config
      <4>2. sanitizer' \in SUBSET {"address", "undefined", "thread"}
        BY <1>0, <2>3, <3>2, DefinesTypes DEF sanitizer_config
      <4>. QED  BY <1>6, <2>3, <3>2, <4>1, <4>2 DEF sanitizer_config, Outcome, TypeOK
    <3>. QED  BY <3>1, <3>2
  <2>4. CASE BuildNative
    <3>1. Outcome
      BY <1>3, <1>steps, <2>4 DEF BuildNative
    <3>2. native' \in SUBSET Built
      BY <1>0, <2>4, DefinesTypes DEF BuildNative
    <3>3. disk' \in [Dirs -> SUBSET Libraries] /\ aliased' \in BOOLEAN
      BY <2>4, LayoutTypes DEF BuildNative
    <3>4. UNCHANGED <<inputs, sanitizer, chosen, todo, emitted>>
      BY <1>6, <2>4 DEF BuildNative
    <3>. QED  BY <3>1, <3>2, <3>3, <3>4 DEF Outcome, TypeOK
  <2>5. CASE BuildFails
    BY <1>1, <1>2, <1>6, <1>steps, <2>5 DEF BuildFails
  <2>6. CASE ValidateSystemRoot
    <3>1. Outcome
      BY <1>3, <1>steps, <2>6 DEF ValidateSystemRoot
    <3>2. disk' \in [Dirs -> SUBSET Libraries] /\ aliased' \in BOOLEAN
      BY <2>6, LayoutTypes DEF ValidateSystemRoot
    <3>3. UNCHANGED <<inputs, sanitizer, native, chosen, todo, emitted>>
      BY <1>6, <2>6 DEF ValidateSystemRoot
    <3>. QED  BY <3>1, <3>2, <3>3 DEF Outcome, TypeOK
  <2>7. CASE RootFails
    BY <1>1, <1>2, <1>6, <1>steps, <2>7 DEF RootFails
  <2>8. CASE Locate
    <3>1. CASE Fail("library")
      BY <1>1, <1>2, <1>6, <1>steps, <3>1
    <3>2. CASE ~Fail("library")
      <4>1. Outcome
        BY <1>3, <1>steps, <2>8, <3>2 DEF Locate
      <4>2. PICK d \in ArchiveDirs \cup {"override"} :
                /\ chosen' = [chosen EXCEPT !["vllm"] = d]
                /\ UNCHANGED <<sanitizer, native, disk, aliased, todo, emitted>>
        BY <2>8, <3>2, FoundDirs DEF Locate
      <4>3. d \in Dirs /\ "vllm" \in Libraries
        BY <4>2 DEF Dirs, SystemDirs, ArchiveDirs, Libraries, Artifacts
      <4>4. chosen' \in [Libraries -> Dirs \cup {None}]
        BY <4>2, <4>3, ChosenTypes
      <4>. QED  BY <1>6, <4>1, <4>2, <4>4 DEF Outcome, TypeOK
    <3>. QED  BY <3>1, <3>2
  <2>9. ASSUME NEW directives \in Seq(Directives), Linked(directives),
               chosen' \in [Libraries -> Dirs \cup {None}]
        PROVE  TypeOK'
    <3>1. Outcome
      BY <1>3, <1>steps, <2>9 DEF Linked
    <3>2. emitted' \in Seq(Directives)
      BY <1>0, <2>9, ConcatProperties DEF Linked
    <3>3. todo' \in Seq(Requirements)
      BY <1>0, <2>9, PlanRequires, AskedTypes DEF Linked
    <3>4. UNCHANGED <<sanitizer, native, disk, aliased>>
      BY <2>9 DEF Linked
    <3>. QED  BY <1>6, <2>9, <3>1, <3>2, <3>3, <3>4 DEF Outcome, TypeOK
  <2>vllm. pc = "link" => chosen["vllm"] \in Dirs
    BY DEF ChoiceInv, LibraryChosen, Selected, Located, Planned, Accepted, Steps, ArchiveDirs, Dirs, SystemDirs
  <2>10. CASE LinkDynamic
    <3>1. /\ Search(chosen["vllm"]) \in Directives /\ Link("dylib", "vllm") \in Directives
      BY <2>10, <2>vllm, DirectiveTypes DEF LinkDynamic, Libraries, Artifacts
    <3>2. <<Search(chosen["vllm"]), Link("dylib", "vllm")>> \in Seq(Directives)
      BY <3>1, EmittedTypes
    <3>. QED  BY <2>9, <2>10, <3>2 DEF LinkDynamic, TypeOK
  <2>11. CASE LinkBundledStatic
    <3>1. CASE Fail("archive")
      BY <1>1, <1>2, <1>6, <1>steps, <3>1
    <3>2. CASE ~Fail("archive")
      <4>1. PICK d \in BuildDirs :
                /\ chosen' = [chosen EXCEPT !["blake3_vendored"] = d]
                /\ Linked(bundled_search(chosen["vllm"], d) \o StaticLibraries)
        BY <2>11, <3>2 DEF LinkBundledStatic
      <4>2. d \in Dirs /\ "blake3_vendored" \in Libraries /\ chosen["vllm"] \in Dirs
        BY <2>11, <2>vllm DEF Dirs, BuildDirs, Libraries, Artifacts, LinkBundledStatic
      <4>3. bundled_search(chosen["vllm"], d) \in Seq(Directives)
        BY <4>2, DirectiveTypes, EmittedTypes DEF bundled_search
      <4>4. bundled_search(chosen["vllm"], d) \o StaticLibraries \in Seq(Directives)
        BY <4>3, DirectiveTypes, ConcatProperties
      <4>5. chosen' \in [Libraries -> Dirs \cup {None}]
        BY <4>1, <4>2, ChosenTypes
      <4>. QED  BY <2>9, <4>1, <4>4, <4>5
    <3>. QED  BY <3>1, <3>2
  <2>12. CASE LinkSystemStatic
    <3>1. CASE Fail("archive")
      BY <1>1, <1>2, <1>6, <1>steps, <3>1
    <3>2. CASE ~Fail("archive")
      <4>1. PICK d \in {"archive", chosen["vllm"]} :
                /\ chosen' = [chosen EXCEPT !["blake3_vendored"] = d]
                /\ Linked((IF d = chosen["vllm"] THEN <<Search(d)>>
                           ELSE <<Search(d), Search(chosen["vllm"])>>) \o StaticLibraries)
        BY <2>12, <3>2 DEF LinkSystemStatic
      <4>2. d \in Dirs /\ "blake3_vendored" \in Libraries /\ chosen["vllm"] \in Dirs
        BY <2>12, <2>vllm, <4>1 DEF Dirs, SystemDirs, Libraries, Artifacts, LinkSystemStatic
      <4>3. (IF d = chosen["vllm"] THEN <<Search(d)>>
             ELSE <<Search(d), Search(chosen["vllm"])>>) \in Seq(Directives)
        BY <4>2, DirectiveTypes, EmittedTypes
      <4>4. (IF d = chosen["vllm"] THEN <<Search(d)>>
             ELSE <<Search(d), Search(chosen["vllm"])>>) \o StaticLibraries \in Seq(Directives)
        BY <4>3, DirectiveTypes, ConcatProperties
      <4>5. chosen' \in [Libraries -> Dirs \cup {None}]
        BY <4>1, <4>2, ChosenTypes
      <4>. QED  BY <2>9, <4>1, <4>4, <4>5
    <3>. QED  BY <3>1, <3>2
  <2>13. CASE CheckCache
    <3>1. CASE Fail("cache")
      BY <1>1, <1>2, <1>6, <1>steps, <3>1
    <3>2. CASE ~Fail("cache")
      <4>1. Outcome
        BY <1>3, <1>steps, <2>13, <3>2 DEF CheckCache
      <4>2. todo' \in Seq(Requirements)
        BY <1>0, <2>13, <3>2, PlanRequires, AskedTypes DEF CheckCache
      <4>. QED  BY <1>6, <2>13, <3>2, <4>1, <4>2 DEF CheckCache, Outcome, TypeOK
    <3>. QED  BY <3>1, <3>2
  <2>14. CASE EmitRequirement
    <3>1. Head(todo) \in Requirements /\ Tail(todo) \in Seq(Requirements)
      BY <1>0, <2>14, HeadTailProperties DEF EmitRequirement
    <3>2. Head(todo) \in Directives
      BY <2>14, <3>1 DEF EmitRequirement, Requirements
    <3>3. Append(emitted, Head(todo)) \in Seq(Directives)
      BY <1>0, <3>2, EmittedTypes
    <3>. QED  BY <1>6, <2>14, <3>1, <3>3 DEF EmitRequirement, TypeOK
  <2>15. CASE LinkCudaComponent
    <3>1. CASE Fail("cuda")
      BY <1>1, <1>2, <1>6, <1>steps, <3>1
    <3>2. CASE ~Fail("cuda")
      <4>1. PICK d \in CudaDirs :
                /\ emitted' = emitted \o <<Search(d), Link("dylib", Head(todo).name)>>
                /\ chosen' = [chosen EXCEPT ![Head(todo).name] = d]
                /\ todo' = Tail(todo)
                /\ UNCHANGED <<pc, sanitizer, native, disk, aliased, failure>>
        BY <2>15, <3>2, CachePaths DEF LinkCudaComponent
      <4>2. Head(todo) \in Requirements /\ Tail(todo) \in Seq(Requirements)
        BY <1>0, <2>15, HeadTailProperties DEF LinkCudaComponent
      <4>3. Head(todo).name \in CudaComponents
        BY <2>15, <4>2 DEF LinkCudaComponent, Requirements, Directives, CudaComponents
      <4>4. Head(todo).name \in Libraries /\ d \in Dirs
        BY <4>3 DEF Libraries, Dirs
      <4>5. emitted' \in Seq(Directives)
        BY <1>0, <4>1, <4>4, DirectiveTypes, EmittedTypes
      <4>6. chosen' \in [Libraries -> Dirs \cup {None}]
        BY <4>1, <4>4, ChosenTypes
      <4>. QED  BY <1>6, <4>1, <4>2, <4>5, <4>6 DEF TypeOK
    <3>. QED  BY <3>1, <3>2
  <2>16. CASE LinkSanitizers
    <3>1. Outcome
      BY <1>3, <1>steps, <2>16 DEF LinkSanitizers
    <3>2. emitted' \in Seq(Directives)
      BY <1>0, <2>16, RuntimeTypes, ConcatProperties DEF LinkSanitizers
    <3>. QED  BY <1>6, <2>16, <3>1, <3>2 DEF LinkSanitizers, Outcome, TypeOK
  <2>. QED  BY <1>6, <2>1, <2>2, <2>3, <2>4, <2>5, <2>6, <2>7, <2>8, <2>10, <2>11, <2>12,
               <2>13, <2>14, <2>15, <2>16 DEF main
<1>. QED  BY <1>4, <1>5, <1>6 DEF Next

-----------------------------------------------------------------------------
(* The configuration and the choice of libraries                             *)

LEMMA Stages ==
    /\ Accepted = {"sanitizer", "root", "build", "locate", "link", "cache", "emit", "done"}
    /\ Planned = {"root", "build", "locate", "link", "cache", "emit", "done"}
    /\ Located = {"locate", "link", "cache", "emit", "done"}
    /\ Selected = {"link", "cache", "emit", "done"}
    /\ Linking = {"cache", "emit", "done"}
    /\ Emitting = {"emit", "done"}
<1>1. Accepted = {"sanitizer", "root", "build", "locate", "link", "cache", "emit", "done"}
  BY DEF Accepted, Steps
<1>. QED  BY <1>1 DEF Planned, Located, Selected, Linking, Emitting

\* Exactly one of the two modes is chosen in a configuration that was accepted.
LEMMA OneMode ==
    ASSUME ConfigInv, pc \in Accepted
    PROVE  Has(inputs, "system") <=> ~Bundled
  BY DEF ConfigInv, plan_accepts, validate_source_mode, Bundled, Has

\* The steps that leave the configuration alone.
LEMMA ConfigStays ==
    ASSUME ConfigInv, UNCHANGED <<inputs, sanitizer, native>>,
           \/ pc' = "failed" /\ failure' # "config"
           \/ /\ UNCHANGED failure /\ pc' \in Planned /\ pc \in Planned
              /\ pc' \notin {"root", "build"} /\ (pc' = "cache" => Bundled)
              /\ pc \in Located /\ pc' \in Located
    PROVE  ConfigInv'
<1>1. /\ Bundled' <=> Bundled
      /\ plan_accepts(inputs)' <=> plan_accepts(inputs)
      /\ sanitizer_accepted(inputs)' <=> sanitizer_accepted(inputs)
      /\ names(inputs.sanitizer)' = names(inputs.sanitizer)
      /\ cmake_defines(inputs)' = cmake_defines(inputs)
  BY DEF Bundled
<1>2. CASE pc' = "failed" /\ failure' # "config"
  BY <1>1, <1>2, Stages DEF ConfigInv
<1>3. CASE pc' # "failed"
  <2>1. /\ UNCHANGED <<inputs, sanitizer, native, failure>>
        /\ pc \in Located /\ pc' \in Located /\ (pc' = "cache" => Bundled)
    BY <1>3
  <2>2. /\ plan_accepts(inputs) /\ sanitizer_accepted(inputs)
        /\ sanitizer = names(inputs.sanitizer) /\ failure = "none"
        /\ native = IF Bundled THEN {cmake_defines(inputs)} ELSE {}
    BY <2>1, Stages DEF ConfigInv
  <2>3. pc' \notin {"failed", "root", "build"} /\ (pc' = "cache" => Bundled')
    BY <1>1, <2>1, Stages
  <2>4. native' = IF Bundled' /\ pc' \in Located' THEN {cmake_defines(inputs)'} ELSE {}
    <3>1. Located' = Located
      BY Stages
    <3>. QED  BY <1>1, <2>1, <2>2, <3>1
  <2>5. (plan_accepts(inputs) /\ sanitizer_accepted(inputs) /\ sanitizer = names(inputs.sanitizer))'
    BY <1>1, <2>1, <2>2
  <2>6. failure' = "none" /\ failure' # "config"
    BY <2>1, <2>2
  <2>. QED  BY <2>3, <2>4, <2>5, <2>6, Stages DEF ConfigInv
<1>. QED  BY <1>2, <1>3, Stages

LEMMA ConfigInit == Init => ConfigInv
<1>. SUFFICES ASSUME Init PROVE ConfigInv
  OBVIOUS
<1>1. pc = "plan" /\ native = {} /\ failure = "none"
  BY DEF Init
<1>. QED  BY <1>1, Stages DEF ConfigInv

LEMMA ConfigStep ==
    ASSUME TypeOK, ConfigInv, [Next]_vars
    PROVE  ConfigInv'
<1>1. CASE Finished \/ UNCHANGED vars
  <2>1. UNCHANGED <<inputs, pc, sanitizer, native, failure>>
    BY <1>1 DEF Finished, vars
  <2>2. Bundled' <=> Bundled
    BY <2>1 DEF Bundled
  <2>. QED  BY <2>1, <2>2 DEF ConfigInv
<1>2. ASSUME main, UNCHANGED inputs PROVE ConfigInv'
  <2>0. /\ Bundled' <=> Bundled
    BY <1>2 DEF Bundled
  <2>fail. ASSUME NEW why \in Failures, Fail(why), why # "config" PROVE ConfigInv'
    BY <1>2, <2>fail, ConfigStays DEF Fail
  <2>config. ASSUME Fail("config"), native = {} PROVE ConfigInv'
    <3>1. pc' = "failed" /\ native' = {}
      BY <2>config DEF Fail
    <3>. QED  BY <3>1, Stages DEF ConfigInv
  <2>1. CASE SkipForDocs
    <3>1. pc' = "skipped" /\ native' = {} /\ failure' = "none"
      BY <2>1, Stages DEF SkipForDocs, Go, ConfigInv
    <3>. QED  BY <3>1, Stages DEF ConfigInv
  <2>2. CASE Plan
    <3>1. native = {} /\ failure = "none"
      BY <2>2, Stages DEF Plan, ConfigInv
    <3>2. CASE ~Fail("config")
      <4>1. /\ plan_accepts(inputs) /\ pc' = "sanitizer" /\ native' = {}
            /\ failure' = "none" /\ UNCHANGED inputs
        BY <1>2, <2>2, <3>1, <3>2 DEF Plan, Go
      <4>. QED  BY <4>1, Stages DEF ConfigInv
    <3>. QED  BY <2>config, <3>1, <3>2
  <2>3. CASE sanitizer_config
    <3>1. native = {} /\ plan_accepts(inputs) /\ failure = "none"
      BY <2>3, Stages DEF sanitizer_config, ConfigInv
    <3>2. CASE ~Fail("config")
      <4>1. /\ sanitizer_accepted(inputs) /\ sanitizer' = names(inputs.sanitizer)
            /\ pc' = IF Has(inputs, "system") THEN "root" ELSE "build"
            /\ native' = {} /\ failure' = "none" /\ UNCHANGED inputs
        BY <1>2, <2>3, <3>1, <3>2 DEF sanitizer_config, Go
      <4>2. Has(inputs, "system") <=> ~Bundled
        BY <2>3, OneMode, Stages DEF sanitizer_config
      <4>. QED  BY <2>0, <3>1, <4>1, <4>2, Stages DEF ConfigInv
    <3>. QED  BY <2>config, <3>1, <3>2
  <2>4. CASE BuildNative
    <3>1. /\ pc = "build" /\ pc' = "locate" /\ native' = {cmake_defines(inputs)}
          /\ UNCHANGED <<inputs, sanitizer>>
      BY <1>2, <2>4 DEF BuildNative, Go
    <3>2. /\ Bundled /\ plan_accepts(inputs) /\ sanitizer_accepted(inputs)
          /\ sanitizer = names(inputs.sanitizer) /\ failure' = "none" /\ failure' # "config"
      <4>1. failure = "none"
        BY <3>1 DEF ConfigInv
      <4>. QED  BY <2>4, <3>1, <4>1, Stages DEF ConfigInv, BuildNative, Go
    <3>. QED  BY <2>0, <3>1, <3>2, Stages DEF ConfigInv
  <2>5. CASE BuildFails
    BY <2>5, <2>fail DEF BuildFails, Failures
  <2>6. CASE ValidateSystemRoot
    <3>1. /\ pc = "root" /\ pc' = "locate" /\ UNCHANGED <<inputs, sanitizer, native, failure>>
      BY <1>2, <2>6 DEF ValidateSystemRoot, Go
    <3>. QED  BY <2>0, <3>1, Stages DEF ConfigInv
  <2>7. CASE RootFails
    BY <2>7, <2>fail DEF RootFails, Failures
  <2>8. CASE Locate
    <3>1. CASE ~Fail("library")
      <4>1. /\ pc = "locate" /\ pc' = "link" /\ UNCHANGED <<inputs, sanitizer, native, failure>>
        BY <1>2, <2>8, <3>1 DEF Locate, Go
      <4>. QED  BY <4>1, ConfigStays, Stages
    <3>. QED  BY <2>fail, <3>1 DEF Failures
  <2>9. ASSUME NEW directives, Linked(directives), pc = "link" PROVE ConfigInv'
    <3>1. /\ UNCHANGED <<inputs, sanitizer, native, failure>>
          /\ pc' = IF Bundled THEN "cache" ELSE "emit"
      BY <1>2, <2>9 DEF Linked, Go, Bundled
    <3>. QED  BY <2>9, <3>1, ConfigStays, Stages
  <2>10. CASE LinkDynamic
    BY <2>9, <2>10 DEF LinkDynamic
  <2>11. CASE LinkBundledStatic
    BY <2>9, <2>11, <2>fail DEF LinkBundledStatic, Failures
  <2>12. CASE LinkSystemStatic
    BY <2>9, <2>12, <2>fail DEF LinkSystemStatic, Failures
  <2>13. CASE CheckCache
    <3>1. CASE ~Fail("cache")
      <4>1. /\ pc = "cache" /\ pc' = "emit" /\ UNCHANGED <<inputs, sanitizer, native, failure>>
        BY <1>2, <2>13, <3>1 DEF CheckCache, Go
      <4>. QED  BY <4>1, ConfigStays, Stages
    <3>. QED  BY <2>fail, <3>1 DEF Failures
  <2>14. CASE EmitRequirement
    <3>1. /\ pc = "emit" /\ UNCHANGED <<inputs, pc, sanitizer, native, failure>>
      BY <1>2, <2>14 DEF EmitRequirement
    <3>. QED  BY <3>1, ConfigStays, Stages
  <2>15. CASE LinkCudaComponent
    <3>1. CASE ~Fail("cuda")
      <4>1. /\ pc = "emit" /\ UNCHANGED <<inputs, pc, sanitizer, native, failure>>
        BY <1>2, <2>15, <3>1 DEF LinkCudaComponent
      <4>. QED  BY <4>1, ConfigStays, Stages
    <3>. QED  BY <2>fail, <3>1 DEF Failures
  <2>16. CASE LinkSanitizers
    <3>1. /\ pc = "emit" /\ pc' = "done" /\ UNCHANGED <<inputs, sanitizer, native, failure>>
      BY <1>2, <2>16 DEF LinkSanitizers, Go
    <3>. QED  BY <3>1, ConfigStays, Stages
  <2>. QED  BY <1>2, <2>1, <2>2, <2>3, <2>4, <2>5, <2>6, <2>7, <2>8, <2>10, <2>11, <2>12,
               <2>13, <2>14, <2>15, <2>16 DEF main
<1>. QED  BY <1>1, <1>2 DEF Next

LEMMA ChoiceInit == Init => ChoiceInv
<1>. SUFFICES ASSUME Init PROVE ChoiceInv
  OBVIOUS
<1>1. pc = "plan"
  BY DEF Init
<1>. QED  BY <1>1, Stages DEF ChoiceInv

\* Nothing chosen is given up.
LEMMA ChoiceStays ==
    ASSUME ChoiceInv, UNCHANGED <<inputs, disk, aliased>>,
           chosen'["vllm"] = chosen["vllm"],
           \/ pc' \notin Located
           \/ /\ pc \in Selected /\ pc' \in Selected
              /\ pc' \in Linking /\ ~Dynamic => ArchiveChosen'
    PROVE  ChoiceInv'
<1>1. (Bundled' <=> Bundled) /\ (Dynamic' <=> Dynamic)
  BY DEF Bundled, Dynamic
<1>2. LibraryChosen => LibraryChosen'
  BY <1>1 DEF LibraryChosen
<1>3. CASE pc' \notin Located
  BY <1>3, Stages DEF ChoiceInv
<1>4. CASE pc' \in Located
  <2>1. pc \in Located /\ pc \in Selected /\ (pc' \in Linking /\ ~Dynamic => ArchiveChosen')
    BY <1>4, Stages
  <2>2. Bundled' => InstalledAlone'
    BY <1>1, <2>1 DEF ChoiceInv, InstalledAlone
  <2>. QED  BY <1>1, <1>2, <2>1, <2>2 DEF ChoiceInv
<1>. QED  BY <1>3, <1>4

LEMMA ArchiveStays ==
    ASSUME ArchiveChosen, UNCHANGED <<inputs, disk>>, chosen'["vllm"] = chosen["vllm"],
           chosen'["blake3_vendored"] = chosen["blake3_vendored"]
    PROVE  ArchiveChosen'
<1>1. Bundled' <=> Bundled
  BY DEF Bundled
<1>. QED  BY <1>1 DEF ArchiveChosen

LEMMA ChoiceStep ==
    ASSUME TypeOK, ConfigInv, ChoiceInv, todo \in Seq(Asked), [Next]_vars
    PROVE  ChoiceInv'
<1>0. /\ "vllm" \in Libraries /\ "blake3_vendored" \in Libraries
      /\ chosen \in [Libraries -> Dirs \cup {None}]
  BY DEF TypeOK, Libraries, Artifacts
<1>1. CASE Finished \/ UNCHANGED vars
  <2>1. UNCHANGED <<inputs, pc, disk, aliased, chosen>>
    BY <1>1 DEF Finished, vars
  <2>2. (Bundled' <=> Bundled) /\ (Dynamic' <=> Dynamic)
    BY <2>1 DEF Bundled, Dynamic
  <2>3. /\ (LibraryChosen => LibraryChosen') /\ (ArchiveChosen => ArchiveChosen')
        /\ (InstalledAlone => InstalledAlone')
    BY <2>1, <2>2 DEF LibraryChosen, ArchiveChosen, InstalledAlone
  <2>. QED  BY <2>1, <2>2, <2>3 DEF ChoiceInv
<1>2. ASSUME main, UNCHANGED inputs PROVE ChoiceInv'
  <2>0. Bundled' <=> Bundled
    BY <1>2 DEF Bundled
  <2>fail. ASSUME NEW why, Fail(why) PROVE ChoiceInv'
    BY <1>2, <2>fail, ChoiceStays, Stages DEF Fail
  <2>1. CASE SkipForDocs \/ Plan \/ sanitizer_config \/ BuildFails \/ RootFails
    <3>1. pc' \notin Located
      BY <2>1, Stages DEF SkipForDocs, Plan, sanitizer_config, BuildFails, RootFails, Fail, Go
    <3>. QED  BY <3>1, Stages DEF ChoiceInv
  <2>2. CASE BuildNative
    <3>1. pc' = "locate" /\ InstalledAlone'
      BY <2>2, LayoutTypes DEF BuildNative, Go
    <3>. QED  BY <3>1, Stages DEF ChoiceInv
  <2>3. CASE ValidateSystemRoot
    <3>1. pc' = "locate" /\ ~Bundled'
      <4>1. pc = "root" /\ pc' = "locate"
        BY <2>3 DEF ValidateSystemRoot, Go
      <4>. QED  BY <2>0, <4>1 DEF ConfigInv
    <3>. QED  BY <3>1, Stages DEF ChoiceInv
  <2>4. CASE Locate
    <3>1. CASE ~Fail("library")
      <4>1. PICK override \in IF Has(inputs, "system") THEN BOOLEAN ELSE {FALSE} :
                \E d \in system_library_dir(override) :
                    /\ chosen' = [chosen EXCEPT !["vllm"] = d] /\ pc = "locate" /\ pc' = "link"
                    /\ UNCHANGED <<disk, aliased>>
        BY <2>4, <3>1 DEF Locate, Go
      <4>2. PICK d \in system_library_dir(override) :
                /\ chosen' = [chosen EXCEPT !["vllm"] = d] /\ pc = "locate" /\ pc' = "link"
                /\ UNCHANGED <<disk, aliased>>
        BY <4>1
      <4>3. chosen'["vllm"] = d
        BY <1>0, <4>2
      <4>4. Has(inputs, "system") <=> ~Bundled
        BY <4>2, OneMode, Stages
      <4>5. \/ override /\ ~Bundled /\ d = "override" /\ "vllm" \in disk["override"]
            \/ d \in find_installed_library_dir("vllm")
        BY <4>1, <4>2, <4>4 DEF system_library_dir
      <4>6. LibraryChosen'
        <5>1. CASE d = "override" /\ ~Bundled /\ "vllm" \in disk["override"]
          BY <2>0, <4>2, <4>3, <5>1 DEF LibraryChosen
        <5>2. CASE d \in find_installed_library_dir("vllm")
          BY <2>0, <4>2, <4>3, <5>2, FoundInstalled DEF LibraryChosen
        <5>. QED  BY <4>5, <5>1, <5>2
      <4>7. Bundled' => InstalledAlone'
        BY <2>0, <4>2, Stages DEF ChoiceInv, InstalledAlone
      <4>. QED  BY <4>2, <4>6, <4>7, Stages DEF ChoiceInv
    <3>. QED  BY <2>fail, <3>1
  <2>5. ASSUME NEW directives, Linked(directives), pc = "link",
               chosen'["vllm"] = chosen["vllm"], ~Dynamic => ArchiveChosen'
        PROVE  ChoiceInv'
    <3>1. UNCHANGED <<inputs, disk, aliased>> /\ pc' \in {"cache", "emit"}
      BY <1>2, <2>5 DEF Linked, Go
    <3>. QED  BY <2>5, <3>1, ChoiceStays, Stages
  <2>6. CASE LinkDynamic
    <3>1. Dynamic /\ chosen' = chosen
      BY <2>6 DEF LinkDynamic, Dynamic
    <3>. QED  BY <2>5, <2>6, <3>1 DEF LinkDynamic
  <2>7. CASE LinkBundledStatic
    <3>1. CASE ~Fail("archive")
      <4>. DEFINE found == {d \in BuildDirs : "blake3_vendored" \in disk[d]}
      <4>1. PICK d \in found :
                /\ Cardinality(found) = 1
                /\ chosen' = [chosen EXCEPT !["blake3_vendored"] = d]
                /\ Linked(bundled_search(chosen["vllm"], d) \o StaticLibraries)
        BY <2>7, <3>1 DEF LinkBundledStatic
      <4>2. \A e \in found : e = d
        <5>1. IsFiniteSet(BuildDirs)
          <6>1. BuildDirs = {"build"} \cup {"build/blake3"}
            BY DEF BuildDirs
          <6>. QED  BY <6>1, FS_Singleton, FS_AddElement
        <5>2. IsFiniteSet(found)
          BY <5>1, FS_Subset
        <5>3. PICK x : found = {x}
          BY <4>1, <5>2, FS_Singleton
        <5>. QED  BY <4>1, <5>3
      <4>3. chosen'["vllm"] = chosen["vllm"] /\ chosen'["blake3_vendored"] = d
        BY <1>0, <4>1
      <4>4. Bundled /\ disk' = disk
        BY <2>7, <4>1 DEF LinkBundledStatic, Bundled, Linked
      <4>5. ArchiveChosen'
        BY <2>0, <4>1, <4>2, <4>3, <4>4 DEF ArchiveChosen
      <4>. QED  BY <2>5, <2>7, <4>1, <4>3, <4>5 DEF LinkBundledStatic
    <3>. QED  BY <2>fail, <3>1
  <2>8. CASE LinkSystemStatic
    <3>1. CASE ~Fail("archive")
      <4>1. PICK d \in {"archive", chosen["vllm"]} :
                /\ "blake3_vendored" \in disk[d]
                /\ chosen' = [chosen EXCEPT !["blake3_vendored"] = d]
                /\ Linked((IF d = chosen["vllm"] THEN <<Search(d)>>
                           ELSE <<Search(d), Search(chosen["vllm"])>>) \o StaticLibraries)
        BY <2>8, <3>1 DEF LinkSystemStatic
      <4>2. chosen'["vllm"] = chosen["vllm"] /\ chosen'["blake3_vendored"] = d
        BY <1>0, <4>1
      <4>3. ~Bundled /\ disk' = disk
        BY <2>8, <4>1, OneMode, Stages DEF LinkSystemStatic, Linked
      <4>4. ArchiveChosen'
        BY <2>0, <4>1, <4>2, <4>3 DEF ArchiveChosen
      <4>. QED  BY <2>5, <2>8, <4>1, <4>2, <4>4 DEF LinkSystemStatic
    <3>. QED  BY <2>fail, <3>1
  <2>9. ASSUME UNCHANGED <<disk, aliased>>, pc \in Linking, pc' \in Linking,
               chosen'["vllm"] = chosen["vllm"],
               chosen'["blake3_vendored"] = chosen["blake3_vendored"]
        PROVE  ChoiceInv'
    <3>1. ~Dynamic => ArchiveChosen'
      BY <1>2, <2>9, ArchiveStays DEF ChoiceInv
    <3>. QED  BY <1>2, <2>9, <3>1, ChoiceStays, Stages
  <2>10. CASE CheckCache
    <3>1. CASE ~Fail("cache")
      <4>1. pc = "cache" /\ pc' = "emit" /\ UNCHANGED <<disk, aliased, chosen>>
        BY <2>10, <3>1 DEF CheckCache, Go
      <4>. QED  BY <2>9, <4>1, Stages
    <3>. QED  BY <2>fail, <3>1
  <2>11. CASE EmitRequirement
    <3>1. pc = "emit" /\ UNCHANGED <<pc, disk, aliased, chosen>>
      BY <2>11 DEF EmitRequirement
    <3>. QED  BY <2>9, <3>1, Stages
  <2>12. CASE LinkCudaComponent
    <3>1. CASE ~Fail("cuda")
      <4>1. /\ pc = "emit" /\ UNCHANGED <<pc, disk, aliased>>
            /\ \E d : chosen' = [chosen EXCEPT ![Head(todo).name] = d]
        BY <2>12, <3>1 DEF LinkCudaComponent
      <4>2. Head(todo).name \in CudaComponents
        <5>1. Head(todo) \in Asked /\ Head(todo).print = "CudaToolkit"
          BY <2>12, HeadTailProperties DEF LinkCudaComponent
        <5>. QED  BY <5>1 DEF Asked, Link, Search, CudaComponents
      <4>3. /\ chosen'["vllm"] = chosen["vllm"]
            /\ chosen'["blake3_vendored"] = chosen["blake3_vendored"]
        BY <1>0, <4>1, <4>2 DEF CudaComponents
      <4>. QED  BY <2>9, <4>1, <4>3, Stages
    <3>. QED  BY <2>fail, <3>1
  <2>13. CASE LinkSanitizers
    <3>1. pc = "emit" /\ pc' = "done" /\ UNCHANGED <<disk, aliased, chosen>>
      BY <2>13 DEF LinkSanitizers, Go
    <3>. QED  BY <2>9, <3>1, Stages
  <2>. QED  BY <1>2, <2>1, <2>2, <2>3, <2>4, <2>6, <2>7, <2>8, <2>10, <2>11, <2>12, <2>13 DEF main
<1>. QED  BY <1>1, <1>2 DEF Next

-----------------------------------------------------------------------------
(* The directives                                                            *)

\* How the directives begin (build.rs, build_bundled and link_system).
LEMMA OpeningShape ==
    ASSUME NEW i, NEW dir \in Dirs, NEW archive, ~Has(i, "dynamic-link") => archive \in Dirs
    PROVE  /\ OpeningOf(i, dir, archive) \in Seq(Directives)
           /\ Names(OpeningOf(i, dir, archive)) \subseteq {"vllm", "blake3_vendored"}
           /\ Has(i, "dynamic-link") =>
                  /\ Len(OpeningOf(i, dir, archive)) = 2
                  /\ OpeningOf(i, dir, archive)[1] = Search(dir)
                  /\ OpeningOf(i, dir, archive)[2] = Link("dylib", "vllm")
           /\ ~Has(i, "dynamic-link") => \E n \in {1, 2} :
                  /\ Len(OpeningOf(i, dir, archive)) = n + 2
                  /\ OpeningOf(i, dir, archive)[n + 1] = Link("static:+whole-archive", "vllm")
                  /\ OpeningOf(i, dir, archive)[n + 2] = Link("static", "blake3_vendored")
                  /\ Has(i, "bundled") =>
                         /\ n = 2
                         /\ OpeningOf(i, dir, archive)[1] = Search(dir)
                         /\ OpeningOf(i, dir, archive)[2] = Search(archive)
                  /\ ~Has(i, "bundled") =>
                         /\ OpeningOf(i, dir, archive)[1] = Search(archive)
                         /\ OpeningOf(i, dir, archive)[n] = Search(dir)
<1>. DEFINE o == OpeningOf(i, dir, archive)
            dynamic == Has(i, "dynamic-link")  bundled == Has(i, "bundled")
            v == Search(dir)  b == Search(archive)
            l == Link("dylib", "vllm")
            w == Link("static:+whole-archive", "vllm")
            a == Link("static", "blake3_vendored")
<1>1. /\ v \in Directives /\ l \in Directives /\ w \in Directives /\ a \in Directives
      /\ ~dynamic => b \in Directives
  BY DirectiveTypes DEF Libraries, Artifacts
<1>2. /\ v.print = "search" /\ b.print = "search"
      /\ l.print # "search" /\ l.name = "vllm"
      /\ w.print # "search" /\ w.name = "vllm"
      /\ a.print # "search" /\ a.name = "blake3_vendored"
  BY DEF Search, Link
<1>3. /\ dynamic => o = <<v, l>>
      /\ ~dynamic /\ bundled => o = <<v, b>> \o <<w, a>>
      /\ ~dynamic /\ ~bundled /\ archive = dir =>
             o = <<v>> \o <<w, a>>
      /\ ~dynamic /\ ~bundled /\ archive # dir =>
             o = <<b, v>> \o <<w, a>>
  BY DEF OpeningOf, StaticLibraries
<1>same. archive = dir => b = v
  OBVIOUS
<1>. HIDE DEF o, dynamic, bundled, v, b, l, w, a
<1>4. /\ v \in Requirements /\ l \in Requirements /\ w \in Requirements /\ a \in Requirements
      /\ ~dynamic => b \in Requirements
  BY <1>1, DirectiveTypes
<1>5. /\ Names(<<v>>) = {} /\ Names(<<l>>) = {"vllm"} /\ Names(<<w>>) = {"vllm"}
      /\ Names(<<a>>) = {"blake3_vendored"} /\ (~dynamic => Names(<<b>>) = {})
  BY <1>2, <1>4, NamesOfOne
<1>6. <<w, a>> \in Seq(Directives) /\ Len(<<w, a>>) = 2 /\ <<w, a>>[1] = w /\ <<w, a>>[2] = a
  BY <1>1
<1>7. Names(<<w, a>>) = {"vllm", "blake3_vendored"}
  BY <1>4, <1>5, NamesOfTwo
<1>8. ASSUME NEW n \in {1, 2}, NEW s \in Seq(Directives), Len(s) = n, Names(s) = {},
             o = s \o <<w, a>>
      PROVE  /\ o \in Seq(Directives) /\ Len(o) = n + 2
             /\ Names(o) \subseteq {"vllm", "blake3_vendored"}
             /\ o[n + 1] = w /\ o[n + 2] = a
             /\ \A k \in 1..n : o[k] = s[k]
  <2>. DEFINE t == <<w, a>>
  <2>1. t \in Seq(Directives) /\ Len(t) = 2 /\ t[1] = w /\ t[2] = a
    BY <1>6
  <2>2. Names(s \o t) = Names(s) \cup Names(t)
    BY <1>6, <1>8, NamesOfConcat, DirectiveTypes
  <2>3. Names(o) \subseteq {"vllm", "blake3_vendored"}
    BY <1>7, <1>8, <2>2, Zenon
  <2>. HIDE DEF t
  <2>4. /\ s \o t \in Seq(Directives) /\ Len(s \o t) = n + 2
        /\ (s \o t)[n + 1] = t[1] /\ (s \o t)[n + 2] = t[2]
        /\ \A k \in 1..n : (s \o t)[k] = s[k]
    <3>1. /\ s \o t \in Seq(Directives) /\ Len(s \o t) = Len(s) + Len(t)
          /\ \A j \in 1..Len(s) + Len(t) :
                 (s \o t)[j] = IF j <= Len(s) THEN s[j] ELSE t[j - Len(s)]
      BY <1>8, <2>1, ConcatProperties
    <3>. DEFINE u == s \o t
    <3>. HIDE DEF u
    <3>2. /\ u \in Seq(Directives) /\ Len(u) = n + 2
          /\ \A k \in 1..(n + 2) : u[k] = IF k <= n THEN s[k] ELSE t[k - n]
      BY <1>8, <2>1, <3>1 DEF u
    <3>3. u[n + 1] = t[1] /\ u[n + 2] = t[2] /\ \A k \in 1..n : u[k] = s[k]
      BY <3>2
    <3>. QED  BY <3>2, <3>3 DEF u
  <2>5. o = s \o t
    BY <1>8 DEF t
  <2>. QED  BY <2>1, <2>3, <2>4, <2>5
<1>9. CASE dynamic
  <2>1. /\ <<v, l>> \in Seq(Directives) /\ Len(<<v, l>>) = 2
        /\ <<v, l>>[1] = v /\ <<v, l>>[2] = l
    BY <1>1
  <2>2. Names(<<v, l>>) = {"vllm"}
    BY <1>4, <1>5, NamesOfTwo
  <2>3. o = <<v, l>>
    BY <1>3, <1>9, Zenon
  <2>4. /\ o \in Seq(Directives) /\ Len(o) = 2 /\ o[1] = v /\ o[2] = l
        /\ Names(o) \subseteq {"vllm", "blake3_vendored"}
    <3>1. Names(o) = {"vllm"}
      BY <2>2, <2>3, Zenon
    <3>2. o \in Seq(Directives) /\ Len(o) = 2 /\ o[1] = v /\ o[2] = l
      BY <2>1, <2>3, Zenon
    <3>. QED  BY <3>1, <3>2
  <2>. QED  BY <1>9, <2>4 DEF v, l, o, dynamic, bundled
<1>10. CASE ~dynamic /\ bundled
  <2>. DEFINE s == <<v, b>>
  <2>1. s \in Seq(Directives) /\ Len(s) = 2 /\ s[1] = v /\ s[2] = b /\ Names(s) = {}
    <3>1. <<v, b>> \in Seq(Directives) /\ Len(<<v, b>>) = 2 /\ <<v, b>>[1] = v /\ <<v, b>>[2] = b
      BY <1>1, <1>10
    <3>. QED  BY <1>4, <1>5, <1>10, <3>1, NamesOfTwo
  <2>2. o = s \o <<w, a>>
    BY <1>3, <1>10, Zenon
  <2>. HIDE DEF s
  <2>3. /\ o \in Seq(Directives) /\ Len(o) = 2 + 2
        /\ Names(o) \subseteq {"vllm", "blake3_vendored"}
        /\ o[2 + 1] = w /\ o[2 + 2] = a
        /\ \A k \in 1..2 : o[k] = s[k]
    BY <1>8, <2>1, <2>2
  <2>. QED  BY <1>10, <2>1, <2>3 DEF v, b, w, a, o, dynamic, bundled
<1>11. CASE ~dynamic /\ ~bundled /\ archive = dir
  <2>. DEFINE s == <<v>>
  <2>1. s \in Seq(Directives) /\ Len(s) = 1 /\ s[1] = v /\ Names(s) = {}
    BY <1>1, <1>5
  <2>2. o = s \o <<w, a>>
    BY <1>3, <1>11, Zenon
  <2>. HIDE DEF s
  <2>3. /\ o \in Seq(Directives) /\ Len(o) = 1 + 2
        /\ Names(o) \subseteq {"vllm", "blake3_vendored"}
        /\ o[1 + 1] = w /\ o[1 + 2] = a
        /\ \A k \in 1..1 : o[k] = s[k]
    BY <1>8, <2>1, <2>2
  <2>4. b = v /\ o[1] = v
    BY <1>same, <1>11, <2>1, <2>3
  <2>. QED  BY <1>11, <2>3, <2>4 DEF v, b, w, a, o, dynamic, bundled
<1>12. CASE ~dynamic /\ ~bundled /\ archive # dir
  <2>. DEFINE s == <<b, v>>
  <2>1. s \in Seq(Directives) /\ Len(s) = 2 /\ s[1] = b /\ s[2] = v /\ Names(s) = {}
    <3>1. <<b, v>> \in Seq(Directives) /\ Len(<<b, v>>) = 2 /\ <<b, v>>[1] = b /\ <<b, v>>[2] = v
      BY <1>1, <1>12
    <3>. QED  BY <1>4, <1>5, <1>12, <3>1, NamesOfTwo
  <2>2. o = s \o <<w, a>>
    BY <1>3, <1>12, Zenon
  <2>. HIDE DEF s
  <2>3. /\ o \in Seq(Directives) /\ Len(o) = 2 + 2
        /\ Names(o) \subseteq {"vllm", "blake3_vendored"}
        /\ o[2 + 1] = w /\ o[2 + 2] = a
        /\ \A k \in 1..2 : o[k] = s[k]
    BY <1>8, <2>1, <2>2
  <2>. QED  BY <1>12, <2>1, <2>3 DEF v, b, w, a, o, dynamic, bundled
<1>. QED  BY <1>9, <1>10, <1>11, <1>12 DEF o, dynamic, bundled

\* Opening is there for every list that is emitted.
LEMMA OpeningTypes ==
    ASSUME ChoiceInv, pc \in Linking
    PROVE  chosen["vllm"] \in Dirs /\ (~Dynamic => chosen["blake3_vendored"] \in Dirs)
<1>1. LibraryChosen /\ (~Dynamic => ArchiveChosen)
  BY Stages DEF ChoiceInv
<1>2. chosen["vllm"] \in Dirs
  BY <1>1 DEF LibraryChosen, ArchiveDirs, Dirs, SystemDirs
<1>3. ArchiveChosen => chosen["blake3_vendored"] \in Dirs
  BY <1>2 DEF ArchiveChosen, Dirs, SystemDirs, BuildDirs
<1>. QED  BY <1>1, <1>2, <1>3

\* What is added comes after the opening.
LEMMA OpenedStays ==
    ASSUME ChoiceInv, pc \in Linking, Opened, emitted \in Seq(Directives),
           NEW x \in Seq(Directives), emitted' = emitted \o x, UNCHANGED inputs,
           chosen'["vllm"] = chosen["vllm"],
           chosen'["blake3_vendored"] = chosen["blake3_vendored"],
           Dynamic => Names(x) \subseteq RuntimeNames /\ Searched(x) = {}
    PROVE  Opened'
<1>1. (Dynamic' <=> Dynamic) /\ (Bundled' <=> Bundled)
  BY DEF Dynamic, Bundled
<1>2. Opening' = Opening
  BY <1>1 DEF Opening
<1>3. Len(Opening) \in Nat
  BY OpeningTypes, OpeningShape DEF Opening, Dynamic
<1>4. /\ Len(emitted) \in Nat /\ Len(x) \in Nat /\ Len(emitted') = Len(emitted) + Len(x)
      /\ \A k \in 1..Len(emitted) + Len(x) :
             emitted'[k] = IF k <= Len(emitted) THEN emitted[k] ELSE x[k - Len(emitted)]
  BY ConcatProperties
<1>5. Len(Opening) <= Len(emitted) /\ \A k \in 1..Len(Opening) : emitted[k] = Opening[k]
  BY DEF Opened
<1>6. \A k \in 1..Len(Opening) : emitted'[k] = Opening[k]
  BY <1>3, <1>4, <1>5
<1>7. ASSUME Dynamic, NEW k \in 1..Len(emitted'), k > Len(Opening)
      PROVE  emitted'[k].print # "search" /\ emitted'[k].name \in RuntimeNames
  <2>1. CASE k <= Len(emitted)
    BY <1>4, <1>7, <2>1 DEF Opened
  <2>2. CASE k > Len(emitted)
    <3>1. k - Len(emitted) \in 1..Len(x) /\ emitted'[k] = x[k - Len(emitted)]
      BY <1>4, <2>2
    <3>. DEFINE j == k - Len(emitted)
    <3>. HIDE DEF j
    <3>2. j \in 1..Len(x) /\ emitted'[k] = x[j]
      BY <3>1 DEF j
    <3>3. x[j].print # "search"
      BY <1>7, <3>2 DEF Searched
    <3>4. x[j].name \in Names(x)
      BY <3>2, <3>3 DEF Names
    <3>. QED  BY <1>7, <3>2, <3>3, <3>4
  <2>. QED  BY <1>4, <2>1, <2>2
<1>. QED  BY <1>1, <1>2, <1>3, <1>4, <1>5, <1>6, <1>7 DEF Opened

\* As long as nothing is printed or planned, and after a failure, there is little to say.
LEMMA EmitBefore ==
    ASSUME todo' = <<>>, emitted' = <<>>, pc' \notin Linking
    PROVE  EmitInv'
<1>1. Names(<<>>) = {}
  BY NamesOfNone
<1>2. <<>> \in Seq(Asked) /\ Len(<<>>) = 0
  OBVIOUS
<1>3. pc' # "done" /\ pc' \notin Emitting
  BY Stages
<1>4. Names(emitted)' = {}
  BY <1>1
<1>. QED  BY <1>2, <1>3, <1>4 DEF EmitInv

LEMMA EmitFails ==
    ASSUME EmitInv, pc' = "failed", UNCHANGED <<todo, emitted>>
    PROVE  EmitInv'
<1>1. pc' \notin Linking /\ pc' \notin Emitting /\ pc' # "done"
  BY Stages
<1>. QED  BY <1>1 DEF EmitInv

\* The requirements, once they are looked at.
LEMMA EmitStarts ==
    ASSUME inputs \in InputSpace, UNCHANGED inputs, todo' = link_requirements(inputs)
    PROVE  /\ todo' \in Seq(Asked) /\ (Dynamic' => todo' = <<>>)
           /\ Names(link_requirements(inputs))' \subseteq Names(todo)'
<1>1. Dynamic' => todo' = <<>>
  BY PlanRequires DEF Dynamic
<1>2. todo' \in Seq(Asked)
  BY PlanRequires
<1>. QED  BY <1>1, <1>2

\* The library is linked: its directives are the first that are printed.
LEMMA EmitLinked ==
    ASSUME TypeOK, ConfigInv, EmitInv, ChoiceInv', pc = "link", UNCHANGED inputs,
           Linked(Opening')
    PROVE  EmitInv'
<1>. DEFINE o == Opening'
<1>1. todo = <<>> /\ emitted = <<>>
  BY Stages DEF EmitInv
<1>2. /\ pc' = (IF Bundled THEN "cache" ELSE "emit")
      /\ todo' = (IF Bundled THEN <<>> ELSE link_requirements(inputs))
      /\ emitted' = emitted \o o
  BY <1>1 DEF Linked, Go, Bundled
<1>3. pc' \in Linking /\ pc' # "done" /\ (pc' \in Emitting => ~Bundled)
  BY <1>2, Stages
<1>4. o \in Seq(Directives) /\ Names(o) \subseteq {"vllm", "blake3_vendored"}
  <2>1. LibraryChosen' /\ (~Dynamic' => ArchiveChosen')
    BY <1>3, Stages DEF ChoiceInv
  <2>2. chosen'["vllm"] \in Dirs
    BY <2>1 DEF LibraryChosen, ArchiveDirs, Dirs, SystemDirs
  <2>3. ~Dynamic' => chosen'["blake3_vendored"] \in Dirs
    BY <2>1, <2>2 DEF ArchiveChosen, Dirs, SystemDirs, BuildDirs
  <2>. QED  BY <2>2, <2>3, OpeningShape DEF Opening, Dynamic
<1>5. emitted' = o
  BY <1>1, <1>2, <1>4, ConcatEmptySeq
<1>6. Opened'
  BY <1>4, <1>5 DEF Opened
<1>7. Names(emitted') \cap RuntimeNames = {}
  BY <1>4, <1>5 DEF RuntimeNames
<1>8. todo' \in Seq(Asked)
  <2>1. CASE Bundled
    <3>1. todo' = <<>> /\ <<>> \in Seq(Asked)
      BY <1>2, <2>1
    <3>. QED  BY <3>1
  <2>2. CASE ~Bundled
    BY <1>2, <2>2, EmitStarts DEF TypeOK
  <2>. QED  BY <2>1, <2>2
<1>9. pc' \in Emitting => /\ Names(link_requirements(inputs))' \subseteq Names(todo)'
                          /\ (Dynamic' => todo' = <<>>)
  BY <1>2, <1>3, EmitStarts DEF TypeOK
<1>. HIDE DEF o
<1>10. pc' \notin Emitting => todo' = <<>>
  BY <1>2, Stages
<1>. QED  BY <1>3, <1>6, <1>7, <1>8, <1>9, <1>10 DEF EmitInv

\* More is printed, and what is still to come shrinks by no more than that.
LEMMA EmitMore ==
    ASSUME TypeOK, ChoiceInv, EmitInv, pc = "emit", UNCHANGED <<inputs, pc>>,
           todo # <<>>, todo' = Tail(todo),
           NEW x \in Seq(Directives), emitted' = emitted \o x,
           Names(x) = Names(<<Head(todo)>>),
           chosen'["vllm"] = chosen["vllm"],
           chosen'["blake3_vendored"] = chosen["blake3_vendored"]
    PROVE  EmitInv'
<1>1. /\ todo \in Seq(Asked) /\ todo \in Seq(Requirements) /\ emitted \in Seq(Directives)
      /\ emitted \in Seq(Requirements) /\ x \in Seq(Requirements)
  BY DirectiveTypes DEF EmitInv, TypeOK
<1>2. /\ Head(todo) \in Asked /\ Tail(todo) \in Seq(Asked) /\ Len(todo) \in Nat
      /\ Len(Tail(todo)) = Len(todo) - 1
      /\ \A k \in 1..Len(Tail(todo)) : Tail(todo)[k] = todo[k + 1]
      /\ Head(todo) = todo[1]
  BY <1>1, HeadTailProperties
<1>3. Names(todo) = Names(x) \cup Names(Tail(todo))
  BY <1>1, NamesOfTail
<1>4. Names(emitted') = Names(emitted) \cup Names(x)
  BY <1>1, NamesOfConcat
<1>5. ~Dynamic
  BY Stages DEF EmitInv
<1>6. Opened'
  BY <1>1, <1>5, OpenedStays, Stages DEF EmitInv
<1>7. Names(x) \cap RuntimeNames = {}
  <2>1. Names(<<Head(todo)>>) \subseteq {Head(todo).name}
    BY <1>2, AskedTypes, NamesOfOne
  <2>2. Head(todo).name \notin RuntimeNames
    BY <1>2 DEF Asked, Link, Search, RuntimeNames
  <2>. QED  BY <2>1, <2>2
<1>8. Names(emitted') \cap RuntimeNames = {}
  BY <1>4, <1>7, Stages DEF EmitInv
<1>9. Names(link_requirements(inputs))' \subseteq Names(todo)' \cup Names(emitted)'
  BY <1>3, <1>4, Stages DEF EmitInv
<1>10. pc' \in Emitting /\ pc' \in Linking /\ pc' # "done" /\ ~Dynamic'
  BY <1>5, Stages DEF Dynamic
<1>. QED  BY <1>2, <1>6, <1>8, <1>9, <1>10 DEF EmitInv

LEMMA EmitInit == Init => EmitInv
<1>. SUFFICES ASSUME Init PROVE EmitInv
  OBVIOUS
<1>1. todo = <<>> /\ emitted = <<>> /\ pc = "plan"
  BY DEF Init
<1>2. <<>> \in Seq(Asked)
  OBVIOUS
<1>3. Names(emitted) = {}
  BY <1>1, NamesOfNone
<1>. QED  BY <1>1, <1>2, <1>3, Stages DEF EmitInv

LEMMA EmitStep ==
    ASSUME TypeOK, ConfigInv, ChoiceInv, EmitInv, ChoiceInv', [Next]_vars
    PROVE  EmitInv'
<1>0. /\ "vllm" \in Libraries /\ "blake3_vendored" \in Libraries
      /\ CudaComponents \subseteq Libraries /\ chosen \in [Libraries -> Dirs \cup {None}]
      /\ todo \in Seq(Asked) /\ emitted \in Seq(Directives) /\ inputs \in InputSpace
  BY DEF TypeOK, Libraries, Artifacts, EmitInv
<1>1. CASE Finished \/ UNCHANGED vars
  <2>1. UNCHANGED <<inputs, pc, sanitizer, chosen, todo, emitted>>
    BY <1>1 DEF Finished, vars
  <2>2. (Bundled' <=> Bundled) /\ (Dynamic' <=> Dynamic) /\ Opening' = Opening
    BY <2>1 DEF Bundled, Dynamic, Opening
  <2>3. Opened => Opened'
    BY <2>1, <2>2 DEF Opened
  <2>. QED  BY <2>1, <2>2, <2>3 DEF EmitInv
<1>2. ASSUME main, UNCHANGED inputs PROVE EmitInv'
  <2>fail. ASSUME NEW why, Fail(why) PROVE EmitInv'
    BY <2>fail, EmitFails DEF Fail
  <2>1. CASE SkipForDocs \/ Plan \/ sanitizer_config \/ BuildNative \/ ValidateSystemRoot \/ Locate
    <3>1. CASE \A why \in Failures : ~Fail(why)
      <4>1. /\ pc \in {"plan", "sanitizer", "build", "root", "locate"}
            /\ pc' \in {"skipped", "sanitizer", "root", "build", "locate", "link"}
            /\ UNCHANGED <<todo, emitted>>
        BY <2>1, <3>1 DEF SkipForDocs, Plan, sanitizer_config, BuildNative,
                          ValidateSystemRoot, Locate, Go, Failures
      <4>2. todo' = <<>> /\ emitted' = <<>>
        BY <4>1, Stages DEF EmitInv
      <4>. QED  BY <4>1, <4>2, EmitBefore, Stages
    <3>. QED  BY <2>fail, <3>1
  <2>2. CASE BuildFails \/ RootFails
    BY <2>2, <2>fail DEF BuildFails, RootFails
  <2>3. CASE LinkDynamic
    <3>1. Opening' = <<Search(chosen["vllm"]), Link("dylib", "vllm")>>
      BY <1>2, <2>3 DEF LinkDynamic, Opening, OpeningOf
    <3>2. Linked(Opening') /\ pc = "link"
      BY <2>3, <3>1, Zenon DEF LinkDynamic
    <3>. QED  BY <1>2, <3>2, EmitLinked
  <2>4. CASE LinkBundledStatic
    <3>1. CASE ~Fail("archive")
      <4>1. PICK d \in BuildDirs :
                /\ chosen' = [chosen EXCEPT !["blake3_vendored"] = d]
                /\ Linked(bundled_search(chosen["vllm"], d) \o StaticLibraries)
        BY <2>4, <3>1 DEF LinkBundledStatic
      <4>2. chosen'["vllm"] = chosen["vllm"] /\ chosen'["blake3_vendored"] = d
        BY <1>0, <4>1
      <4>3. Opening' = bundled_search(chosen["vllm"], d) \o StaticLibraries
        BY <1>2, <2>4, <4>2 DEF LinkBundledStatic, Opening, OpeningOf, bundled_search
      <4>4. Linked(Opening') /\ pc = "link"
        BY <2>4, <4>1, <4>3, Zenon DEF LinkBundledStatic
      <4>. QED  BY <1>2, <4>4, EmitLinked
    <3>. QED  BY <2>fail, <3>1
  <2>5. CASE LinkSystemStatic
    <3>1. CASE ~Fail("archive")
      <4>. DEFINE first(d) == IF d = chosen["vllm"] THEN <<Search(d)>>
                              ELSE <<Search(d), Search(chosen["vllm"])>>
      <4>1. PICK d \in {"archive", chosen["vllm"]} :
                /\ chosen' = [chosen EXCEPT !["blake3_vendored"] = d]
                /\ Linked(first(d) \o StaticLibraries)
        BY <2>5, <3>1 DEF LinkSystemStatic
      <4>2. chosen'["vllm"] = chosen["vllm"] /\ chosen'["blake3_vendored"] = d
        BY <1>0, <4>1
      <4>3. ~Has(inputs, "bundled") /\ ~Has(inputs, "dynamic-link") /\ pc = "link"
        BY <2>5, OneMode, Stages DEF LinkSystemStatic, Bundled
      <4>4. Opening' = first(d) \o StaticLibraries
        BY <1>2, <4>2, <4>3 DEF Opening, OpeningOf
      <4>5. Linked(Opening')
        BY <4>1, <4>4, Zenon
      <4>. QED  BY <1>2, <4>3, <4>5, EmitLinked
    <3>. QED  BY <2>fail, <3>1
  <2>6. CASE CheckCache
    <3>1. CASE ~Fail("cache")
      <4>1. /\ pc = "cache" /\ pc' = "emit" /\ todo' = link_requirements(inputs)
            /\ UNCHANGED <<chosen, emitted>>
        BY <2>6, <3>1 DEF CheckCache, Go
      <4>2. (Bundled' <=> Bundled) /\ (Dynamic' <=> Dynamic) /\ Opening' = Opening
        BY <1>2, <4>1 DEF Bundled, Dynamic, Opening
      <4>3. Opened'
        <5>1. Opened
          BY <4>1, Stages DEF EmitInv
        <5>. QED  BY <4>1, <4>2, <5>1 DEF Opened
      <4>4. /\ todo' \in Seq(Asked) /\ (Dynamic' => todo' = <<>>)
            /\ Names(link_requirements(inputs))' \subseteq Names(todo)'
        BY <1>0, <1>2, <4>1, EmitStarts
      <4>5. Names(emitted') \cap RuntimeNames = {} /\ pc' \in Emitting /\ pc' # "done"
        BY <4>1, Stages DEF EmitInv
      <4>. QED  BY <4>3, <4>4, <4>5, Stages DEF EmitInv
    <3>. QED  BY <2>fail, <3>1
  <2>7. CASE EmitRequirement
    <3>. DEFINE h == Head(todo)
    <3>1. /\ pc = "emit" /\ todo # <<>> /\ h.print # "CudaToolkit"
          /\ emitted' = Append(emitted, h) /\ todo' = Tail(todo) /\ pc' = pc
          /\ chosen' = chosen
      BY <2>7 DEF EmitRequirement
    <3>2. h \in Asked /\ h \in Requirements /\ h = todo[1] /\ 1 \in 1..Len(todo)
      BY <1>0, <3>1, HeadTailProperties, AskedTypes
    <3>3. h \in Directives
      BY <3>1, <3>2 DEF Requirements
    <3>4. <<h>> \in Seq(Directives) /\ emitted' = emitted \o <<h>>
      BY <1>0, <3>1, <3>3, EmittedTypes
    <3>. HIDE DEF h
    <3>5. Names(<<h>>) = Names(<<Head(todo)>>)
      BY DEF h
    <3>. QED  BY <1>2, <3>1, <3>4, <3>5, EmitMore
  <2>8. CASE LinkCudaComponent
    <3>1. CASE ~Fail("cuda")
      <4>. DEFINE h == Head(todo)
      <4>1. PICK d \in CudaDirs :
                /\ emitted' = emitted \o <<Search(d), Link("dylib", h.name)>>
                /\ chosen' = [chosen EXCEPT ![h.name] = d]
                /\ todo' = Tail(todo) /\ pc' = pc
        BY <2>8, <3>1, CachePaths DEF LinkCudaComponent
      <4>2. pc = "emit" /\ todo # <<>> /\ h.print = "CudaToolkit"
        BY <2>8 DEF LinkCudaComponent
      <4>3. h \in Asked /\ h \in Requirements
        BY <1>0, <4>2, HeadTailProperties, AskedTypes
      <4>4. h.name \in CudaComponents
        BY <4>2, <4>3 DEF Asked, Link, Search, CudaComponents
      <4>. DEFINE a == Search(d)  b == Link("dylib", h.name)  x == <<a, b>>
      <4>5. /\ a \in Directives /\ b \in Directives
            /\ a.print = "search" /\ a.name = d /\ b.print # "search" /\ b.name = h.name
        BY <1>0, <4>4, DirectiveTypes DEF Search, Link, Dirs
      <4>6. x \in Seq(Directives)
        BY <4>5, EmittedTypes
      <4>7. Names(x) = {h.name}
        <5>. HIDE DEF a, b, h
        <5>1. a \in Requirements /\ b \in Requirements
          BY <4>5, DirectiveTypes
        <5>2. Names(<<a>>) = {} /\ Names(<<b>>) = {h.name}
          BY <4>5, <5>1, NamesOfOne
        <5>3. Names(<<a, b>>) = Names(<<a>>) \cup Names(<<b>>)
          BY <5>1, NamesOfTwo
        <5>4. Names(<<a, b>>) = {h.name}
          BY <5>2, <5>3
        <5>. QED  BY <5>4
      <4>8. Names(<<h>>) = {h.name}
        BY <4>2, <4>3, NamesOfOne
      <4>9. /\ chosen'["vllm"] = chosen["vllm"]
            /\ chosen'["blake3_vendored"] = chosen["blake3_vendored"]
        BY <1>0, <4>1, <4>4 DEF CudaComponents
      <4>10. emitted' = emitted \o x
        BY <4>1
      <4>. HIDE DEF x
      <4>11. Names(x) = Names(<<Head(todo)>>)
        BY <4>7, <4>8
      <4>. QED  BY <1>2, <4>1, <4>2, <4>6, <4>9, <4>10, <4>11, EmitMore
    <3>. QED  BY <2>fail, <3>1
  <2>9. CASE LinkSanitizers
    <3>. DEFINE x == link_sanitizer_runtimes(sanitizer)
    <3>1. /\ pc = "emit" /\ todo = <<>> /\ pc' = "done" /\ emitted' = emitted \o x
          /\ UNCHANGED <<sanitizer, chosen, todo>>
      BY <2>9 DEF LinkSanitizers, Go
    <3>2. sanitizer \subseteq {"address", "undefined", "thread"}
      BY DEF TypeOK
    <3>3. /\ x \in Seq(Directives) /\ Searched(x) = {}
          /\ Names(x) = {RuntimeOf[s] : s \in sanitizer}
      <4>1. sanitizer \cap {"address", "undefined", "thread"} = sanitizer
        BY <3>2
      <4>. QED  BY <4>1, RuntimeTypes
    <3>. HIDE DEF x
    <3>4. Names(x) \subseteq RuntimeNames
      BY <3>2, <3>3 DEF RuntimeOf, RuntimeNames
    <3>5. Opened'
      BY <1>0, <1>2, <3>1, <3>3, <3>4, OpenedStays, Stages DEF EmitInv
    <3>6. Names(emitted') = Names(emitted) \cup Names(x)
      <4>1. emitted \in Seq(Requirements) /\ x \in Seq(Requirements)
        BY <1>0, <3>3, DirectiveTypes
      <4>. QED  BY <3>1, <4>1, NamesOfConcat
    <3>7. Names(emitted') \cap RuntimeNames = {RuntimeOf[s] : s \in sanitizer'}
      <4>1. Names(emitted) \cap RuntimeNames = {}
        BY <3>1, Stages DEF EmitInv
      <4>. QED  BY <3>1, <3>3, <3>4, <3>6, <4>1
    <3>8. Names(link_requirements(inputs))' \subseteq Names(todo)' \cup Names(emitted)'
      BY <1>2, <3>1, <3>6, Stages DEF EmitInv
    <3>. QED  BY <1>0, <3>1, <3>5, <3>7, <3>8, Stages DEF EmitInv
  <2>. QED  BY <1>2, <2>1, <2>2, <2>3, <2>4, <2>5, <2>6, <2>7, <2>8, <2>9 DEF main
<1>. QED  BY <1>1, <1>2 DEF Next

-----------------------------------------------------------------------------
(* Theorems                                                                  *)

LEMMA BuildStep == BuildInv /\ [Next]_vars => BuildInv'
<1>. SUFFICES ASSUME TypeOK, ConfigInv, ChoiceInv, EmitInv, [Next]_vars PROVE BuildInv'
  BY DEF BuildInv
<1>1. TypeOK' /\ ConfigInv'
  BY TypeStep, ConfigStep
<1>2. ChoiceInv'
  BY ChoiceStep DEF EmitInv
<1>3. EmitInv'
  BY <1>2, EmitStep
<1>. QED  BY <1>1, <1>2, <1>3 DEF BuildInv

LEMMA BuildInvariant == Spec => []BuildInv
<1>1. Init => BuildInv
  BY TypeInit, ConfigInit, ChoiceInit, EmitInit DEF BuildInv
<1>. QED  BY <1>1, BuildStep, PTL DEF Spec

\* The variables keep their types, for every set of inputs.
THEOREM TypeCorrect == Spec => []TypeOK
<1>1. BuildInv => TypeOK
  BY DEF BuildInv
<1>. QED  BY <1>1, BuildInvariant, PTL

\* What a static library needs is required by the plan that built it (build_config.rs,
\* plan: the CMake definitions and the link requirements).
LEMMA NeedIsPlanned ==
    ASSUME TypeOK, ConfigInv, pc = "done", ~Dynamic
    PROVE  Needed \subseteq {"blake3_vendored"} \cup Names(link_requirements(inputs))
                            \cup {RuntimeOf[s] : s \in sanitizer}
<1>1. inputs \in InputSpace /\ plan_accepts(inputs)
  BY Stages DEF TypeOK, ConfigInv
<1>2. native = IF Bundled THEN {cmake_defines(inputs)} ELSE {}
  BY Stages DEF ConfigInv
<1>3. Names(link_requirements(inputs)) =
          PlatformNames(inputs) \cup CudaLinked(inputs) \cup MlxLinked(inputs)
  BY <1>1, PlanRequires DEF Dynamic
<1>4. {RuntimeOf[s] : s \in names(planned_sanitizer(inputs))} \subseteq {RuntimeOf[s] : s \in sanitizer}
  <2>1. sanitizer_accepted(inputs) /\ sanitizer = names(inputs.sanitizer)
    BY Stages DEF ConfigInv
  <2>2. names("OFF") = {}
    BY DEF names, Sanitizers
  <2>3. inputs.sanitizer # "not UTF-8"
    BY <2>1 DEF sanitizer_accepted, Sanitizers
  <2>. QED  BY <2>1, <2>2, <2>3 DEF planned_sanitizer
<1>5. ASSUME NEW b \in native
      PROVE  /\ \A f \in Backends : f \in b.components <=> Has(inputs, f)
             /\ b.sanitizers = names(planned_sanitizer(inputs))
  BY <1>2 DEF cmake_defines, Has
<1>6. /\ Has(inputs, "triton-aot") => Has(inputs, "cuda")
      /\ Has(inputs, "metal") => inputs.target # "linux"
  BY <1>1 DEF plan_accepts, validate_feature_implications, validate_targets
<1>7. {"cuda", "triton-aot", "metal", "mlx"} \subseteq Backends
  BY DEF Backends, Features
<1>8. ASSUME NEW b \in native
      PROVE  (   (IF "cuda" \in b.components THEN {"cudart", "cublasLt"} ELSE {})
            \cup (IF "triton-aot" \in b.components THEN {"cuda"} ELSE {})
            \cup (IF "metal" \in b.components THEN {"Metal", "Foundation"} ELSE {})
            \cup (IF "mlx" \in b.components THEN {"mlx"} ELSE {})
            \cup {RuntimeOf[s] : s \in b.sanitizers})
             \subseteq Names(link_requirements(inputs)) \cup {RuntimeOf[s] : s \in sanitizer}
  <2>1. /\ "cuda" \in b.components => Has(inputs, "cuda")
        /\ "triton-aot" \in b.components => Has(inputs, "cuda") /\ Has(inputs, "triton-aot")
        /\ "metal" \in b.components => Has(inputs, "metal") /\ inputs.target # "linux"
        /\ "mlx" \in b.components => Has(inputs, "mlx")
    BY <1>5, <1>6, <1>7
  <2>2. {RuntimeOf[s] : s \in b.sanitizers} \subseteq {RuntimeOf[s] : s \in sanitizer}
    BY <1>4, <1>5
  <2>3. "cuda" \in b.components => {"cudart", "cublasLt"} \subseteq CudaLinked(inputs)
    BY <2>1 DEF CudaLinked
  <2>4. "triton-aot" \in b.components => "cuda" \in CudaLinked(inputs)
    BY <2>1 DEF CudaLinked
  <2>5. "metal" \in b.components => {"Metal", "Foundation"} \subseteq PlatformNames(inputs)
    BY <2>1 DEF PlatformNames
  <2>6. "mlx" \in b.components => "mlx" \in MlxLinked(inputs)
    BY <2>1 DEF MlxLinked
  <2>. QED  BY <1>3, <2>2, <2>3, <2>4, <2>5, <2>6
<1>9. (IF inputs.target = "linux" THEN {"stdc++", "pthread", "dl"} ELSE {"c++"})
          \subseteq PlatformNames(inputs)
  BY DEF PlatformNames
<1>. QED  BY <1>3, <1>8, <1>9 DEF Needed

\* The directives of a script that succeeded begin with those that link vllm (build.rs,
\* build_bundled and link_system).
LEMMA OpenedDone ==
    ASSUME BuildInv, pc = "done"
    PROVE  /\ Len(emitted) \in Nat
           /\ Dynamic =>
                  /\ Len(emitted) >= 2
                  /\ emitted[1] = Search(chosen["vllm"]) /\ emitted[2] = Link("dylib", "vllm")
                  /\ \A k \in 3..Len(emitted) :
                         emitted[k].print # "search" /\ emitted[k].name \in RuntimeNames
           /\ ~Dynamic => \E n \in {1, 2} :
                  /\ Len(emitted) >= n + 2
                  /\ emitted[n + 1] = Link("static:+whole-archive", "vllm")
                  /\ emitted[n + 2] = Link("static", "blake3_vendored")
                  /\ Bundled =>
                         /\ n = 2
                         /\ emitted[1] = Search(chosen["vllm"])
                         /\ emitted[2] = Search(chosen["blake3_vendored"])
                  /\ ~Bundled =>
                         /\ emitted[1] = Search(chosen["blake3_vendored"])
                         /\ emitted[n] = Search(chosen["vllm"])
<1>1. Opened /\ Len(emitted) \in Nat
  BY Stages DEF BuildInv, EmitInv, TypeOK
<1>2. chosen["vllm"] \in Dirs /\ (~Dynamic => chosen["blake3_vendored"] \in Dirs)
  BY OpeningTypes, Stages DEF BuildInv
<1>. DEFINE dir == chosen["vllm"]  archive == chosen["blake3_vendored"]
<1>3. Opening = OpeningOf(inputs, dir, archive)
  BY DEF Opening
<1>4. Dynamic <=> Has(inputs, "dynamic-link")
  BY DEF Dynamic
<1>5. Bundled <=> Has(inputs, "bundled")
  BY DEF Bundled
<1>. HIDE DEF dir, archive
<1>6. CASE Dynamic
  <2>1. Len(Opening) = 2 /\ Opening[1] = Search(dir) /\ Opening[2] = Link("dylib", "vllm")
    BY <1>2, <1>3, <1>4, <1>6, OpeningShape DEF dir, archive
  <2>2. Len(emitted) >= 2 /\ emitted[1] = Search(dir) /\ emitted[2] = Link("dylib", "vllm")
    BY <1>1, <2>1 DEF Opened
  <2>3. ASSUME NEW k \in 3..Len(emitted)
        PROVE  emitted[k].print # "search" /\ emitted[k].name \in RuntimeNames
    BY <1>1, <1>6, <2>1 DEF Opened
  <2>. QED  BY <1>1, <1>6, <2>2, <2>3 DEF dir
<1>7. CASE ~Dynamic
  <2>1. PICK n \in {1, 2} :
            /\ Len(Opening) = n + 2
            /\ Opening[n + 1] = Link("static:+whole-archive", "vllm")
            /\ Opening[n + 2] = Link("static", "blake3_vendored")
            /\ Bundled => n = 2 /\ Opening[1] = Search(dir) /\ Opening[2] = Search(archive)
            /\ ~Bundled => Opening[1] = Search(archive) /\ Opening[n] = Search(dir)
    <3>1. dir \in Dirs /\ archive \in Dirs /\ ~Has(inputs, "dynamic-link")
      BY <1>2, <1>4, <1>7 DEF dir, archive
    <3>. QED  BY <1>3, <1>5, <3>1, OpeningShape
  <2>2. \A k \in 1..(n + 2) : emitted[k] = Opening[k]
    BY <1>1, <2>1 DEF Opened
  <2>3. Len(emitted) >= n + 2
    BY <1>1, <2>1 DEF Opened
  <2>4. /\ emitted[1] = Opening[1] /\ emitted[n] = Opening[n]
        /\ emitted[n + 1] = Opening[n + 1] /\ emitted[n + 2] = Opening[n + 2]
    BY <2>2
  <2>5. n = 2 => emitted[2] = Opening[2]
    BY <2>4
  <2>. QED  BY <1>1, <1>7, <2>1, <2>3, <2>4, <2>5 DEF dir, archive
<1>. QED  BY <1>6, <1>7

\* A script that succeeds links all that its library needs, and after the library
\* (build.rs, main).
LEMMA AllIsLinked == ASSUME BuildInv PROVE LinkIsComplete
<1>. SUFFICES ASSUME pc = "done"
              PROVE  \E v \in LinksOf("vllm") :
                         IF Has(inputs, "dynamic-link")
                         THEN \A k \in 1..Len(emitted) :
                                  emitted[k].print # "search" /\ k # v => emitted[k].name \in Range(RuntimeOf)
                         ELSE \A lib \in Needed : \E k \in LinksOf(lib) : k > v
  BY DEF LinkIsComplete
<1>1. TypeOK /\ ConfigInv /\ EmitInv /\ todo = <<>> /\ Len(emitted) \in Nat
  BY OpenedDone DEF BuildInv, EmitInv
<1>2. CASE Dynamic
  <2>1. /\ Len(emitted) >= 2 /\ emitted[1].print = "search" /\ emitted[2].print # "search"
        /\ emitted[2].name = "vllm"
        /\ \A k \in 3..Len(emitted) : emitted[k].name \in RuntimeNames
    BY <1>2, OpenedDone DEF Search, Link
  <2>2. 2 \in LinksOf("vllm")
    BY <1>1, <2>1 DEF LinksOf
  <2>3. ASSUME NEW k \in 1..Len(emitted), emitted[k].print # "search", k # 2
        PROVE  emitted[k].name \in Range(RuntimeOf)
    <3>1. k \in 3..Len(emitted)
      BY <1>1, <2>1, <2>3
    <3>. QED  BY <2>1, <3>1 DEF Range, RuntimeOf, RuntimeNames
  <2>. QED  BY <1>2, <2>2, <2>3 DEF Dynamic
<1>3. CASE ~Dynamic
  <2>1. PICK n \in {1, 2} :
            /\ Len(emitted) >= n + 2
            /\ emitted[n + 1] = Link("static:+whole-archive", "vllm")
            /\ emitted[n + 2] = Link("static", "blake3_vendored")
            /\ emitted[1].print = "search" /\ emitted[n].print = "search"
    <3>1. PICK n \in {1, 2} :
              /\ Len(emitted) >= n + 2
              /\ emitted[n + 1] = Link("static:+whole-archive", "vllm")
              /\ emitted[n + 2] = Link("static", "blake3_vendored")
              /\ Bundled =>
                     /\ n = 2
                     /\ emitted[1] = Search(chosen["vllm"])
                     /\ emitted[2] = Search(chosen["blake3_vendored"])
              /\ ~Bundled =>
                     /\ emitted[1] = Search(chosen["blake3_vendored"])
                     /\ emitted[n] = Search(chosen["vllm"])
      BY <1>3, OpenedDone
    <3>2. emitted[1].print = "search" /\ emitted[n].print = "search"
      BY <3>1 DEF Search
    <3>. QED  BY <3>1, <3>2
  <2>2. /\ emitted[n + 1].print # "search" /\ emitted[n + 1].name = "vllm"
        /\ emitted[n + 2].print # "search" /\ emitted[n + 2].name = "blake3_vendored"
    BY <2>1 DEF Link
  <2>3. n + 1 \in LinksOf("vllm") /\ n + 2 \in LinksOf("blake3_vendored")
    BY <1>1, <2>1, <2>2 DEF LinksOf
  <2>4. ASSUME NEW lib \in Needed PROVE \E k \in LinksOf(lib) : k > n + 1
    <3>1. CASE lib = "blake3_vendored"
      BY <2>3, <3>1
    <3>2. CASE lib # "blake3_vendored"
      <4>1. lib \in Names(link_requirements(inputs)) \cup {RuntimeOf[s] : s \in sanitizer}
        BY <1>1, <1>3, <3>2, NeedIsPlanned
      <4>2. Names(todo) = {}
        BY <1>1, NamesOfNone
      <4>3. lib \in Names(emitted)
        BY <1>1, <4>1, <4>2, Stages DEF EmitInv
      <4>4. PICK k \in 1..Len(emitted) : emitted[k].print # "search" /\ emitted[k].name = lib
        BY <4>3 DEF Names
      <4>5. lib # "vllm"
        <5>1. "vllm" \notin Names(link_requirements(inputs))
          BY <1>1, <1>3, PlanRequires
             DEF TypeOK, Dynamic, PlatformNames, CudaLinked, MlxLinked
        <5>2. {RuntimeOf[s] : s \in sanitizer} \subseteq RuntimeNames
          BY <1>1 DEF TypeOK, RuntimeOf, RuntimeNames
        <5>3. "vllm" \notin RuntimeNames
          BY DEF RuntimeNames
        <5>. QED  BY <4>1, <5>1, <5>2, <5>3
      <4>6. k \notin {1, n, n + 1, n + 2}
        BY <2>1, <2>2, <3>2, <4>4, <4>5
      <4>. QED  BY <1>1, <2>1, <4>4, <4>6 DEF LinksOf
    <3>. QED  BY <3>1, <3>2
  <2>. QED  BY <1>3, <2>3, <2>4 DEF Dynamic
<1>. QED  BY <1>2, <1>3

\* A script that succeeds printed a link for everything that the library it built refers
\* to, and behind the library: the CMake definitions and the link requirements of
\* build_config.rs, two lists made apart from each other, agree for every configuration
\* that is accepted.
THEOREM LinksEverything == Spec => []LinkIsComplete
<1>1. BuildInv => LinkIsComplete
  BY AllIsLinked
<1>. QED  BY <1>1, BuildInvariant, PTL

\* The first directive that searches a directory is no later than any directive (build.rs).
LEMMA FirstIsChosen ==
    ASSUME Len(emitted) \in Nat, NEW lib, NEW k \in 1..Len(emitted),
           emitted[k] = Search(chosen[lib]),
           \A j \in SearchesOf(Holding(lib)) : k <= j
    PROVE  LinkedFromChosen(lib)
<1>1. emitted[k].print = "search" /\ emitted[k].name = chosen[lib]
  BY DEF Search
<1>2. k \in SearchesOf({chosen[lib]})
  BY <1>1 DEF SearchesOf
<1>. QED  BY <1>2 DEF LinkedFromChosen

\* vllm is found where it was chosen (build.rs, build_bundled and link_system).
LEMMA VllmAsChosen ==
    ASSUME BuildInv, pc = "done", ~Shadowed
    PROVE  LinkedFromChosen("vllm")
<1>1. Len(emitted) \in Nat
  BY OpenedDone
<1>2. \A j \in SearchesOf(Holding("vllm")) : j \in 1..Len(emitted) /\ j >= 1
  BY <1>1 DEF SearchesOf
<1>3. ASSUME Len(emitted) >= 1, emitted[1] = Search(chosen["vllm"])
      PROVE  LinkedFromChosen("vllm")
  <2>1. 1 \in 1..Len(emitted) /\ \A j \in SearchesOf(Holding("vllm")) : 1 <= j
    BY <1>1, <1>2, <1>3
  <2>. QED  BY <1>1, <1>3, <2>1, FirstIsChosen
<1>4. CASE Dynamic
  <2>1. Len(emitted) >= 1 /\ emitted[1] = Search(chosen["vllm"])
    BY <1>1, <1>4, OpenedDone
  <2>. QED  BY <1>3, <2>1
<1>5. CASE ~Dynamic /\ Bundled
  <2>1. Len(emitted) >= 1 /\ emitted[1] = Search(chosen["vllm"])
    BY <1>1, <1>5, OpenedDone
  <2>. QED  BY <1>3, <2>1
<1>6. CASE ~Dynamic /\ ~Bundled
  <2>1. PICK n \in {1, 2} :
            /\ Len(emitted) >= n + 2
            /\ emitted[1] = Search(chosen["blake3_vendored"])
            /\ emitted[n] = Search(chosen["vllm"])
    BY <1>6, OpenedDone
  <2>2. CASE chosen["blake3_vendored"] = chosen["vllm"] \/ n = 1
    <3>1. Len(emitted) >= 1 /\ emitted[1] = Search(chosen["vllm"])
      BY <1>1, <2>1, <2>2
    <3>. QED  BY <1>3, <3>1
  <2>3. CASE chosen["blake3_vendored"] # chosen["vllm"] /\ n = 2
    <3>1. chosen["blake3_vendored"] = "archive"
      BY <1>6, <2>3, Stages DEF BuildInv, ChoiceInv, ArchiveChosen
    <3>2. "vllm" \notin disk["archive"]
      BY <3>1 DEF Shadowed
    <3>3. 1 \notin SearchesOf(Holding("vllm"))
      <4>1. "archive" \notin Holding("vllm")
        BY <3>2 DEF Holding
      <4>2. emitted[1].name = "archive"
        BY <2>1, <3>1 DEF Search
      <4>. QED  BY <4>1, <4>2 DEF SearchesOf
    <3>4. \A j \in SearchesOf(Holding("vllm")) : 2 <= j
      BY <1>1, <1>2, <3>3
    <3>5. 2 \in 1..Len(emitted) /\ emitted[2] = Search(chosen["vllm"])
      BY <1>1, <2>1, <2>3
    <3>. QED  BY <1>1, <3>4, <3>5, FirstIsChosen
  <2>. QED  BY <2>2, <2>3
<1>. QED  BY <1>4, <1>5, <1>6

\* So is the archive: no file that CMake installs next to vllm is one.
LEMMA ArchiveAsChosen ==
    ASSUME BuildInv, pc = "done", ~Dynamic
    PROVE  LinkedFromChosen("blake3_vendored")
<1>1. Len(emitted) \in Nat
  BY OpenedDone
<1>2. \A j \in SearchesOf(Holding("blake3_vendored")) : j \in 1..Len(emitted) /\ j >= 1
  BY <1>1 DEF SearchesOf
<1>3. CASE Bundled
  <2>1. /\ Len(emitted) >= 4 /\ emitted[1] = Search(chosen["vllm"])
        /\ emitted[2] = Search(chosen["blake3_vendored"])
    BY <1>3, OpenedDone
  <2>2. chosen["vllm"] \in ArchiveDirs /\ InstalledAlone
    BY <1>3, Stages DEF BuildInv, ChoiceInv, LibraryChosen
  <2>3. "blake3_vendored" \notin disk[chosen["vllm"]]
    BY <2>2 DEF InstalledAlone
  <2>4. 1 \notin SearchesOf(Holding("blake3_vendored"))
    <3>1. chosen["vllm"] \notin Holding("blake3_vendored")
      BY <2>3 DEF Holding
    <3>2. emitted[1].name = chosen["vllm"]
      BY <2>1 DEF Search
    <3>. QED  BY <3>1, <3>2 DEF SearchesOf
  <2>5. \A j \in SearchesOf(Holding("blake3_vendored")) : 2 <= j
    BY <1>1, <1>2, <2>4
  <2>6. 2 \in 1..Len(emitted)
    BY <1>1, <2>1
  <2>. QED  BY <1>1, <2>1, <2>5, <2>6, FirstIsChosen
<1>4. CASE ~Bundled
  <2>1. Len(emitted) >= 1 /\ emitted[1] = Search(chosen["blake3_vendored"])
    BY <1>1, <1>4, OpenedDone
  <2>2. 1 \in 1..Len(emitted)
    BY <1>1, <2>1
  <2>. QED  BY <1>1, <1>2, <2>1, <2>2, FirstIsChosen
<1>. QED  BY <1>3, <1>4

\* A shared vllm is linked alone, with the runtimes of the sanitizers.
LEMMA DynamicNames ==
    ASSUME BuildInv, pc = "done", Dynamic
    PROVE  Names(emitted) \subseteq {"vllm"} \cup RuntimeNames
<1>1. ASSUME NEW k \in 1..Len(emitted), emitted[k].print # "search"
      PROVE  emitted[k].name \in {"vllm"} \cup RuntimeNames
  <2>1. emitted[1].print = "search" /\ emitted[2].name = "vllm"
    BY OpenedDone DEF Search, Link
  <2>2. k # 1
    BY <1>1, <2>1
  <2>3. k = 2 \/ k \in 3..Len(emitted)
    BY <2>2, OpenedDone
  <2>. QED  BY <2>1, <2>3, OpenedDone
<1>. QED  BY <1>1 DEF Names

LEMMA AllAsChosen == ASSUME BuildInv PROVE LinkedAsChosen
<1>. SUFFICES ASSUME pc = "done" PROVE LinkedAsChosen
  BY DEF LinkedAsChosen
<1>1. ~Shadowed => LinkedFromChosen("vllm")
  BY VllmAsChosen
<1>2. ASSUME LinksOf("blake3_vendored") # {} PROVE LinkedFromChosen("blake3_vendored")
  <2>1. "blake3_vendored" \in Names(emitted)
    BY <1>2, Positions
  <2>2. ~Dynamic
    BY <2>1, DynamicNames DEF RuntimeNames
  <2>. QED  BY <2>2, ArchiveAsChosen
<1>3. ASSUME chosen["vllm"] # "override", NEW d \in Range(LIB_DIR_CANDIDATES), "vllm" \in disk[d]
      PROVE  d = chosen["vllm"] \/ aliased
  <2>1. d \in ArchiveDirs
    BY DEF Range, LIB_DIR_CANDIDATES, ArchiveDirs
  <2>2. LibraryChosen
    BY Stages DEF BuildInv, ChoiceInv
  <2>. QED  BY <1>3, <2>1, <2>2 DEF LibraryChosen
<1>. QED  BY <1>1, <1>2, <1>3 DEF LinkedAsChosen

\* vllm and its archive are linked from the directories they were chosen from, for any
\* layout that CMake or the user leaves (build.rs, build_bundled and link_system), but for
\* a vllm that lies next to the archive of a system build, whose directory link_system
\* prints first.
THEOREM LinksTheChosen == Spec => []LinkedAsChosen
<1>1. BuildInv => LinkedAsChosen
  BY AllAsChosen
<1>. QED  BY <1>1, BuildInvariant, PTL

LEMMA AllAgree == ASSUME BuildInv PROVE SanitizersAgree
<1>1. ASSUME native # {}
      PROVE  failure # "config" /\ inputs.sanitizer \in Sanitizers \cup {"unset", "OFF"}
  BY <1>1 DEF BuildInv, ConfigInv, sanitizer_accepted
<1>2. ASSUME pc = "done"
      PROVE  {s \in DOMAIN RuntimeOf : LinksOf(RuntimeOf[s]) # {}} = UNION {b.sanitizers : b \in native}
  <2>1. /\ sanitizer_accepted(inputs) /\ plan_accepts(inputs)
        /\ sanitizer = names(inputs.sanitizer)
        /\ native = IF Bundled THEN {cmake_defines(inputs)} ELSE {}
    BY <1>2, Stages DEF BuildInv, ConfigInv
  <2>2. /\ DOMAIN RuntimeOf = {"address", "undefined", "thread"}
        /\ RuntimeOf["address"] = "asan" /\ RuntimeOf["undefined"] = "ubsan"
        /\ RuntimeOf["thread"] = "tsan" /\ sanitizer \subseteq {"address", "undefined", "thread"}
    BY DEF RuntimeOf, BuildInv, TypeOK
  <2>3. Names(emitted) \cap RuntimeNames = {RuntimeOf[s] : s \in sanitizer}
    BY <1>2, Stages DEF BuildInv, EmitInv
  <2>4. ASSUME NEW s \in DOMAIN RuntimeOf PROVE LinksOf(RuntimeOf[s]) # {} <=> s \in sanitizer
    <3>1. LinksOf(RuntimeOf[s]) # {} <=> RuntimeOf[s] \in Names(emitted)
      BY Positions
    <3>2. RuntimeOf[s] \in RuntimeNames
      BY <2>2 DEF RuntimeNames
    <3>3. RuntimeOf[s] \in Names(emitted) <=> RuntimeOf[s] \in {RuntimeOf[t] : t \in sanitizer}
      BY <2>3, <3>2
    <3>4. RuntimeOf[s] \in {RuntimeOf[t] : t \in sanitizer} <=> s \in sanitizer
      BY <2>2
    <3>. QED  BY <3>1, <3>3, <3>4
  <2>5. names("unset") = {} /\ names("OFF") = {}
    BY DEF names, Sanitizers
  <2>6. UNION {b.sanitizers : b \in native} = sanitizer
    <3>1. CASE Bundled
      <4>1. UNION {b.sanitizers : b \in native} = names(planned_sanitizer(inputs))
        BY <2>1, <3>1 DEF cmake_defines
      <4>2. inputs.sanitizer # "not UTF-8"
        BY <2>1 DEF sanitizer_accepted, Sanitizers
      <4>. QED  BY <2>1, <2>5, <4>1, <4>2 DEF planned_sanitizer
    <3>2. CASE ~Bundled
      BY <2>1, <2>5, <3>2 DEF sanitizer_accepted, Bundled
    <3>. QED  BY <3>1, <3>2
  <2>. QED  BY <2>2, <2>4, <2>6
<1>. QED  BY <1>1, <1>2 DEF SanitizersAgree

\* VLLM_CPP_SANITIZE, read twice and by different rules (build_config.rs, plan, and
\* build.rs, sanitizer_config), means one thing: the runtimes that are linked are those
\* of what CMake compiled in, and no build is started for a value that is then turned down.
THEOREM SanitizersMatch == Spec => []SanitizersAgree
<1>1. BuildInv => SanitizersAgree
  BY AllAgree
<1>. QED  BY <1>1, BuildInvariant, PTL
=============================================================================
