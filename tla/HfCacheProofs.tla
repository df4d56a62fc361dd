---------------------------- MODULE HfCacheProofs ----------------------------
(* Proofs about HfCache, for any number of processes, commits, resolves and    *)
(* crashes, any trees, and hubs that answer from a wrong commit.               *)
EXTENDS HfCache, TLAPS

-----------------------------------------------------------------------------
(* Sequences of files                                                         *)

LEMMA RangeCat ==
    ASSUME NEW S, NEW s \in Seq(S), NEW t \in Seq(S)
    PROVE  s \o t \in Seq(S) /\ Range(s \o t) = Range(s) \cup Range(t)
<1>1. /\ s \o t \in Seq(S) /\ Len(s \o t) = Len(s) + Len(t)
      /\ Len(s) \in Nat /\ Len(t) \in Nat
      /\ DOMAIN s = 1..Len(s) /\ DOMAIN t = 1..Len(t) /\ DOMAIN (s \o t) = 1..(Len(s) + Len(t))
      /\ \A i \in 1..(Len(s) + Len(t)) :
            (s \o t)[i] = IF i <= Len(s) THEN s[i] ELSE t[i - Len(s)]
  OBVIOUS
<1>2. ASSUME NEW x \in Range(s \o t) PROVE x \in Range(s) \cup Range(t)
  <2>1. PICK i \in 1..(Len(s) + Len(t)) : x = (s \o t)[i]
    BY <1>1, <1>2 DEF Range
  <2>2. CASE i <= Len(s)
    BY <1>1, <2>1, <2>2 DEF Range
  <2>3. CASE ~(i <= Len(s))
    <3>1. x = t[i - Len(s)] /\ i - Len(s) \in 1..Len(t)
      BY <1>1, <2>1, <2>3
    <3>. QED  BY <1>1, <3>1 DEF Range
  <2>. QED  BY <2>2, <2>3
<1>3. ASSUME NEW x \in Range(s) PROVE x \in Range(s \o t)
  <2>1. PICK i \in 1..Len(s) : x = s[i]
    BY <1>1, <1>3 DEF Range
  <2>2. i \in 1..(Len(s) + Len(t)) /\ (s \o t)[i] = s[i]
    BY <1>1
  <2>. QED  BY <1>1, <2>1, <2>2 DEF Range
<1>4. ASSUME NEW x \in Range(t) PROVE x \in Range(s \o t)
  <2>1. PICK i \in 1..Len(t) : x = t[i]
    BY <1>1, <1>4 DEF Range
  <2>2. i + Len(s) \in 1..(Len(s) + Len(t)) /\ (s \o t)[i + Len(s)] = t[i]
    BY <1>1
  <2>. QED  BY <1>1, <2>1, <2>2 DEF Range
<1>. QED  BY <1>1, <1>2, <1>3, <1>4

LEMMA RangeTail ==
    ASSUME NEW S, NEW s \in Seq(S), s # <<>>
    PROVE  /\ Tail(s) \in Seq(S) /\ Head(s) \in S
           /\ Range(s) = {Head(s)} \cup Range(Tail(s))
<1>1. /\ Len(s) \in Nat \ {0} /\ Tail(s) \in Seq(S) /\ Len(Tail(s)) = Len(s) - 1
      /\ Head(s) = s[1] /\ Head(s) \in S
      /\ DOMAIN s = 1..Len(s) /\ DOMAIN Tail(s) = 1..(Len(s) - 1)
      /\ \A i \in 1..(Len(s) - 1) : Tail(s)[i] = s[i + 1]
  OBVIOUS
<1>2. ASSUME NEW x \in Range(s) PROVE x \in {Head(s)} \cup Range(Tail(s))
  <2>1. PICK i \in 1..Len(s) : x = s[i]
    BY <1>1, <1>2 DEF Range
  <2>2. CASE i = 1
    BY <1>1, <2>1, <2>2
  <2>3. CASE i # 1
    <3>1. i - 1 \in 1..(Len(s) - 1) /\ Tail(s)[i - 1] = s[i]
      BY <1>1, <2>3
    <3>. QED  BY <1>1, <2>1, <3>1 DEF Range
  <2>. QED  BY <2>2, <2>3
<1>3. Head(s) \in Range(s)
  BY <1>1 DEF Range
<1>4. ASSUME NEW x \in Range(Tail(s)) PROVE x \in Range(s)
  <2>1. PICK i \in 1..(Len(s) - 1) : x = s[i + 1]
    BY <1>1, <1>4 DEF Range
  <2>2. i + 1 \in 1..Len(s)
    BY <1>1
  <2>. QED  BY <1>1, <2>1, <2>2 DEF Range
<1>. QED  BY <1>1, <1>2, <1>3, <1>4

LEMMA RangeEmpty ==
    ASSUME NEW S, NEW s \in Seq(S) PROVE s = <<>> <=> Range(s) = {}
<1>1. Len(s) \in Nat /\ DOMAIN s = 1..Len(s) /\ (s = <<>> <=> Len(s) = 0)
  OBVIOUS
<1>2. CASE s = <<>>
  BY <1>1, <1>2 DEF Range
<1>3. CASE s # <<>>
  <2>1. 1 \in 1..Len(s)
    BY <1>1, <1>3
  <2>2. s[1] \in Range(s)
    BY <1>1, <2>1 DEF Range
  <2>. QED  BY <1>3, <2>2
<1>. QED  BY <1>2, <1>3

\* The tokenizer configuration comes before every file of weights.
Weights == {SAFETENSORS} \cup Range(Shards)
WeightsLast(s) ==
    \A i, j \in 1..Len(s) : i < j /\ s[i] \in Weights => s[j] # TOKENIZER_CONFIG

LEMMA OrderCat ==
    ASSUME NEW S, NEW s \in Seq(S), NEW t \in Seq(S),
           Range(s) \cap Weights = {}, TOKENIZER_CONFIG \notin Range(t)
    PROVE  WeightsLast(s \o t)
<1>1. /\ s \o t \in Seq(S) /\ Len(s \o t) = Len(s) + Len(t)
      /\ Len(s) \in Nat /\ Len(t) \in Nat
      /\ DOMAIN s = 1..Len(s) /\ DOMAIN t = 1..Len(t)
      /\ \A i \in 1..(Len(s) + Len(t)) :
            (s \o t)[i] = IF i <= Len(s) THEN s[i] ELSE t[i - Len(s)]
  OBVIOUS
<1>2. SUFFICES ASSUME NEW i \in 1..(Len(s) + Len(t)), NEW j \in 1..(Len(s) + Len(t)),
                      i < j, (s \o t)[i] \in Weights
               PROVE  (s \o t)[j] # TOKENIZER_CONFIG
  BY <1>1 DEF WeightsLast
<1>3. i > Len(s)
  <2>. SUFFICES ASSUME i <= Len(s) PROVE FALSE
    BY <1>1
  <2>1. s[i] \in Range(s) /\ (s \o t)[i] = s[i]
    BY <1>1 DEF Range
  <2>. QED  BY <1>2, <2>1
<1>4. j - Len(s) \in 1..Len(t) /\ (s \o t)[j] = t[j - Len(s)]
  BY <1>1, <1>2, <1>3
<1>. QED  BY <1>1, <1>4 DEF Range

LEMMA OrderTail ==
    ASSUME NEW S, NEW s \in Seq(S), s # <<>>, WeightsLast(s)
    PROVE  /\ WeightsLast(Tail(s))
           /\ Head(s) \in Weights => TOKENIZER_CONFIG \notin Range(Tail(s))
<1>1. /\ Len(s) \in Nat \ {0} /\ Tail(s) \in Seq(S) /\ Len(Tail(s)) = Len(s) - 1
      /\ Head(s) = s[1] /\ DOMAIN Tail(s) = 1..(Len(s) - 1)
      /\ \A i \in 1..(Len(s) - 1) : Tail(s)[i] = s[i + 1]
  OBVIOUS
<1>2. \A i \in 1..(Len(s) - 1) : i + 1 \in 1..Len(s) /\ 1 < i + 1 /\ 1 \in 1..Len(s)
  BY <1>1
<1>3. WeightsLast(Tail(s))
  BY <1>1, <1>2 DEF WeightsLast
<1>4. ASSUME Head(s) \in Weights, NEW x \in Range(Tail(s)) PROVE x # TOKENIZER_CONFIG
  <2>1. PICK i \in 1..(Len(s) - 1) : x = s[i + 1]
    BY <1>1, <1>4 DEF Range
  <2>. QED  BY <1>1, <1>2, <1>4, <2>1 DEF WeightsLast
<1>. QED  BY <1>3, <1>4

-----------------------------------------------------------------------------
(* The plans                                                                  *)

LEMMA Names ==
    /\ Range(Shards) = {Shards[1], Shards[2]} /\ Shards[1] # Shards[2]
    /\ Weights = {SAFETENSORS, Shards[1], Shards[2]}
    /\ Weights \cup {CONFIG, TOKENIZER, TOKENIZER_CONFIG, SAFETENSORS_INDEX, GGUF} = Files
    /\ TOKENIZER_CONFIG \notin Weights \cup {CONFIG, TOKENIZER, SAFETENSORS_INDEX, GGUF}
    /\ SAFETENSORS_INDEX \notin Weights \cup {CONFIG, TOKENIZER, TOKENIZER_CONFIG, GGUF}
    /\ {CONFIG, TOKENIZER, GGUF} \cap Weights = {}
    /\ SAFETENSORS \notin Range(Shards)
<1>1. Shards = <<"shard-1.safetensors", "shard-2.safetensors">>
  BY DEF Shards
<1>2. Shards[1] = "shard-1.safetensors" /\ Shards[2] = "shard-2.safetensors"
      /\ DOMAIN Shards = {1, 2}
  BY <1>1
<1>3. Range(Shards) = {Shards[1], Shards[2]}
  BY <1>2 DEF Range
<1>. HIDE DEF Shards
<1>. QED
  BY <1>2, <1>3 DEF Weights, Files, CONFIG, TOKENIZER, TOKENIZER_CONFIG, SAFETENSORS,
     SAFETENSORS_INDEX, GGUF

LEMMA SingleFile ==
    ASSUME NEW f \in Files
    PROVE  <<f>> \in Seq(Files) /\ <<f>> # <<>> /\ Range(<<f>>) = {f} /\ WeightsLast(<<f>>)
<1>. DEFINE s == <<f>>
<1>1. s \in Seq(Files) /\ Len(s) = 1 /\ s[1] = f /\ DOMAIN s = {1} /\ s # <<>>
  OBVIOUS
<1>. HIDE DEF s
<1>2. Range(s) = {f}
  BY <1>1 DEF Range
<1>3. WeightsLast(s)
  BY <1>1 DEF WeightsLast
<1>. QED  BY <1>1, <1>2, <1>3 DEF s

LEMMA NoFile == <<>> \in Seq(Files) /\ Range(<<>>) = {}
<1>1. <<>> \in Seq(Files)
  OBVIOUS
<1>. QED  BY <1>1, RangeEmpty

LEMMA SmallFiles ==
    ASSUME NEW available
    PROVE  /\ small_files(available) \in Seq(Files)
           /\ Range(small_files(available)) =
                  {CONFIG, TOKENIZER} \cup ({TOKENIZER_CONFIG} \cap available)
<1>. DEFINE s == <<CONFIG, TOKENIZER>>
            t == IF TOKENIZER_CONFIG \in available THEN <<TOKENIZER_CONFIG>> ELSE <<>>
<1>1. CONFIG \in Files /\ TOKENIZER \in Files /\ TOKENIZER_CONFIG \in Files
  BY Names
<1>2. s \in Seq(Files) /\ Range(s) = {CONFIG, TOKENIZER}
  <2>1. s \in Seq(Files) /\ DOMAIN s = {1, 2} /\ s[1] = CONFIG /\ s[2] = TOKENIZER
    BY <1>1
  <2>. QED  BY <2>1 DEF Range
<1>3. t \in Seq(Files) /\ Range(t) = {TOKENIZER_CONFIG} \cap available
  <2>1. CASE TOKENIZER_CONFIG \in available
    BY <1>1, <2>1, SingleFile
  <2>2. CASE TOKENIZER_CONFIG \notin available
    BY <2>2, NoFile
  <2>. QED  BY <2>1, <2>2
<1>. HIDE DEF s, t
<1>4. small_files(available) = s \o t
  BY DEF small_files, s, t
<1>. QED  BY <1>2, <1>3, <1>4, RangeCat

LEMMA InOrder ==
    ASSUME NEW shards \in SUBSET Range(Shards)
    PROVE  in_order(shards) \in Seq(Files) /\ Range(in_order(shards)) = shards
<1>. DEFINE s == IF Shards[1] \in shards THEN <<Shards[1]>> ELSE <<>>
            t == IF Shards[2] \in shards THEN <<Shards[2]>> ELSE <<>>
<1>1. Shards[1] \in Files /\ Shards[2] \in Files
  BY Names
<1>2. s \in Seq(Files) /\ Range(s) = {Shards[1]} \cap shards
  <2>1. CASE Shards[1] \in shards
    BY <1>1, <2>1, SingleFile
  <2>2. CASE Shards[1] \notin shards
    BY <2>2, NoFile
  <2>. QED  BY <2>1, <2>2
<1>3. t \in Seq(Files) /\ Range(t) = {Shards[2]} \cap shards
  <2>1. CASE Shards[2] \in shards
    BY <1>1, <2>1, SingleFile
  <2>2. CASE Shards[2] \notin shards
    BY <2>2, NoFile
  <2>. QED  BY <2>1, <2>2
<1>. HIDE DEF s, t
<1>4. in_order(shards) = s \o t
  BY DEF in_order, s, t
<1>5. Range(in_order(shards)) = Range(s) \cup Range(t) /\ in_order(shards) \in Seq(Files)
  BY <1>2, <1>3, <1>4, RangeCat
<1>. QED  BY <1>2, <1>3, <1>5, Names

\* A plan is made if the required files are there, and then it holds them.
Plannable(available) ==
    /\ {CONFIG, TOKENIZER} \subseteq available
    /\ {SAFETENSORS, SAFETENSORS_INDEX} \cap available # {}
Basis(available) == {CONFIG, TOKENIZER} \cup ({TOKENIZER_CONFIG} \cap available)

LEMMA Plan ==
    ASSUME NEW available
    PROVE  LET plan == plan_safetensors(available)
           IN  /\ plan \in Seq(Files)
               /\ plan # <<>> <=> Plannable(available)
               /\ plan # <<>> =>
                     /\ Range(plan) = Basis(available) \cup
                           {IF is_indexed(available) THEN SAFETENSORS_INDEX ELSE SAFETENSORS}
                     /\ is_indexed(available) => Head(plan) = SAFETENSORS_INDEX
                     /\ WeightsLast(plan)
<1>. DEFINE plan == plan_safetensors(available)
            small == small_files(available)
<1>s. small \in Seq(Files) /\ Range(small) = Basis(available)
  BY SmallFiles DEF Basis
<1>w. SAFETENSORS_INDEX \in Files /\ SAFETENSORS \in Files
  BY Names DEF Weights
<1>1. CASE ~Plannable(available)
  <2>1. plan = <<>>
    BY <1>1 DEF plan_safetensors, Plannable
  <2>. QED  BY <1>1, <2>1, NoFile
<1>2. CASE Plannable(available) /\ is_indexed(available)
  <2>. DEFINE first == <<SAFETENSORS_INDEX>>
  <2>1. first \in Seq(Files) /\ Range(first) = {SAFETENSORS_INDEX}
    BY <1>w, SingleFile
  <2>2. Len(first) = 1 /\ first[1] = SAFETENSORS_INDEX
    OBVIOUS
  <2>. HIDE DEF first
  <2>3. plan = first \o small
    BY <1>2 DEF plan_safetensors, Plannable, first
  <2>4. plan \in Seq(Files) /\ Range(plan) = {SAFETENSORS_INDEX} \cup Basis(available)
    BY <1>s, <2>1, <2>3, RangeCat
  <2>5. plan # <<>>
    BY <2>4, RangeEmpty
  <2>6. Head(plan) = SAFETENSORS_INDEX
    <3>1. Head(first \o small) = first[1]
      BY <1>s, <2>1, <2>2
    <3>. QED  BY <2>2, <2>3, <3>1
  <2>7. WeightsLast(plan)
    <3>1. Range(plan) \cap Weights = {} /\ TOKENIZER_CONFIG \notin Range(<<>>)
      BY <2>4, NoFile, Names DEF Basis
    <3>2. \A i \in 1..Len(plan) : plan[i] \in Range(plan)
      BY <2>4 DEF Range
    <3>. QED  BY <3>1, <3>2 DEF WeightsLast
  <2>. QED  BY <1>2, <2>4, <2>5, <2>6, <2>7
<1>3. CASE Plannable(available) /\ ~is_indexed(available)
  <2>. DEFINE last == <<SAFETENSORS>>
  <2>1. last \in Seq(Files) /\ Range(last) = {SAFETENSORS}
    BY <1>w, SingleFile
  <2>. HIDE DEF last
  <2>2. plan = small \o last
    BY <1>3 DEF plan_safetensors, Plannable, last
  <2>3. plan \in Seq(Files) /\ Range(plan) = Basis(available) \cup {SAFETENSORS}
    BY <1>s, <2>1, <2>2, RangeCat
  <2>4. plan # <<>>
    BY <2>3, RangeEmpty
  <2>5. WeightsLast(plan)
    <3>1. Range(small) \cap Weights = {} /\ TOKENIZER_CONFIG \notin Range(last)
      BY <1>s, <2>1, Names DEF Basis
    <3>. QED  BY <1>s, <2>1, <2>2, <3>1, OrderCat
  <2>. QED  BY <1>3, <2>3, <2>4, <2>5
<1>. QED  BY <1>1, <1>2, <1>3

LEMMA IndexedPlan ==
    ASSUME NEW available, NEW shards \in SUBSET Range(Shards)
    PROVE  LET plan == plan_indexed_safetensors(available, shards)
           IN  /\ plan \in Seq(Files)
               /\ plan # <<>> <=> /\ Plannable(available)
                                  /\ is_indexed(available) =>
                                        shards # {} /\ shards \subseteq available
               /\ plan # <<>> =>
                     /\ Range(plan) = Basis(available) \cup
                           (IF is_indexed(available) THEN {SAFETENSORS_INDEX} \cup shards
                            ELSE {SAFETENSORS})
                     /\ is_indexed(available) => Head(plan) = SAFETENSORS_INDEX
                     /\ WeightsLast(plan)
<1>. DEFINE first == plan_safetensors(available)
            plan == plan_indexed_safetensors(available, shards)
            rest == in_order(shards)
<1>1. /\ first \in Seq(Files)
      /\ first # <<>> <=> Plannable(available)
      /\ first # <<>> =>
            /\ Range(first) = Basis(available) \cup
                  {IF is_indexed(available) THEN SAFETENSORS_INDEX ELSE SAFETENSORS}
            /\ is_indexed(available) => Head(first) = SAFETENSORS_INDEX
            /\ WeightsLast(first)
  BY Plan
<1>2. rest \in Seq(Files) /\ Range(rest) = shards
  BY InOrder
<1>3. CASE first = <<>> \/ ~is_indexed(available)
  <2>1. plan = first
    BY <1>3 DEF plan_indexed_safetensors
  <2>. HIDE DEF first, plan
  <2>. QED  BY <1>1, <1>3, <2>1 DEF plan
<1>4. CASE first # <<>> /\ is_indexed(available) /\ (shards = {} \/ ~(shards \subseteq available))
  <2>1. plan = <<>>
    BY <1>4 DEF plan_indexed_safetensors
  <2>. HIDE DEF first, plan
  <2>. QED  BY <1>1, <1>4, <2>1, NoFile DEF plan
<1>5. CASE first # <<>> /\ is_indexed(available) /\ shards # {} /\ shards \subseteq available
  <2>1. plan = first \o rest
    BY <1>5 DEF plan_indexed_safetensors
  <2>. HIDE DEF first, plan, rest
  <2>2. /\ plan \in Seq(Files)
        /\ Range(plan) = Basis(available) \cup {SAFETENSORS_INDEX} \cup shards
    BY <1>1, <1>2, <1>5, <2>1, RangeCat
  <2>3. plan # <<>>
    BY <1>5, <2>2, RangeEmpty
  <2>4. Head(plan) = SAFETENSORS_INDEX
    <3>1. Len(first) \in Nat \ {0} /\ first[1] = SAFETENSORS_INDEX
      BY <1>1, <1>5
    <3>2. Head(first \o rest) = first[1]
      BY <1>1, <1>2, <3>1
    <3>. QED  BY <2>1, <3>1, <3>2
  <2>5. Range(first) \cap Weights = {} /\ TOKENIZER_CONFIG \notin Range(rest)
    BY <1>1, <1>2, <1>5, Names DEF Basis
  <2>6. WeightsLast(plan)
    BY <1>1, <1>2, <2>1, <2>5, OrderCat
  <2>. QED  BY <1>1, <1>5, <2>2, <2>3, <2>4, <2>6 DEF plan
<1>. QED  BY <1>3, <1>4, <1>5

-----------------------------------------------------------------------------
(* The invariant                                                              *)

\* A set of files of a commit that makes a model.
Complete(c, files) ==
    /\ {CONFIG, TOKENIZER} \subseteq files
    /\ HonestHub => {TOKENIZER_CONFIG} \cap Tree[c] \subseteq files
    /\ \/ SAFETENSORS \in files
       \/ SAFETENSORS_INDEX \in files /\ Index[c] # {} /\ Index[c] \subseteq files

LEMMA CompleteModel == \A c : Complete(c, snapshots[c]) => HasModel(c, "safetensors")
BY DEF Complete, HasModel, HasWeights

\* A process that fetches files: what it has and what is left make up the plan, for an
\* indexed one as soon as the index is there; weights come last.
Fetched(p) == {path[1] : path \in paths[p]}
Covered(p) == Fetched(p) \cup Range(todo[p])

Planned(p) ==
    IF Kind(p) = "gguf" THEN GGUF \in Covered(p) /\ Range(todo[p]) \subseteq {GGUF}
    ELSE /\ Plannable(Tree[Pinned(p)])
         /\ IF is_indexed(Tree[Pinned(p)])
            THEN \/ todo[p] = <<SAFETENSORS_INDEX>>
                 \/ \E c \in Commits :
                       /\ <<SAFETENSORS_INDEX, c>> \in paths[p]
                       /\ Index[c] # {} /\ Index[c] \subseteq Tree[Pinned(p)]
                       /\ Basis(Tree[Pinned(p)]) \cup Index[c] \subseteq Covered(p)
            ELSE /\ Basis(Tree[Pinned(p)]) \cup {SAFETENSORS} \subseteq Covered(p)
                 /\ SAFETENSORS_INDEX \notin Range(todo[p])

Fetching(p) ==
    /\ Pinned(p) \in Commits /\ verify_requested_commit(Revision(p), Pinned(p))
    /\ \A path \in paths[p] : path[1] \in snapshots[path[2]]
    /\ HonestHub => \A path \in paths[p] : path[2] = Pinned(p)
    /\ WeightsLast(todo[p])
    /\ Planned(p)

\* What a process may publish or hand out.
Good(p) ==
    /\ Pinned(p) \in Commits /\ verify_requested_commit(Revision(p), Pinned(p))
    /\ HasModel(Pinned(p), Kind(p))
    /\ \A path \in paths[p] : path[2] = Pinned(p) /\ path[1] \in snapshots[Pinned(p)]

Local(p) ==
    /\ pc[p] = "info" => paths[p] = {}
    /\ pc[p] \in {"get", "write_ref"} => Fetching(p)
    /\ pc[p] = "write_ref" => /\ todo[p] # <<>> /\ header[p] \in Commits
                              /\ Head(todo[p]) \in snapshots[header[p]]
                              /\ HonestHub => header[p] = Pinned(p)
    /\ pc[p] = "repair" => Pinned(p) \in Commits /\ result[p] \in {"hub", "incomplete"}
    /\ pc[p] = "publish" \/ (pc[p] = "done" /\ result[p] = "ok") => Good(p)
    /\ pc[p] = "lookup" => Kind(p) = "gguf"
    /\ pc[p] = "snapshot" =>
          IF Kind(p) = "gguf"
          THEN \E c \in Commits : paths[p] = {<<GGUF, c>>} /\ GGUF \in snapshots[c]
          ELSE paths[p] = {}
    /\ pc[p] = "list" => /\ Pinned(p) \in Commits /\ Kind(p) # "gguf"
                         /\ verify_requested_commit(Revision(p), Pinned(p))
    /\ created[p] => pc[p] \in {"write_ref", "repair", "publish"}

\* The cache: snapshots hold files of their commits, an honest hub's refs name themselves
\* and its weights come after the tokenizer configuration.
CacheInv ==
    /\ \A c \in Commits : snapshots[c] \subseteq Tree[c]
    /\ AliasComplete
    /\ HonestHub => \A c \in Commits : refs[c] \in {None, Empty, c}
    /\ HonestHub => \A c \in Commits :
          Weights \cap snapshots[c] # {} /\ TOKENIZER_CONFIG \in Tree[c] =>
              TOKENIZER_CONFIG \in snapshots[c]

Inv == TypeOK /\ CacheInv /\ \A p \in Resolvers : Local(p)

-----------------------------------------------------------------------------
(* What a step of one process leaves alone                                    *)

Grown == \A c \in Commits : snapshots[c] \subseteq snapshots'[c]
Same(q) ==
    /\ pc'[q] = pc[q] /\ request'[q] = request[q] /\ sha'[q] = sha[q] /\ todo'[q] = todo[q]
    /\ paths'[q] = paths[q] /\ header'[q] = header[q] /\ created'[q] = created[q]
    /\ result'[q] = result[q]

LEMMA ModelsStay ==
    ASSUME Grown, NEW c \in Commits, NEW kind, HasModel(c, kind) PROVE HasModel(c, kind)'
BY DEF Grown, HasModel, HasWeights

LEMMA LocalStays ==
    ASSUME TypeOK, Grown, NEW q \in Resolvers, Same(q), Local(q) PROVE Local(q)'
<1>1. /\ Pinned(q)' = Pinned(q) /\ Kind(q)' = Kind(q) /\ Revision(q)' = Revision(q)
      /\ Fetched(q)' = Fetched(q) /\ Covered(q)' = Covered(q)
  BY DEF Same, Pinned, Kind, Revision, Fetched, Covered
<1>2. paths[q] \subseteq Files \X Commits
  BY DEF TypeOK
<1>3. \A path \in paths[q] : path[2] \in Commits
  BY <1>2
<1>4. Planned(q) => Planned(q)'
  BY <1>1 DEF Planned, Same
<1>5. Fetching(q) => Fetching(q)'
  BY <1>1, <1>3, <1>4 DEF Fetching, Same, Grown
<1>6. Good(q) => Good(q)'
  BY <1>1, ModelsStay DEF Good, Same, Grown
<1>7. (pc[q] = "write_ref" => /\ todo[q] # <<>> /\ header[q] \in Commits
                              /\ Head(todo[q]) \in snapshots[header[q]]
                              /\ HonestHub => header[q] = Pinned(q))
      => (pc[q] = "write_ref" => /\ todo[q] # <<>> /\ header[q] \in Commits
                                 /\ Head(todo[q]) \in snapshots'[header[q]]
                                 /\ HonestHub => header[q] = Pinned(q))
  BY DEF Grown
<1>8. (\E c \in Commits : paths[q] = {<<GGUF, c>>} /\ GGUF \in snapshots[c])
      => \E c \in Commits : paths[q] = {<<GGUF, c>>} /\ GGUF \in snapshots'[c]
  BY DEF Grown
<1>. QED  BY <1>1, <1>5, <1>6, <1>7, <1>8 DEF Local, Same

LEMMA Lift ==
    ASSUME Inv, NEW p \in Resolvers, TypeOK', CacheInv', Local(p)', Grown,
           \A q \in Resolvers \ {p} : Same(q)
    PROVE  Inv'
<1>1. ASSUME NEW q \in Resolvers PROVE Local(q)'
  <2>1. CASE q = p
    BY <2>1
  <2>2. CASE q # p
    BY <2>2, LocalStays DEF Inv
  <2>. QED  BY <2>1, <2>2
<1>. QED  BY <1>1 DEF Inv

\* Steps that leave the cache alone, and steps that write a ref.
LEMMA CacheStays ==
    ASSUME CacheInv, UNCHANGED cacheVars PROVE CacheInv' /\ Grown
BY DEF CacheInv, cacheVars, Grown, AliasComplete, HasModel, HasWeights

LEMMA RefWritten ==
    ASSUME TypeOK, CacheInv, UNCHANGED snapshots, NEW r \in Revisions,
           NEW v \in Commits \cup {Empty}, refs' = [refs EXCEPT ![r] = v],
           r = Branch /\ v \in Commits =>
               \E kind \in {"gguf", "safetensors"} : HasModel(v, kind),
           HonestHub /\ r \in Commits => v \in {Empty, r}
    PROVE  CacheInv' /\ Grown
<1>1. Branch \in Revisions /\ Commits \subseteq Revisions /\ Branch \notin Commits
  BY NamesAssumption DEF Revisions
<1>2. refs \in [Revisions -> Commits \cup {None, Empty}]
  BY DEF TypeOK
<1>3. \A c \in Commits, kind \in {"gguf", "safetensors"} :
          HasModel(c, kind)' <=> HasModel(c, kind)
  BY DEF HasModel, HasWeights
<1>4. AliasComplete'
  BY <1>1, <1>2, <1>3 DEF AliasComplete, CacheInv
<1>5. HonestHub => \A c \in Commits : refs'[c] \in {None, Empty, c}
  BY <1>1, <1>2 DEF CacheInv
<1>. QED  BY <1>4, <1>5 DEF CacheInv, Grown

-----------------------------------------------------------------------------
(* The steps                                                                  *)

\* What every step relies on.
LEMMA Facts ==
    ASSUME Inv, NEW p \in Resolvers
    PROVE  /\ TypeOK /\ CacheInv /\ Local(p)
           /\ head \in Commits /\ refs \in [Revisions -> Commits \cup {None, Empty}]
           /\ snapshots \in [Commits -> SUBSET Files]
           /\ pc \in [Resolvers -> Steps] /\ request \in [Resolvers -> Requests]
           /\ sha \in [Resolvers -> Commits \cup {None}] /\ todo \in [Resolvers -> Seq(Files)]
           /\ paths \in [Resolvers -> SUBSET (Files \X Commits)]
           /\ header \in [Resolvers -> Commits \cup {None}]
           /\ created \in [Resolvers -> BOOLEAN] /\ result \in [Resolvers -> Results]
           /\ runs \in [Resolvers -> 0..MaxRuns] /\ crashes \in 0..MaxCrashes
           /\ request[p] \in Requests /\ Kind(p) \in {"gguf", "safetensors"}
           /\ Revision(p) \in Revisions
           /\ Commits \subseteq Revisions /\ Branch \in Revisions /\ Branch \notin Commits
           /\ None \notin Commits /\ Empty \notin Commits
<1>1. TypeOK /\ CacheInv /\ Local(p)
  BY DEF Inv
<1>2. request[p] \in Requests
  BY <1>1 DEF TypeOK
<1>3. request[p] \in Request
  BY <1>2, RepositoryAssumption
<1>4. Kind(p) \in {"gguf", "safetensors"} /\ Revision(p) \in Revisions
  BY <1>3 DEF Request, Kind, Revision
<1>5. /\ Commits \subseteq Revisions /\ Branch \in Revisions /\ Branch \notin Commits
      /\ None \notin Commits /\ Empty \notin Commits
  BY NamesAssumption DEF Revisions
<1>. QED  BY <1>1, <1>2, <1>4, <1>5 DEF TypeOK

LEMMA InitStep == Init => Inv
<1>. SUFFICES ASSUME Init PROVE Inv
  OBVIOUS
<1>1. /\ Commits \subseteq Revisions /\ Branch \in Revisions /\ Branch \notin Commits
      /\ None \notin Commits /\ Empty \notin Commits
  BY NamesAssumption DEF Revisions
<1>2. /\ refs \in [Revisions -> Commits \cup {None, Empty}]
      /\ snapshots \in [Commits -> SUBSET Files] /\ CacheInv
  <2>1. CASE refs = [r \in Revisions |-> None] /\ snapshots = [c \in Commits |-> {}]
    <3>1. refs[Branch] \notin Commits
      BY <1>1, <2>1
    <3>2. CacheInv
      BY <1>1, <2>1, <3>1 DEF CacheInv, AliasComplete
    <3>. QED  BY <2>1, <3>2
  <2>2. ASSUME NEW c \in Commits, NEW q \in Requests,
               q.revision = Branch, retrieved(c, q.kind) # {},
               refs = [r \in Revisions |-> IF r \in {Branch, c} THEN c ELSE None],
               snapshots = [d \in Commits |-> IF d = c THEN retrieved(c, q.kind) ELSE {}]
        PROVE  /\ refs \in [Revisions -> Commits \cup {None, Empty}]
               /\ snapshots \in [Commits -> SUBSET Files] /\ CacheInv
    <3>. DEFINE files == retrieved(c, q.kind)
                plan == plan_indexed_safetensors(Tree[c], Index[c])
    <3>1. q.kind \in {"gguf", "safetensors"} /\ Tree[c] \subseteq Files
          /\ Index[c] \in SUBSET Range(Shards)
      BY RepositoryAssumption DEF Request
    <3>2. CASE q.kind = "gguf"
      <4>1. files = {GGUF} /\ GGUF \in Tree[c]
        BY <2>2, <3>2 DEF retrieved
      <4>2. snapshots[c] = {GGUF} /\ refs[Branch] = c
        BY <1>1, <2>2, <4>1
      <4>3. HasModel(c, "gguf")
        BY <4>2 DEF HasModel
      <4>4. GGUF \notin Weights
        BY Names
      <4>5. CacheInv
        BY <1>1, <2>2, <4>1, <4>2, <4>3, <4>4 DEF CacheInv, AliasComplete
      <4>. QED  BY <1>1, <2>2, <3>1, <4>1, <4>5
    <3>3. CASE q.kind = "safetensors"
      <4>1. files = Range(plan)
        BY <3>3 DEF retrieved
      <4>2. /\ plan \in Seq(Files)
            /\ plan # <<>> <=> /\ Plannable(Tree[c])
                               /\ is_indexed(Tree[c]) => Index[c] # {} /\ Index[c] \subseteq Tree[c]
            /\ plan # <<>> =>
                 Range(plan) = Basis(Tree[c]) \cup
                   (IF is_indexed(Tree[c]) THEN {SAFETENSORS_INDEX} \cup Index[c]
                    ELSE {SAFETENSORS})
        BY <3>1, IndexedPlan
      <4>. HIDE DEF plan
      <4>3. plan # <<>>
        BY <2>2, <4>1, <4>2, NoFile
      <4>4. Plannable(Tree[c])
        BY <4>2, <4>3
      <4>5. files \subseteq Tree[c] /\ {TOKENIZER_CONFIG} \cap Tree[c] \subseteq files
        BY <4>1, <4>2, <4>3 DEF Plannable, Basis, is_indexed
      <4>6. Complete(c, files)
        BY <4>1, <4>2, <4>3, <4>5 DEF Complete, Plannable, is_indexed, Basis
      <4>. HIDE DEF files
      <4>7. snapshots[c] = files /\ refs[Branch] = c
        BY <1>1, <2>2 DEF files
      <4>8. HasModel(c, "safetensors")
        BY <4>6, <4>7, CompleteModel
      <4>9. snapshots = [d \in Commits |-> IF d = c THEN files ELSE {}]
        BY <2>2 DEF files
      <4>10. CacheInv
        BY <1>1, <2>2, <4>5, <4>7, <4>8, <4>9 DEF CacheInv, AliasComplete
      <4>. QED  BY <1>1, <2>2, <3>1, <4>5, <4>9, <4>10
    <3>. QED  BY <3>1, <3>2, <3>3
  <2>. QED  BY <2>1, <2>2 DEF Init, EarlierCache
<1>3. \A p \in Resolvers : pc[p] = "idle" /\ ~created[p]
  BY DEF Init
<1>4. \A p \in Resolvers : Local(p)
  BY <1>3 DEF Local
<1>5. (CHOOSE q \in Requests : TRUE) \in Requests
  BY RepositoryAssumption
<1>6. TypeOK
  BY <1>2, <1>5, BoundsAssumption DEF Init, TypeOK, Steps, Results
<1>. QED  BY <1>2, <1>4, <1>6 DEF Inv

LEMMA StartStep ==
    ASSUME Inv, NEW p \in Resolvers, NEW q \in Requests, Start(p, q) PROVE Inv'
<1>f. UNCHANGED cacheVars
  BY DEF Start
<1>1. CacheInv' /\ Grown
  BY <1>f, CacheStays DEF Inv
<1>2. \A r \in Resolvers \ {p} : Same(r)
  BY Facts DEF Start, Same
<1>3. q.kind \in {"gguf", "safetensors"}
  BY RepositoryAssumption DEF Request
<1>4. /\ pc'[p] = IF ~q.offline THEN "info" ELSE IF q.kind = "gguf" THEN "lookup" ELSE "snapshot"
      /\ request'[p] = q /\ paths'[p] = {} /\ created'[p] = FALSE
  BY Facts DEF Start
<1>5. Local(p)'
  BY <1>3, <1>4 DEF Local, Kind
<1>6. TypeOK'
  <2>1. pc' \in [Resolvers -> Steps] /\ result' \in [Resolvers -> Results]
    BY Facts DEF Start, Steps, Results
  <2>2. <<>> \in Seq(Files) /\ runs[p] + 1 \in 0..MaxRuns
    BY Facts, BoundsAssumption DEF Start
  <2>. QED  BY <1>f, <2>1, <2>2, Facts DEF Start, TypeOK, cacheVars
<1>. QED  BY <1>1, <1>2, <1>5, <1>6, Lift

LEMMA CrashStep ==
    ASSUME Inv, NEW p \in Resolvers, Crash(p) PROVE Inv'
<1>1. CacheInv' /\ Grown
  BY CacheStays DEF Inv, Crash
<1>2. \A r \in Resolvers \ {p} : Same(r)
  BY Facts DEF Crash, Same
<1>3. pc'[p] = "idle" /\ created'[p] = FALSE
  BY Facts DEF Crash
<1>4. Local(p)'
  BY <1>3 DEF Local
<1>5. TypeOK'
  <2>1. pc' \in [Resolvers -> Steps] /\ crashes + 1 \in 0..MaxCrashes
    BY Facts, BoundsAssumption DEF Crash, Steps
  <2>. QED  BY <2>1, Facts DEF Crash, TypeOK, cacheVars
<1>. QED  BY <1>1, <1>2, <1>4, <1>5, Lift

LEMMA PushStep == ASSUME Inv, NEW c \in Commits, Push(c) PROVE Inv'
<1>1. CacheInv' /\ Grown
  BY CacheStays DEF Inv, Push
<1>2. \A r \in Resolvers : Local(r)'
  BY <1>1, LocalStays DEF Inv, Push, localVars, Same
<1>3. TypeOK'
  BY DEF Inv, TypeOK, Push, cacheVars, localVars, boundVars
<1>. QED  BY <1>1, <1>2, <1>3 DEF Inv

\* A resolve that ends without a success.
LEMMA FailedStep ==
    ASSUME Inv, NEW p \in Resolvers, TypeOK', UNCHANGED cacheVars,
           \A q \in Resolvers \ {p} : Same(q),
           pc'[p] = "done", result'[p] # "ok", ~created'[p]
    PROVE  Inv'
<1>1. CacheInv' /\ Grown
  BY CacheStays DEF Inv
<1>2. Local(p)'
  BY DEF Local
<1>. QED  BY <1>1, <1>2, Lift

\* The failures that end a retrieval by repairing the pinned ref.
LEMMA RepairedStep ==
    ASSUME Inv, NEW p \in Resolvers, TypeOK', UNCHANGED cacheVars,
           \A q \in Resolvers \ {p} : Same(q),
           Pinned(p) \in Commits, sha'[p] = sha[p],
           pc'[p] = "repair", result'[p] \in {"hub", "incomplete"}
    PROVE  Inv'
<1>1. CacheInv' /\ Grown
  BY CacheStays DEF Inv
<1>2. Pinned(p)' = Pinned(p)
  BY DEF Pinned
<1>3. Local(p)'
  BY <1>2 DEF Local
<1>. QED  BY <1>1, <1>3, Lift

LEMMA Moves ==
    ASSUME Inv, NEW p \in Resolvers
    PROVE  /\ \A s \in Steps : [pc EXCEPT ![p] = s] \in [Resolvers -> Steps]
           /\ \A r \in Results : [result EXCEPT ![p] = r] \in [Resolvers -> Results]
           /\ {"info", "get", "write_ref", "repair", "publish", "lookup", "snapshot", "list",
               "done"} \subseteq Steps
           /\ {"ok", "hub", "io", "cache_miss", "incomplete"} \subseteq Results
<1>1. pc \in [Resolvers -> Steps] /\ result \in [Resolvers -> Results]
  BY Facts
<1>. QED  BY <1>1 DEF Steps, Results

LEMMA InfoStep ==
    ASSUME Inv, NEW p \in Resolvers, NEW c \in Commits, Info(p, c) PROVE Inv'
<1>. DEFINE plan == IF Kind(p) = "gguf" THEN <<GGUF>> ELSE plan_safetensors(Tree[c])
            first == IF Kind(p) = "gguf" \/ ~is_indexed(Tree[c]) THEN plan
                     ELSE <<SAFETENSORS_INDEX>>
            refused == ~verify_requested_commit(Revision(p), c) \/ plan = <<>>
<1>0. /\ pc[p] = "info"
      /\ IF refused THEN Finish(p, "incomplete") /\ UNCHANGED <<sha, todo>>
         ELSE /\ pc' = [pc EXCEPT ![p] = "get"] /\ sha' = [sha EXCEPT ![p] = c]
              /\ todo' = [todo EXCEPT ![p] = first] /\ UNCHANGED result
      /\ UNCHANGED <<head, cacheVars, request, paths, header, created, boundVars>>
  BY DEF Info
<1>1. ~created[p]
  BY <1>0, Facts DEF Local
<1>2. GGUF \in Files /\ SAFETENSORS_INDEX \in Files
  BY Names
<1>3. plan \in Seq(Files) /\ first \in Seq(Files)
  BY <1>2, Plan, SingleFile
<1>. HIDE DEF refused
<1>4. CASE refused
  <2>1. \A q \in Resolvers \ {p} : Same(q)
    BY <1>0, <1>4, Facts DEF Finish, Same
  <2>2. pc'[p] = "done" /\ result'[p] = "incomplete" /\ ~created'[p]
    BY <1>0, <1>1, <1>4, Facts DEF Finish
  <2>3. TypeOK'
    <3>0. pc' = [pc EXCEPT ![p] = "done"] /\ result' = [result EXCEPT ![p] = "incomplete"]
      BY <1>0, <1>4 DEF Finish
    <3>1. pc' \in [Resolvers -> Steps] /\ result' \in [Resolvers -> Results]
      BY <3>0, Moves
    <3>. QED  BY <1>0, <1>4, <3>1, Facts DEF TypeOK, cacheVars, boundVars
  <2>. QED  BY <1>0, <2>1, <2>2, <2>3, FailedStep
<1>5. CASE ~refused
  <2>1. \A q \in Resolvers \ {p} : Same(q)
    BY <1>0, <1>5, Facts DEF Same
  <2>2. CacheInv' /\ Grown
    BY <1>0, CacheStays DEF Inv
  <2>3. TypeOK'
    <3>0. pc' = [pc EXCEPT ![p] = "get"]
      BY <1>0, <1>5
    <3>1. pc' \in [Resolvers -> Steps]
      BY <3>0, Moves
    <3>2. todo' \in [Resolvers -> Seq(Files)]
      BY <1>0, <1>3, <1>5, Facts
    <3>. QED  BY <1>0, <1>5, <3>1, <3>2, Facts DEF TypeOK, cacheVars, boundVars
  <2>4. /\ pc'[p] = "get" /\ Pinned(p)' = c /\ todo'[p] = first /\ created'[p] = FALSE
        /\ Kind(p)' = Kind(p) /\ Revision(p)' = Revision(p)
    BY <1>0, <1>1, <1>5, Facts DEF Pinned, Kind, Revision
  <2>5. paths' = paths /\ snapshots' = snapshots
    BY <1>0 DEF cacheVars
  <2>6. paths'[p] = {}
    BY <1>0, <2>5, Facts DEF Local
  <2>7. Fetched(p)' = {} /\ Covered(p)' = Range(first)
    BY <2>4, <2>6 DEF Fetched, Covered
  <2>8. verify_requested_commit(Revision(p), c) /\ plan # <<>>
    BY <1>5 DEF refused
  <2>9. WeightsLast(first) /\ Planned(p)'
    <3>1. CASE Kind(p) = "gguf"
      <4>1. first = <<GGUF>>
        BY <3>1
      <4>. HIDE DEF first, plan
      <4>2. Range(first) = {GGUF} /\ WeightsLast(first)
        BY <1>2, <4>1, SingleFile
      <4>. QED  BY <2>4, <2>7, <3>1, <4>2 DEF Planned
    <3>2. CASE Kind(p) # "gguf" /\ is_indexed(Tree[c])
      <4>1. first = <<SAFETENSORS_INDEX>> /\ plan = plan_safetensors(Tree[c])
        BY <3>2
      <4>. HIDE DEF first, plan
      <4>2. Plannable(Tree[c])
        BY <2>8, <4>1, Plan
      <4>3. WeightsLast(first)
        BY <1>2, <4>1, SingleFile
      <4>. QED  BY <2>4, <3>2, <4>1, <4>2, <4>3 DEF Planned
    <3>3. CASE Kind(p) # "gguf" /\ ~is_indexed(Tree[c])
      <4>1. first = plan_safetensors(Tree[c]) /\ plan = plan_safetensors(Tree[c])
        BY <3>3
      <4>. HIDE DEF first, plan
      <4>2. /\ Plannable(Tree[c]) /\ WeightsLast(first)
            /\ Range(first) = Basis(Tree[c]) \cup {SAFETENSORS}
        BY <2>8, <3>3, <4>1, Plan
      <4>3. SAFETENSORS_INDEX \notin Range(first)
        BY <4>2, Names DEF Basis, Weights
      <4>. QED  BY <2>4, <2>7, <3>3, <4>2, <4>3 DEF Planned
    <3>. QED  BY <3>1, <3>2, <3>3
  <2>. HIDE DEF first, plan
  <2>10. Fetching(p)'
    BY <2>4, <2>6, <2>8, <2>9 DEF Fetching
  <2>11. Local(p)'
    BY <2>4, <2>10 DEF Local
  <2>. QED  BY <2>1, <2>2, <2>3, <2>11, Lift
<1>. QED  BY <1>4, <1>5

LEMMA InfoFailsStep == ASSUME Inv, NEW p \in Resolvers, InfoFails(p) PROVE Inv'
<1>1. \A q \in Resolvers \ {p} : Same(q)
  BY Facts DEF InfoFails, Finish, Same
<1>2. pc'[p] = "done" /\ result'[p] = "hub" /\ ~created'[p]
  BY Facts DEF InfoFails, Finish, Local
<1>3. TypeOK'
  <2>1. pc' \in [Resolvers -> Steps] /\ result' \in [Resolvers -> Results]
    BY Facts DEF InfoFails, Finish, Steps, Results
  <2>. QED  BY <2>1, Facts DEF InfoFails, TypeOK, cacheVars, boundVars
<1>. QED  BY <1>1, <1>2, <1>3, FailedStep DEF InfoFails

\* The file that was got is added to the paths, and an index brings in the plan: either the
\* process goes on with the files its plan still needs, or the plan has failed.
LEMMA GotFile ==
    ASSUME Inv, NEW p \in Resolvers, NEW c \in Commits, Fetching(p), todo[p] # <<>>,
           Head(todo[p]) \in snapshots[c], HonestHub => c = Pinned(p),
           UNCHANGED <<snapshots, request, sha>>, Got(p, Head(todo[p]), c)
    PROVE  /\ \A q \in Resolvers \ {p} :
                 pc'[q] = pc[q] /\ todo'[q] = todo[q] /\ paths'[q] = paths[q] /\ result'[q] = result[q]
           /\ pc' \in [Resolvers -> Steps] /\ todo' \in [Resolvers -> Seq(Files)]
           /\ paths' \in [Resolvers -> SUBSET (Files \X Commits)]
           /\ result' \in [Resolvers -> Results]
           /\ \/ pc'[p] = "get" /\ Fetching(p)'
              \/ pc'[p] = "repair" /\ result'[p] = "incomplete"
<1>. DEFINE f == Head(todo[p])
            plan == plan_indexed_safetensors(Tree[Pinned(p)], Index[c])
            rest == IF f = SAFETENSORS_INDEX /\ plan # <<>> THEN Tail(plan) ELSE Tail(todo[p])
            indexed == is_indexed(Tree[Pinned(p)])
<1>0. /\ paths' = [paths EXCEPT ![p] = paths[p] \cup {<<f, c>>}]
      /\ todo' = [todo EXCEPT ![p] = rest]
      /\ IF f = SAFETENSORS_INDEX /\ plan = <<>>
         THEN pc' = [pc EXCEPT ![p] = "repair"] /\ result' = [result EXCEPT ![p] = "incomplete"]
         ELSE pc' = [pc EXCEPT ![p] = "get"] /\ UNCHANGED result
  BY DEF Got, record_path, FailPinned
<1>1. /\ f \in Files /\ Tail(todo[p]) \in Seq(Files)
      /\ Range(todo[p]) = {f} \cup Range(Tail(todo[p]))
  BY Facts, RangeTail
<1>2. Pinned(p) \in Commits /\ Index[c] \in SUBSET Range(Shards)
  BY RepositoryAssumption DEF Fetching
<1>3. /\ plan \in Seq(Files)
      /\ plan # <<>> <=> /\ Plannable(Tree[Pinned(p)])
                         /\ indexed => Index[c] # {} /\ Index[c] \subseteq Tree[Pinned(p)]
      /\ plan # <<>> =>
            /\ Range(plan) = Basis(Tree[Pinned(p)]) \cup
                  (IF indexed THEN {SAFETENSORS_INDEX} \cup Index[c] ELSE {SAFETENSORS})
            /\ indexed => Head(plan) = SAFETENSORS_INDEX
            /\ WeightsLast(plan)
  BY <1>2, IndexedPlan
<1>. HIDE DEF plan
<1>4. plan # <<>> => Tail(plan) \in Seq(Files) /\ Range(plan) = {Head(plan)} \cup Range(Tail(plan))
  BY <1>3, RangeTail
<1>5. rest \in Seq(Files)
  BY <1>1, <1>4
<1>6. /\ \A q \in Resolvers \ {p} :
            pc'[q] = pc[q] /\ todo'[q] = todo[q] /\ paths'[q] = paths[q] /\ result'[q] = result[q]
      /\ todo' \in [Resolvers -> Seq(Files)]
      /\ paths' \in [Resolvers -> SUBSET (Files \X Commits)]
  <2>. HIDE DEF f, rest
  <2>1. paths[p] \cup {<<f, c>>} \in SUBSET (Files \X Commits)
    BY <1>1, Facts
  <2>. QED  BY <1>0, <1>5, <2>1, Facts
<1>7. pc' \in [Resolvers -> Steps] /\ result' \in [Resolvers -> Results]
  BY <1>0, Moves, Facts
<1>8. CASE f = SAFETENSORS_INDEX /\ plan = <<>>
  <2>1. pc'[p] = "repair" /\ result'[p] = "incomplete"
    BY <1>0, <1>8, Facts
  <2>. QED  BY <1>6, <1>7, <2>1
<1>9. CASE ~(f = SAFETENSORS_INDEX /\ plan = <<>>)
  <2>. HIDE DEF f, rest, indexed
  <2>1. /\ pc'[p] = "get" /\ paths'[p] = paths[p] \cup {<<f, c>>} /\ todo'[p] = rest
        /\ Pinned(p)' = Pinned(p) /\ Kind(p)' = Kind(p) /\ Revision(p)' = Revision(p)
        /\ snapshots' = snapshots
    BY <1>0, <1>9, Facts DEF Pinned, Kind, Revision
  <2>2. Fetched(p)' = Fetched(p) \cup {f}
    <3>. DEFINE new == <<f, c>>
    <3>1. new[1] = f
      OBVIOUS
    <3>2. paths'[p] = paths[p] \cup {new}
      BY <2>1
    <3>. HIDE DEF new
    <3>. QED  BY <3>1, <3>2 DEF Fetched
  <2>3. Covered(p)' = Fetched(p) \cup {f} \cup Range(rest)
    BY <2>1, <2>2 DEF Covered
  <2>4. WeightsLast(rest) /\ Planned(p)'
    <3>1. CASE f = SAFETENSORS_INDEX
      <4>1. Kind(p) # "gguf" /\ indexed
        BY <1>1, <3>1, Names DEF Fetching, Planned, indexed
      <4>2. rest = Tail(plan) /\ plan # <<>>
        BY <1>9, <3>1 DEF rest
      <4>3. SAFETENSORS_INDEX \notin Basis(Tree[Pinned(p)]) \cup Index[c]
        BY <1>2, Names DEF Basis, Weights
      <4>4. Basis(Tree[Pinned(p)]) \cup Index[c] \subseteq Range(rest)
        BY <1>3, <1>4, <4>1, <4>2, <4>3
      <4>5. WeightsLast(rest)
        BY <1>3, <4>2, OrderTail
      <4>6. <<SAFETENSORS_INDEX, c>> \in paths'[p]
        BY <2>1, <3>1
      <4>. QED  BY <1>3, <2>1, <2>3, <3>1, <4>1, <4>2, <4>4, <4>5, <4>6 DEF Planned, indexed
    <3>2. CASE f # SAFETENSORS_INDEX
      <4>1. rest = Tail(todo[p])
        BY <3>2 DEF rest
      <4>2. Covered(p)' = Covered(p) /\ Range(rest) \subseteq Range(todo[p])
        BY <1>1, <2>3, <4>1 DEF Covered
      <4>3. WeightsLast(rest)
        BY <4>1, Facts, OrderTail DEF Fetching
      <4>4. todo[p] # <<SAFETENSORS_INDEX>>
        BY <3>2 DEF f
      <4>5. CASE Kind(p) = "gguf"
        BY <2>1, <4>2, <4>3, <4>5 DEF Fetching, Planned
      <4>6. CASE Kind(p) # "gguf" /\ indexed
        <5>1. PICK d \in Commits : /\ <<SAFETENSORS_INDEX, d>> \in paths[p]
                                   /\ Index[d] # {} /\ Index[d] \subseteq Tree[Pinned(p)]
                                   /\ Basis(Tree[Pinned(p)]) \cup Index[d] \subseteq Covered(p)
          BY <4>4, <4>6 DEF Fetching, Planned, indexed
        <5>2. <<SAFETENSORS_INDEX, d>> \in paths'[p]
          BY <2>1, <5>1
        <5>. QED  BY <2>1, <4>2, <4>3, <4>6, <5>1, <5>2 DEF Fetching, Planned, indexed
      <4>7. CASE Kind(p) # "gguf" /\ ~indexed
        BY <2>1, <4>2, <4>3, <4>7 DEF Fetching, Planned, indexed
      <4>. QED  BY <4>5, <4>6, <4>7
    <3>. QED  BY <3>1, <3>2
  <2>5. \A path \in paths'[p] : path[1] \in snapshots'[path[2]] /\ (HonestHub => path[2] = Pinned(p))
    BY <2>1 DEF Fetching, f
  <2>6. Fetching(p)'
    BY <2>1, <2>4, <2>5 DEF Fetching
  <2>. QED  BY <1>6, <1>7, <2>1, <2>6
<1>. QED  BY <1>8, <1>9

LEMMA GetCachedStep == ASSUME Inv, NEW p \in Resolvers, GetCached(p) PROVE Inv'
<1>1. PICK c \in Commits : /\ refs[Pinned(p)] = c /\ Head(todo[p]) \in snapshots[c]
                           /\ Got(p, Head(todo[p]), c)
  BY DEF GetCached, cached
<1>2. /\ pc[p] = "get" /\ todo[p] # <<>>
      /\ UNCHANGED <<head, cacheVars, request, sha, header, created, boundVars>>
  BY DEF GetCached
<1>3. Fetching(p) /\ Pinned(p) \in Commits /\ ~created[p]
  BY <1>2, Facts DEF Local, Fetching
<1>4. HonestHub => c = Pinned(p)
  BY <1>1, <1>3, Facts DEF CacheInv
<1>5. UNCHANGED <<snapshots, request, sha>>
  BY <1>2 DEF cacheVars
<1>6. /\ \A q \in Resolvers \ {p} :
            pc'[q] = pc[q] /\ todo'[q] = todo[q] /\ paths'[q] = paths[q] /\ result'[q] = result[q]
      /\ pc' \in [Resolvers -> Steps] /\ todo' \in [Resolvers -> Seq(Files)]
      /\ paths' \in [Resolvers -> SUBSET (Files \X Commits)]
      /\ result' \in [Resolvers -> Results]
      /\ \/ pc'[p] = "get" /\ Fetching(p)'
         \/ pc'[p] = "repair" /\ result'[p] = "incomplete"
  BY <1>1, <1>2, <1>3, <1>4, <1>5, GotFile
<1>7. CacheInv' /\ Grown
  BY <1>2, CacheStays, Facts
<1>8. \A q \in Resolvers \ {p} : Same(q)
  BY <1>2, <1>6 DEF Same
<1>9. TypeOK'
  BY <1>2, <1>6, Facts DEF TypeOK, cacheVars, boundVars
<1>10. Pinned(p)' = Pinned(p) /\ created'[p] = FALSE
  BY <1>2, <1>3, Facts DEF Pinned
<1>11. Local(p)'
  BY <1>3, <1>6, <1>10 DEF Local
<1>. QED  BY <1>7, <1>8, <1>9, <1>11, Lift

LEMMA DownloadFailsStep == ASSUME Inv, NEW p \in Resolvers, DownloadFails(p) PROVE Inv'
<1>1. /\ pc[p] = "get" /\ pc' = [pc EXCEPT ![p] = "repair"] /\ result' = [result EXCEPT ![p] = "hub"]
      /\ UNCHANGED <<head, cacheVars, request, sha, todo, paths, header, created, boundVars>>
  BY DEF DownloadFails, FailPinned
<1>2. Pinned(p) \in Commits
  BY <1>1, Facts DEF Local, Fetching
<1>3. pc' \in [Resolvers -> Steps] /\ result' \in [Resolvers -> Results]
  BY <1>1, Moves
<1>4. TypeOK'
  BY <1>1, <1>3, Facts DEF TypeOK, cacheVars, boundVars
<1>5. \A q \in Resolvers \ {p} : Same(q)
  BY <1>1, Facts DEF Same
<1>6. pc'[p] = "repair" /\ result'[p] = "hub"
  BY <1>1, Facts
<1>. QED  BY <1>1, <1>2, <1>4, <1>5, <1>6, RepairedStep

LEMMA DownloadStep ==
    ASSUME Inv, NEW p \in Resolvers, NEW c \in Commits, Download(p, c) PROVE Inv'
<1>. DEFINE f == Head(todo[p])
<1>1. /\ pc[p] = "get" /\ todo[p] # <<>> /\ (HonestHub => c = Pinned(p)) /\ f \in Tree[c]
      /\ snapshots' = [snapshots EXCEPT ![c] = @ \cup {f}]
      /\ header' = [header EXCEPT ![p] = c] /\ pc' = [pc EXCEPT ![p] = "write_ref"]
      /\ UNCHANGED <<head, refs, request, sha, todo, paths, created, result, boundVars>>
  BY DEF Download
<1>2. Fetching(p) /\ ~created[p]
  BY <1>1, Facts DEF Local
<1>3. f \in Files /\ Range(todo[p]) = {f} \cup Range(Tail(todo[p]))
  BY <1>1, Facts, RangeTail
<1>. HIDE DEF f
<1>4. snapshots' \in [Commits -> SUBSET Files] /\ Grown
  BY <1>1, <1>3, Facts DEF Grown
<1>5. \A d \in Commits : snapshots'[d] = IF d = c THEN snapshots[c] \cup {f} ELSE snapshots[d]
  BY <1>1, Facts
<1>6. AliasComplete'
  <2>1. \A d \in Commits, kind \in {"gguf", "safetensors"} : HasModel(d, kind) => HasModel(d, kind)'
    BY <1>4, ModelsStay
  <2>. QED  BY <1>1, <2>1, Facts DEF AliasComplete, CacheInv
<1>7. ASSUME HonestHub, f \in Weights, TOKENIZER_CONFIG \in Tree[c]
      PROVE  TOKENIZER_CONFIG \in snapshots[c]
  <2>1. c = Pinned(p)
    BY <1>1, <1>7
  <2>2. Kind(p) # "gguf"
    BY <1>2, <1>3, <1>7, Names DEF Fetching, Planned
  <2>3. TOKENIZER_CONFIG \notin Range(Tail(todo[p])) /\ f # TOKENIZER_CONFIG
    BY <1>1, <1>2, <1>7, Facts, OrderTail, Names DEF Fetching, f
  <2>4. TOKENIZER_CONFIG \in Covered(p)
    <3>1. todo[p] # <<SAFETENSORS_INDEX>>
      BY <1>7, Names DEF f
    <3>. QED  BY <1>2, <1>7, <2>1, <2>2, <3>1 DEF Fetching, Planned, Basis
  <2>5. PICK path \in paths[p] : path[1] = TOKENIZER_CONFIG
    BY <1>3, <2>3, <2>4 DEF Covered, Fetched
  <2>. QED  BY <1>2, <1>7, <2>1, <2>5 DEF Fetching
<1>8. CacheInv'
  <2>1. \A d \in Commits : snapshots'[d] \subseteq Tree[d]
    BY <1>1, <1>5, Facts DEF CacheInv
  <2>2. HonestHub => \A d \in Commits : refs'[d] \in {None, Empty, d}
    BY <1>1, Facts DEF CacheInv
  <2>3. HonestHub => \A d \in Commits :
          Weights \cap snapshots'[d] # {} /\ TOKENIZER_CONFIG \in Tree[d] =>
              TOKENIZER_CONFIG \in snapshots'[d]
    BY <1>5, <1>7, Facts DEF CacheInv
  <2>. QED  BY <1>6, <2>1, <2>2, <2>3 DEF CacheInv
<1>9. \A q \in Resolvers \ {p} : Same(q)
  BY <1>1, Facts DEF Same
<1>10. TypeOK'
  <2>1. pc' \in [Resolvers -> Steps]
    BY <1>1, Moves
  <2>2. header' \in [Resolvers -> Commits \cup {None}]
    BY <1>1, Facts
  <2>. QED  BY <1>1, <1>4, <2>1, <2>2, Facts DEF TypeOK, boundVars
<1>11. /\ pc'[p] = "write_ref" /\ header'[p] = c /\ Pinned(p)' = Pinned(p) /\ todo'[p] = todo[p]
       /\ paths'[p] = paths[p] /\ Kind(p)' = Kind(p) /\ Revision(p)' = Revision(p)
       /\ created'[p] = FALSE
  BY <1>1, <1>2, Facts DEF Pinned, Kind, Revision
<1>12. Fetching(p)'
  <2>1. Covered(p)' = Covered(p)
    BY <1>11 DEF Covered, Fetched
  <2>2. \A path \in paths[p] : path[2] \in Commits
    BY Facts
  <2>3. \A path \in paths[p] : path[1] \in snapshots'[path[2]]
    BY <1>2, <1>4, <2>2 DEF Fetching, Grown
  <2>4. Planned(p)'
    BY <1>2, <1>11, <2>1 DEF Fetching, Planned
  <2>. QED  BY <1>2, <1>11, <2>3, <2>4 DEF Fetching
<1>13. Head(todo'[p]) \in snapshots'[c]
  BY <1>5, <1>11 DEF f
<1>14. Local(p)'
  BY <1>1, <1>11, <1>12, <1>13 DEF Local
<1>. QED  BY <1>4, <1>8, <1>9, <1>10, <1>14, Lift

\* Creating a ref, which no step forbids where a ref is written, and its type.
LEMMA CreateStep ==
    ASSUME Inv, NEW p \in Resolvers, NEW r \in Revisions, CreateRef(p, r),
           pc[p] \in {"write_ref", "repair", "publish"}
    PROVE  Inv'
<1>1. /\ refs' = [refs EXCEPT ![r] = Empty] /\ created' = [created EXCEPT ![p] = TRUE]
      /\ UNCHANGED <<head, snapshots, pc, request, sha, todo, paths, header, result, boundVars>>
  BY DEF CreateRef
<1>2. CacheInv' /\ Grown
  <2>1. Empty \in Commits \cup {Empty} /\ Empty \notin Commits
    BY Facts
  <2>. QED  BY <1>1, <2>1, Facts, RefWritten
<1>3. \A q \in Resolvers \ {p} : Same(q)
  BY <1>1, Facts DEF Same
<1>4. TypeOK'
  BY <1>1, Facts DEF TypeOK, boundVars
<1>5. /\ Pinned(p)' = Pinned(p) /\ Kind(p)' = Kind(p) /\ Revision(p)' = Revision(p)
      /\ Covered(p)' = Covered(p) /\ snapshots' = snapshots /\ paths' = paths /\ pc' = pc
      /\ todo' = todo /\ header' = header /\ result' = result
  BY <1>1 DEF Pinned, Kind, Revision, Covered, Fetched
<1>6. Planned(p)' <=> Planned(p)
  BY <1>5 DEF Planned
<1>7. Fetching(p)' <=> Fetching(p)
  BY <1>5, <1>6 DEF Fetching
<1>8. HasModel(Pinned(p), Kind(p))' <=> HasModel(Pinned(p), Kind(p))
  BY <1>5 DEF HasModel, HasWeights
<1>9. Good(p)' <=> Good(p)
  BY <1>5, <1>8 DEF Good
<1>10. Local(p)'
  BY <1>5, <1>7, <1>9, Facts DEF Local
<1>. QED  BY <1>2, <1>3, <1>4, <1>10, Lift

LEMMA WriteRefStep == ASSUME Inv, NEW p \in Resolvers, WriteRef(p) PROVE Inv'
<1>1. /\ pc[p] = "write_ref" /\ Fetching(p) /\ Pinned(p) \in Commits /\ todo[p] # <<>>
      /\ header[p] \in Commits /\ Head(todo[p]) \in snapshots[header[p]]
      /\ HonestHub => header[p] = Pinned(p)
  BY Facts DEF WriteRef, Local, Fetching
<1>2. Pinned(p) \in Revisions /\ Pinned(p) # Branch
  BY <1>1, Facts
<1>3. CASE CreateRef(p, Pinned(p))
  BY <1>1, <1>2, <1>3, CreateStep
<1>4. CASE /\ FillRef(p, Pinned(p), header[p]) /\ Got(p, Head(todo[p]), header[p])
           /\ UNCHANGED <<head, snapshots, request, sha, header, boundVars>>
  <2>1. /\ refs' = [refs EXCEPT ![Pinned(p)] = header[p]]
        /\ created' = [created EXCEPT ![p] = FALSE]
    BY <1>4 DEF FillRef
  <2>2. CacheInv' /\ Grown
    BY <1>1, <1>2, <1>4, <2>1, Facts, RefWritten
  <2>3. /\ \A q \in Resolvers \ {p} :
              pc'[q] = pc[q] /\ todo'[q] = todo[q] /\ paths'[q] = paths[q] /\ result'[q] = result[q]
        /\ pc' \in [Resolvers -> Steps] /\ todo' \in [Resolvers -> Seq(Files)]
        /\ paths' \in [Resolvers -> SUBSET (Files \X Commits)]
        /\ result' \in [Resolvers -> Results]
        /\ \/ pc'[p] = "get" /\ Fetching(p)'
           \/ pc'[p] = "repair" /\ result'[p] = "incomplete"
    BY <1>1, <1>4, GotFile
  <2>4. \A q \in Resolvers \ {p} : Same(q)
    BY <1>4, <2>1, <2>3, Facts DEF Same
  <2>5. TypeOK'
    <3>1. refs' \in [Revisions -> Commits \cup {None, Empty}]
          /\ created' \in [Resolvers -> BOOLEAN]
      BY <1>1, <1>2, <2>1, Facts
    <3>. QED  BY <1>4, <2>3, <3>1, Facts DEF TypeOK, boundVars
  <2>6. Pinned(p)' = Pinned(p) /\ created'[p] = FALSE
    BY <1>4, <2>1, Facts DEF Pinned
  <2>7. Local(p)'
    BY <1>1, <2>3, <2>6 DEF Local
  <2>. QED  BY <2>2, <2>4, <2>5, <2>7, Lift
<1>. QED  BY <1>3, <1>4 DEF WriteRef

\* The ref that a process ends with: the pinned commit's own, or, after a complete
\* retrieval, the requested revision's.
LEMMA FillStep ==
    ASSUME Inv, NEW p \in Resolvers, NEW r \in Revisions, NEW outcome \in Results,
           Pinned(p) \in Commits, FillRef(p, r, Pinned(p)), Finish(p, outcome),
           UNCHANGED <<head, snapshots, request, sha, todo, paths, header, boundVars>>,
           r = Branch => Good(p), r \in Commits => r = Pinned(p), outcome = "ok" => Good(p)
    PROVE  Inv'
<1>1. /\ refs' = [refs EXCEPT ![r] = Pinned(p)] /\ created' = [created EXCEPT ![p] = FALSE]
      /\ pc' = [pc EXCEPT ![p] = "done"] /\ result' = [result EXCEPT ![p] = outcome]
  BY DEF FillRef, Finish
<1>2. CacheInv' /\ Grown
  <2>1. r = Branch => \E kind \in {"gguf", "safetensors"} : HasModel(Pinned(p), kind)
    BY Facts DEF Good
  <2>2. Pinned(p) \in Commits \cup {Empty}
    OBVIOUS
  <2>. QED  BY <1>1, <2>1, <2>2, Facts, RefWritten
<1>3. \A q \in Resolvers \ {p} : Same(q)
  BY <1>1, Facts DEF Same
<1>4. TypeOK'
  <2>1. pc' \in [Resolvers -> Steps] /\ result' \in [Resolvers -> Results]
    BY <1>1, Moves
  <2>2. /\ refs' \in [Revisions -> Commits \cup {None, Empty}]
        /\ created' \in [Resolvers -> BOOLEAN]
    BY <1>1, Facts
  <2>. QED  BY <2>1, <2>2, Facts DEF TypeOK, boundVars
<1>5. /\ pc'[p] = "done" /\ result'[p] = outcome /\ created'[p] = FALSE
  BY <1>1, Facts
<1>6. Good(p) => Good(p)'
  BY DEF Good, HasModel, HasWeights, Pinned, Kind, Revision
<1>7. Local(p)'
  BY <1>5, <1>6 DEF Local
<1>. QED  BY <1>2, <1>3, <1>4, <1>7, Lift

LEMMA RepairStep == ASSUME Inv, NEW p \in Resolvers, Repair(p) PROVE Inv'
<1>1. /\ pc[p] = "repair" /\ Pinned(p) \in Commits /\ result[p] \in {"hub", "incomplete"}
  BY Facts DEF Repair, Local
<1>2. /\ Pinned(p) \in Revisions /\ Pinned(p) # Branch /\ result[p] \in Results
      /\ result[p] # "ok"
  BY <1>1, Facts
<1>3. CASE CreateRef(p, Pinned(p))
  BY <1>1, <1>2, <1>3, CreateStep
<1>4. CASE /\ FillRef(p, Pinned(p), repaired_ref(p)) /\ Finish(p, result[p])
           /\ UNCHANGED <<head, snapshots, request, sha, todo, paths, header, boundVars>>
  <2>1. FillRef(p, Pinned(p), Pinned(p))
    BY <1>4 DEF repaired_ref
  <2>. QED  BY <1>1, <1>2, <1>4, <2>1, FillStep
<1>. QED  BY <1>3, <1>4 DEF Repair

LEMMA PublishStep == ASSUME Inv, NEW p \in Resolvers, Publish(p) PROVE Inv'
<1>1. pc[p] = "publish" /\ Good(p)
  BY Facts DEF Publish, Local
<1>2. /\ Pinned(p) \in Commits /\ Revision(p) \in Revisions /\ "ok" \in Results
      /\ Revision(p) \in Commits => Revision(p) = Pinned(p)
  BY <1>1, Facts, Moves DEF Good, verify_requested_commit
<1>3. CASE CreateRef(p, Revision(p))
  BY <1>1, <1>2, <1>3, CreateStep
<1>4. CASE /\ FillRef(p, Revision(p), Pinned(p)) /\ Finish(p, "ok")
           /\ UNCHANGED <<head, snapshots, request, sha, todo, paths, header, boundVars>>
  BY <1>1, <1>2, <1>4, FillStep
<1>. QED  BY <1>3, <1>4 DEF Publish

LEMMA WriteFailsStep == ASSUME Inv, NEW p \in Resolvers, WriteFails(p) PROVE Inv'
<1>1. /\ created' = [created EXCEPT ![p] = FALSE]
      /\ UNCHANGED <<head, cacheVars, request, sha, todo, paths, header, boundVars>>
  BY DEF WriteFails
<1>2. CASE pc[p] = "write_ref" /\ FailPinned(p, "hub")
  <2>1. pc' = [pc EXCEPT ![p] = "repair"] /\ result' = [result EXCEPT ![p] = "hub"]
    BY <1>2 DEF FailPinned
  <2>2. pc' \in [Resolvers -> Steps] /\ result' \in [Resolvers -> Results]
    BY <2>1, Moves
  <2>3. TypeOK'
    BY <1>1, <2>2, Facts DEF TypeOK, cacheVars, boundVars
  <2>4. \A q \in Resolvers \ {p} : Same(q)
    BY <1>1, <2>1, Facts DEF Same
  <2>5. pc'[p] = "repair" /\ result'[p] = "hub" /\ Pinned(p) \in Commits
    BY <1>2, <2>1, Facts DEF Local, Fetching
  <2>. QED  BY <1>1, <2>3, <2>4, <2>5, RepairedStep
<1>3. CASE Finish(p, "io")
  <2>1. pc' = [pc EXCEPT ![p] = "done"] /\ result' = [result EXCEPT ![p] = "io"]
    BY <1>3 DEF Finish
  <2>2. pc' \in [Resolvers -> Steps] /\ result' \in [Resolvers -> Results]
    BY <2>1, Moves
  <2>3. TypeOK'
    BY <1>1, <2>2, Facts DEF TypeOK, cacheVars, boundVars
  <2>4. \A q \in Resolvers \ {p} : Same(q)
    BY <1>1, <2>1, Facts DEF Same
  <2>5. pc'[p] = "done" /\ result'[p] = "io" /\ ~created'[p]
    BY <1>1, <2>1, Facts
  <2>. QED  BY <1>1, <2>3, <2>4, <2>5, FailedStep
<1>. QED  BY <1>2, <1>3 DEF WriteFails

\* All files are there, each in the snapshot of the pinned commit: the plan is complete.
LEMMA FetchedComplete ==
    ASSUME Inv, NEW p \in Resolvers, Fetching(p), todo[p] = <<>>, verify_snapshot_paths(p)
    PROVE  Good(p)
<1>. DEFINE c == Pinned(p)
<1>1. c \in Commits /\ verify_requested_commit(Revision(p), c)
  BY DEF Fetching
<1>2. \A path \in paths[p] : path[2] = c /\ path[1] \in snapshots[c]
  BY DEF Fetching, verify_snapshot_paths
<1>3. Covered(p) \subseteq snapshots[c] /\ Range(todo[p]) = {}
  BY <1>2, NoFile DEF Covered, Fetched
<1>4. snapshots[c] \subseteq Tree[c]
  BY <1>1, Facts DEF CacheInv
<1>5. CASE Kind(p) = "gguf"
  BY <1>1, <1>2, <1>3, <1>5 DEF Fetching, Planned, Good, HasModel
<1>6. CASE Kind(p) # "gguf"
  <2>1. Plannable(Tree[c])
    BY <1>6 DEF Fetching, Planned
  <2>2. Complete(c, snapshots[c])
    <3>1. CASE is_indexed(Tree[c])
      <4>1. todo[p] # <<SAFETENSORS_INDEX>>
        BY Names, SingleFile DEF Weights
      <4>2. PICK d \in Commits : /\ <<SAFETENSORS_INDEX, d>> \in paths[p]
                                 /\ Index[d] # {} /\ Index[d] \subseteq Tree[c]
                                 /\ Basis(Tree[c]) \cup Index[d] \subseteq Covered(p)
        BY <1>6, <3>1, <4>1 DEF Fetching, Planned
      <4>. DEFINE path == <<SAFETENSORS_INDEX, d>>
      <4>3. path[1] = SAFETENSORS_INDEX /\ path[2] = d /\ path \in paths[p]
        BY <4>2
      <4>4. d = c /\ SAFETENSORS_INDEX \in snapshots[c]
        BY <1>2, <4>3
      <4>. QED  BY <1>3, <2>1, <3>1, <4>2, <4>4 DEF Complete, Basis
    <3>2. CASE ~is_indexed(Tree[c])
      BY <1>3, <1>6, <2>1, <3>2 DEF Fetching, Planned, Complete, Basis
    <3>. QED  BY <3>1, <3>2
  <2>3. HasModel(c, Kind(p))
    <3>1. HasModel(c, "safetensors")
      BY <2>2, CompleteModel
    <3>. QED  BY <1>6, <3>1 DEF HasModel
  <2>. QED  BY <1>1, <1>2, <2>3 DEF Good
<1>. QED  BY <1>5, <1>6

LEMMA VerifyStep == ASSUME Inv, NEW p \in Resolvers, Verify(p) PROVE Inv'
<1>1. /\ pc[p] = "get" /\ todo[p] = <<>>
      /\ UNCHANGED <<head, cacheVars, request, sha, todo, paths, header, created, boundVars>>
  BY DEF Verify
<1>2. Fetching(p) /\ Pinned(p) \in Commits /\ ~created[p]
  BY <1>1, Facts DEF Local, Fetching
<1>3. CASE verify_snapshot_paths(p)
  <2>1. pc' = [pc EXCEPT ![p] = "publish"] /\ UNCHANGED result
    BY <1>3 DEF Verify
  <2>2. Good(p)
    BY <1>1, <1>2, <1>3, FetchedComplete
  <2>3. CacheInv' /\ Grown
    BY <1>1, CacheStays, Facts
  <2>4. \A q \in Resolvers \ {p} : Same(q)
    BY <1>1, <2>1, Facts DEF Same
  <2>5. pc' \in [Resolvers -> Steps]
    BY <2>1, Moves
  <2>6. TypeOK'
    BY <1>1, <2>1, <2>5, Facts DEF TypeOK, cacheVars, boundVars
  <2>7. pc'[p] = "publish"
    BY <2>1, Facts
  <2>8. Good(p)'
    BY <1>1, <2>2 DEF Good, HasModel, HasWeights, Pinned, Kind, Revision, cacheVars
  <2>9. Local(p)'
    BY <2>7, <2>8 DEF Local
  <2>. QED  BY <2>3, <2>4, <2>6, <2>9, Lift
<1>4. CASE ~verify_snapshot_paths(p)
  <2>1. pc' = [pc EXCEPT ![p] = "repair"] /\ result' = [result EXCEPT ![p] = "incomplete"]
    BY <1>4 DEF Verify, FailPinned
  <2>2. pc' \in [Resolvers -> Steps] /\ result' \in [Resolvers -> Results]
    BY <2>1, Moves
  <2>3. TypeOK'
    BY <1>1, <2>2, Facts DEF TypeOK, cacheVars, boundVars
  <2>4. \A q \in Resolvers \ {p} : Same(q)
    BY <1>1, <2>1, Facts DEF Same
  <2>5. pc'[p] = "repair" /\ result'[p] = "incomplete"
    BY <2>1, Facts
  <2>. QED  BY <1>1, <1>2, <2>3, <2>4, <2>5, RepairedStep
<1>. QED  BY <1>3, <1>4

-----------------------------------------------------------------------------
(* The offline steps                                                          *)

\* An end without a success, of the offline steps.
LEMMA OfflineEnds ==
    ASSUME Inv, NEW p \in Resolvers, NEW outcome \in Results \ {"ok"}, Finish(p, outcome),
           pc[p] \in {"lookup", "snapshot", "list"},
           UNCHANGED <<head, cacheVars, request, todo, header, created, boundVars>>,
           paths' \in [Resolvers -> SUBSET (Files \X Commits)],
           sha' \in [Resolvers -> Commits \cup {None}],
           \A q \in Resolvers \ {p} : paths'[q] = paths[q] /\ sha'[q] = sha[q]
    PROVE  Inv'
<1>1. pc' = [pc EXCEPT ![p] = "done"] /\ result' = [result EXCEPT ![p] = outcome]
  BY DEF Finish
<1>2. pc' \in [Resolvers -> Steps] /\ result' \in [Resolvers -> Results]
  BY <1>1, Moves
<1>3. TypeOK'
  BY <1>2, Facts DEF TypeOK, cacheVars, boundVars
<1>4. \A q \in Resolvers \ {p} : Same(q)
  BY <1>1, Facts DEF Same
<1>5. pc'[p] = "done" /\ result'[p] = outcome /\ ~created'[p]
  BY <1>1, Facts DEF Local
<1>. QED  BY <1>3, <1>4, <1>5, FailedStep

LEMMA OfflineLookupStep == ASSUME Inv, NEW p \in Resolvers, OfflineLookup(p) PROVE Inv'
<1>. DEFINE c == refs[Revision(p)]
<1>1. /\ pc[p] = "lookup" /\ Kind(p) = "gguf" /\ ~created[p]
      /\ UNCHANGED <<head, cacheVars, request, sha, todo, header, created, boundVars>>
  BY Facts DEF OfflineLookup, Local
<1>2. CASE cached(Revision(p), GGUF) = {}
  <2>1. Finish(p, "cache_miss") /\ UNCHANGED paths
    BY <1>2 DEF OfflineLookup
  <2>2. "cache_miss" \in Results \ {"ok"}
    BY Moves
  <2>. QED  BY <1>1, <2>1, <2>2, Facts, OfflineEnds
<1>3. CASE cached(Revision(p), GGUF) # {}
  <2>1. /\ paths' = [paths EXCEPT ![p] = {<<GGUF, c>>}]
        /\ pc' = [pc EXCEPT ![p] = "snapshot"] /\ UNCHANGED result
    BY <1>3 DEF OfflineLookup
  <2>2. c \in Commits /\ GGUF \in snapshots[c] /\ GGUF \in Files
    BY <1>3, Names DEF cached
  <2>. HIDE DEF c
  <2>3. CacheInv' /\ Grown
    BY <1>1, CacheStays, Facts
  <2>4. \A q \in Resolvers \ {p} : Same(q)
    BY <1>1, <2>1, Facts DEF Same
  <2>5. TypeOK'
    <3>1. pc' \in [Resolvers -> Steps]
      BY <2>1, Moves
    <3>2. {<<GGUF, c>>} \in SUBSET (Files \X Commits)
      BY <2>2
    <3>3. paths' \in [Resolvers -> SUBSET (Files \X Commits)]
      BY <2>1, <3>2, Facts
    <3>. QED  BY <1>1, <2>1, <3>1, <3>3, Facts DEF TypeOK, cacheVars, boundVars
  <2>6. /\ pc'[p] = "snapshot" /\ paths'[p] = {<<GGUF, c>>} /\ created'[p] = FALSE
        /\ Kind(p)' = "gguf" /\ snapshots' = snapshots
    BY <1>1, <2>1, Facts DEF Kind, cacheVars
  <2>7. Local(p)'
    BY <2>2, <2>6 DEF Local
  <2>. QED  BY <2>3, <2>4, <2>5, <2>7, Lift
<1>. QED  BY <1>2, <1>3

LEMMA OfflineSnapshotStep == ASSUME Inv, NEW p \in Resolvers, OfflineSnapshot(p) PROVE Inv'
<1>. DEFINE c == refs[Revision(p)]
            error == ref_error(Revision(p))
<1>1. /\ pc[p] = "snapshot" /\ ~created[p]
      /\ UNCHANGED <<head, cacheVars, request, todo, paths, header, created, boundVars>>
  BY Facts DEF OfflineSnapshot, Local
<1>2. CASE error # "none"
  <2>1. Finish(p, error) /\ UNCHANGED sha
    BY <1>2 DEF OfflineSnapshot
  <2>2. error \in {"cache_miss", "incomplete"}
    BY <1>2 DEF ref_error
  <2>. HIDE DEF error
  <2>3. error \in Results \ {"ok"}
    BY <2>2, Moves
  <2>. QED  BY <1>1, <2>1, <2>3, Facts, OfflineEnds
<1>3. CASE error = "none"
  <2>1. /\ sha' = [sha EXCEPT ![p] = c]
        /\ IF Kind(p) = "safetensors" THEN pc' = [pc EXCEPT ![p] = "list"] /\ UNCHANGED result
           ELSE Finish(p, IF same_snapshot(p, c) THEN "ok" ELSE "incomplete")
    BY <1>3 DEF OfflineSnapshot
  <2>2. c \in Commits /\ verify_requested_commit(Revision(p), c)
    <3>1. c # None /\ c # Empty /\ verify_requested_commit(Revision(p), c)
      BY <1>3 DEF ref_error
    <3>. QED  BY <3>1, Facts
  <2>. HIDE DEF c, error
  <2>3. CacheInv' /\ Grown
    BY <1>1, CacheStays, Facts
  <2>4. /\ sha' \in [Resolvers -> Commits \cup {None}] /\ Pinned(p)' = c
        /\ \A q \in Resolvers \ {p} : paths'[q] = paths[q] /\ sha'[q] = sha[q]
        /\ Kind(p)' = Kind(p) /\ Revision(p)' = Revision(p) /\ created'[p] = FALSE
        /\ paths' = paths /\ snapshots' = snapshots
    BY <1>1, <2>1, <2>2, Facts DEF Pinned, Kind, Revision, cacheVars
  <2>5. CASE Kind(p) = "safetensors"
    <3>1. pc' = [pc EXCEPT ![p] = "list"] /\ UNCHANGED result
      BY <2>1, <2>5
    <3>2. \A q \in Resolvers \ {p} : Same(q)
      BY <1>1, <2>4, <3>1, Facts DEF Same
    <3>3. pc' \in [Resolvers -> Steps] /\ pc'[p] = "list"
      BY <3>1, Moves, Facts
    <3>4. TypeOK'
      BY <1>1, <2>4, <3>1, <3>3, Facts DEF TypeOK, cacheVars, boundVars
    <3>5. Local(p)'
      BY <2>2, <2>4, <2>5, <3>3 DEF Local
    <3>. QED  BY <2>3, <3>2, <3>4, <3>5, Lift
  <2>6. CASE Kind(p) # "safetensors" /\ ~same_snapshot(p, c)
    <3>1. Finish(p, "incomplete") /\ "incomplete" \in Results \ {"ok"}
      BY <2>1, <2>6, Moves
    <3>. QED  BY <1>1, <2>4, <3>1, Facts, OfflineEnds
  <2>7. CASE Kind(p) # "safetensors" /\ same_snapshot(p, c)
    <3>1. pc' = [pc EXCEPT ![p] = "done"] /\ result' = [result EXCEPT ![p] = "ok"]
      BY <2>1, <2>7 DEF Finish
    <3>2. \A q \in Resolvers \ {p} : Same(q)
      BY <1>1, <2>4, <3>1, Facts DEF Same
    <3>3. /\ pc' \in [Resolvers -> Steps] /\ pc'[p] = "done"
          /\ result' \in [Resolvers -> Results] /\ result'[p] = "ok"
      BY <3>1, Moves, Facts
    <3>4. TypeOK'
      BY <1>1, <2>4, <3>3, Facts DEF TypeOK, cacheVars, boundVars
    <3>5. Kind(p) = "gguf"
      BY <2>7, Facts
    <3>6. PICK d \in Commits : paths[p] = {<<GGUF, d>>} /\ GGUF \in snapshots[d]
      BY <1>1, <3>5, Facts DEF Local
    <3>. DEFINE path == <<GGUF, d>>
    <3>7. path[1] = GGUF /\ path[2] = d /\ paths[p] = {path}
      BY <3>6
    <3>. HIDE DEF path
    <3>8. d = c
      BY <2>7, <3>7 DEF same_snapshot
    <3>9. Good(p)'
      <4>1. GGUF \in snapshots'[c]
        BY <2>4, <3>6, <3>8
      <4>2. HasModel(Pinned(p), Kind(p))'
        BY <2>4, <3>5, <4>1 DEF HasModel
      <4>. QED  BY <2>2, <2>4, <3>7, <3>8, <4>1, <4>2 DEF Good
    <3>10. Local(p)'
      BY <2>4, <3>3, <3>9 DEF Local
    <3>. QED  BY <2>3, <3>2, <3>4, <3>10, Lift
  <2>. QED  BY <2>5, <2>6, <2>7
<1>. QED  BY <1>2, <1>3

\* The plan made from a snapshot makes a model, be it with other weights than the plan of
\* its commit.
LEMMA ListedComplete ==
    ASSUME Inv, NEW p \in Resolvers, Pinned(p) \in Commits,
           plan_indexed_safetensors(snapshots[Pinned(p)], Index[Pinned(p)]) # <<>>
    PROVE  /\ Complete(Pinned(p), snapshots[Pinned(p)])
           /\ Range(plan_indexed_safetensors(snapshots[Pinned(p)], Index[Pinned(p)]))
                  \subseteq snapshots[Pinned(p)]
<1>. DEFINE c == Pinned(p)
            files == snapshots[c]
            plan == plan_indexed_safetensors(files, Index[c])
<1>1. /\ files \subseteq Tree[c] /\ Index[c] \in SUBSET Range(Shards)
      /\ HonestHub => (Weights \cap files # {} /\ TOKENIZER_CONFIG \in Tree[c]
                          => TOKENIZER_CONFIG \in files)
  BY Facts, RepositoryAssumption DEF CacheInv
<1>2. /\ plan # <<>>
      /\ plan # <<>> <=> /\ Plannable(files)
                         /\ is_indexed(files) => Index[c] # {} /\ Index[c] \subseteq files
      /\ plan # <<>> =>
            Range(plan) = Basis(files) \cup
                (IF is_indexed(files) THEN {SAFETENSORS_INDEX} \cup Index[c] ELSE {SAFETENSORS})
  BY <1>1, IndexedPlan
<1>. HIDE DEF plan, c, files
<1>3. Plannable(files)
  BY <1>2
<1>4. Weights \cap files # {}
  BY <1>1, <1>2, <1>3 DEF Plannable, is_indexed, Weights
<1>5. Complete(c, files)
  BY <1>1, <1>2, <1>3, <1>4 DEF Complete, Plannable, is_indexed
<1>6. Range(plan) \subseteq files
  BY <1>2, <1>3 DEF Basis, Plannable, is_indexed
<1>. QED  BY <1>5, <1>6 DEF c, files, plan

LEMMA OfflineListStep == ASSUME Inv, NEW p \in Resolvers, OfflineList(p) PROVE Inv'
<1>. DEFINE c == Pinned(p)
            plan == plan_indexed_safetensors(snapshots[c], Index[c])
            found == Range(plan) \X {c}
<1>1. /\ pc[p] = "list" /\ ~created[p] /\ c \in Commits /\ Kind(p) # "gguf"
      /\ verify_requested_commit(Revision(p), c)
      /\ Finish(p, IF plan = <<>> THEN "incomplete" ELSE "ok")
      /\ paths' = [paths EXCEPT ![p] = found]
      /\ UNCHANGED <<head, cacheVars, request, sha, todo, header, created, boundVars>>
  BY Facts DEF OfflineList, Local
<1>2. plan \in Seq(Files)
  BY <1>1, RepositoryAssumption, IndexedPlan
<1>3. found \in SUBSET (Files \X Commits)
  <2>1. Range(plan) \subseteq Files
    <3>1. \A i \in DOMAIN plan : plan[i] \in Files
      BY <1>2
    <3>. QED  BY <3>1 DEF Range
  <2>. HIDE DEF plan
  <2>. QED  BY <1>1, <2>1
<1>4. plan # <<>> => Complete(c, snapshots[c]) /\ Range(plan) \subseteq snapshots[c]
  BY <1>1, ListedComplete
<1>5. \A path \in found : path[2] = c /\ path[1] \in Range(plan)
  OBVIOUS
<1>. HIDE DEF plan, found
<1>6. /\ paths' \in [Resolvers -> SUBSET (Files \X Commits)] /\ paths'[p] = found
      /\ \A q \in Resolvers \ {p} : paths'[q] = paths[q]
  BY <1>1, <1>3, Facts
<1>7. sha' \in [Resolvers -> Commits \cup {None}] /\ \A q \in Resolvers \ {p} : sha'[q] = sha[q]
  BY <1>1, Facts
<1>8. CASE plan = <<>>
  <2>1. Finish(p, "incomplete") /\ "incomplete" \in Results \ {"ok"}
    BY <1>1, <1>8, Moves
  <2>. QED  BY <1>1, <1>6, <1>7, <2>1, OfflineEnds
<1>9. CASE plan # <<>>
  <2>1. pc' = [pc EXCEPT ![p] = "done"] /\ result' = [result EXCEPT ![p] = "ok"]
    BY <1>1, <1>9 DEF Finish
  <2>2. CacheInv' /\ Grown
    BY <1>1, CacheStays, Facts
  <2>3. \A q \in Resolvers \ {p} : Same(q)
    BY <1>1, <1>6, <2>1, Facts DEF Same
  <2>4. /\ pc' \in [Resolvers -> Steps] /\ pc'[p] = "done"
        /\ result' \in [Resolvers -> Results] /\ result'[p] = "ok"
    BY <2>1, Moves, Facts
  <2>5. TypeOK'
    BY <1>1, <1>6, <2>4, Facts DEF TypeOK, cacheVars, boundVars
  <2>6. /\ Pinned(p)' = c /\ Kind(p)' = Kind(p) /\ Revision(p)' = Revision(p)
        /\ snapshots' = snapshots /\ created'[p] = FALSE
    BY <1>1 DEF Pinned, Kind, Revision, cacheVars, c
  <2>7. HasModel(c, Kind(p))
    <3>1. HasModel(c, "safetensors")
      BY <1>4, <1>9, CompleteModel
    <3>. QED  BY <1>1, <3>1 DEF HasModel
  <2>8. HasModel(Pinned(p), Kind(p))'
    BY <2>6, <2>7 DEF HasModel, HasWeights
  <2>9. \A path \in paths'[p] : path[2] = c /\ path[1] \in snapshots'[c]
    BY <1>4, <1>5, <1>6, <1>9, <2>6
  <2>10. Good(p)'
    BY <1>1, <2>6, <2>8, <2>9 DEF Good
  <2>11. Local(p)'
    BY <2>4, <2>6, <2>10 DEF Local
  <2>. QED  BY <2>2, <2>3, <2>5, <2>11, Lift
<1>. QED  BY <1>8, <1>9

-----------------------------------------------------------------------------
(* The theorems                                                               *)

LEMMA Inductive == Inv /\ [Next]_vars => Inv'
<1>. SUFFICES ASSUME Inv, [Next]_vars PROVE Inv'
  OBVIOUS
<1>1. ASSUME NEW p \in Resolvers, Resolve(p) PROVE Inv'
  <2>1. ASSUME NEW c \in Commits, Info(p, c) \/ Download(p, c) PROVE Inv'
    BY <2>1, InfoStep, DownloadStep
  <2>. QED
    BY <1>1, <2>1, InfoFailsStep, GetCachedStep, DownloadFailsStep, WriteRefStep, VerifyStep,
       RepairStep, PublishStep, WriteFailsStep, OfflineLookupStep, OfflineSnapshotStep,
       OfflineListStep DEF Resolve
<1>2. ASSUME UNCHANGED vars PROVE Inv'
  <2>1. CacheInv' /\ Grown
    BY <1>2, CacheStays DEF Inv, vars
  <2>2. \A q \in Resolvers : Local(q)'
    BY <1>2, <2>1, LocalStays DEF Inv, vars, localVars, Same
  <2>3. TypeOK'
    BY <1>2 DEF Inv, TypeOK, vars, cacheVars, localVars, boundVars
  <2>. QED  BY <2>1, <2>2, <2>3 DEF Inv
<1>. QED  BY <1>1, <1>2, CrashStep, StartStep, PushStep DEF Next, Finished

LEMMA Safety == Spec => []Inv
BY InitStep, Inductive, PTL DEF Spec

\* The state of the cache and of the processes that resolve into it is always well formed,
\* whatever interleaving of downloads, ref writes, failures and crashes led to it (hf.rs).
THEOREM TypeCorrect == Spec => []TypeOK
<1>1. Inv => TypeOK
  BY DEF Inv
<1>. QED  BY <1>1, Safety, PTL

\* A resolve that succeeds hands out a complete snapshot of the commit it reports, and of
\* the full SHA it was asked for (resolve_online, resolve_offline of hf.rs).
THEOREM CompleteWhenResolved == Spec => []ResolvedComplete
<1>1. Inv => ResolvedComplete
  BY DEF Inv, Local, Good, ResolvedComplete, Pinned
<1>. QED  BY <1>1, Safety, PTL

\* The branch's ref, which create_ref moves after a verified retrieval only, names a
\* snapshot from which a model can be loaded (hf.rs).
THEOREM CompleteBehindAlias == Spec => []AliasComplete
<1>1. Inv => AliasComplete
  BY DEF Inv, CacheInv
<1>. QED  BY <1>1, Safety, PTL

\* Of the processes, a step changes the one that takes it.
LEMMA OthersWait ==
    ASSUME Inv, NEW p \in Resolvers, NEW q \in Resolvers \ {p}, Resolve(p) \/ Crash(p)
    PROVE  pc'[q] = pc[q] /\ created'[q] = created[q] /\ Writing(q)' = Writing(q)
<1>. DEFINE Waits == /\ pc'[q] = pc[q] /\ created'[q] = created[q]
                     /\ request'[q] = request[q] /\ sha'[q] = sha[q]
<1>1. ASSUME NEW c \in Commits, Info(p, c) \/ Download(p, c) PROVE Waits
  BY <1>1, Facts DEF Info, Download, Finish
<1>2. ASSUME NEW c \in Commits, Got(p, Head(todo[p]), c) PROVE pc'[q] = pc[q]
  BY <1>2, Facts DEF Got, FailPinned
<1>3. ASSUME GetCached(p) \/ WriteRef(p) PROVE Waits
  <2>1. CASE GetCached(p)
    <3>1. pc'[q] = pc[q]
      BY <1>2, <2>1 DEF GetCached, cached
    <3>. QED  BY <2>1, <3>1 DEF GetCached
  <2>2. CASE WriteRef(p)
    <3>1. pc[p] = "write_ref" /\ header[p] \in Commits
      BY <2>2, Facts DEF WriteRef, Local
    <3>2. pc'[q] = pc[q]
      BY <1>2, <2>2, <3>1 DEF WriteRef, CreateRef
    <3>. QED  BY <2>2, <3>2, Facts DEF WriteRef, CreateRef, FillRef
  <2>. QED  BY <1>3, <2>1, <2>2
<1>4. ASSUME InfoFails(p) \/ DownloadFails(p) \/ Verify(p) PROVE Waits
  BY <1>4, Facts DEF InfoFails, DownloadFails, Verify, Finish, FailPinned
<1>5. ASSUME Repair(p) \/ Publish(p) \/ WriteFails(p) PROVE Waits
  BY <1>5, Facts DEF Repair, Publish, WriteFails, CreateRef, FillRef, Finish, FailPinned
<1>6. ASSUME OfflineLookup(p) \/ OfflineSnapshot(p) \/ OfflineList(p) PROVE Waits
  BY <1>6, Facts DEF OfflineLookup, OfflineSnapshot, OfflineList, Finish
<1>7. ASSUME Crash(p) PROVE Waits
  BY <1>7, Facts DEF Crash
<1>8. Waits
  BY <1>1, <1>3, <1>4, <1>5, <1>6, <1>7 DEF Resolve
<1>. QED  BY <1>8 DEF Writing, Revision, Pinned

\* A process whose ref is unfinished fills it, goes on to repair it, dies or reports io.
LEMMA WriterStep ==
    ASSUME Inv, NEW p \in Resolvers, NEW r \in Revisions, Resolve(p) \/ Crash(p),
           pc[p] = "repair" \/ created[p], Writing(p) = r, refs'[r] = Empty
    PROVE  \/ (pc'[p] = "repair" \/ created'[p]) /\ Writing(p)' = r
           \/ crashes' # crashes
           \/ pc[p] # "done" /\ pc'[p] = "done" /\ result'[p] = "io"
<1>1. pc[p] \in {"write_ref", "repair", "publish"}
  BY Facts DEF Local
<1>2. Empty \notin Commits
  BY Facts
<1>3. CASE WriteRef(p)
  <2>1. pc[p] = "write_ref" /\ header[p] \in Commits /\ r = Pinned(p)
    BY <1>3, Facts DEF WriteRef, Local, Writing
  <2>2. CASE CreateRef(p, Pinned(p))
    BY <2>2, Facts DEF CreateRef, Writing, Pinned, Revision
  <2>3. CASE FillRef(p, Pinned(p), header[p])
    BY <1>2, <2>1, <2>3, Facts DEF FillRef
  <2>. QED  BY <1>3, <2>2, <2>3 DEF WriteRef
<1>4. CASE Repair(p)
  <2>1. pc[p] = "repair" /\ Pinned(p) \in Commits /\ r = Pinned(p)
    BY <1>4, Facts DEF Repair, Local, Writing
  <2>2. CASE CreateRef(p, Pinned(p))
    BY <2>2, Facts DEF CreateRef, Writing, Pinned, Revision
  <2>3. CASE FillRef(p, Pinned(p), repaired_ref(p))
    BY <1>2, <2>1, <2>3, Facts DEF FillRef, repaired_ref
  <2>. QED  BY <1>4, <2>2, <2>3 DEF Repair
<1>5. CASE Publish(p)
  <2>1. pc[p] = "publish" /\ Pinned(p) \in Commits /\ r = Revision(p)
    BY <1>5, Facts DEF Publish, Local, Writing, Good
  <2>2. CASE CreateRef(p, Revision(p))
    BY <2>2, Facts DEF CreateRef, Writing, Pinned, Revision
  <2>3. CASE FillRef(p, Revision(p), Pinned(p))
    BY <1>2, <2>1, <2>3, Facts DEF FillRef
  <2>. QED  BY <1>5, <2>2, <2>3 DEF Publish
<1>6. CASE WriteFails(p)
  <2>1. CASE pc[p] = "write_ref" /\ FailPinned(p, "hub")
    BY <1>6, <2>1, Facts DEF WriteFails, FailPinned, Writing, Pinned, Revision
  <2>2. CASE pc[p] \in {"repair", "publish"} /\ Finish(p, "io")
    BY <2>2, Facts DEF Finish
  <2>. QED  BY <1>6, <2>1, <2>2 DEF WriteFails
<1>7. CASE Crash(p)
  <2>1. crashes \in Nat /\ crashes' = crashes + 1
    BY <1>7, Facts, BoundsAssumption DEF Crash
  <2>. QED  BY <2>1
<1>8. ~\E c \in Commits : Info(p, c) \/ Download(p, c)
  BY <1>1 DEF Info, Download
<1>9. /\ ~InfoFails(p) /\ ~GetCached(p) /\ ~DownloadFails(p) /\ ~Verify(p)
      /\ ~OfflineLookup(p) /\ ~OfflineSnapshot(p) /\ ~OfflineList(p)
  BY <1>1 DEF InfoFails, GetCached, DownloadFails, Verify, OfflineLookup, OfflineSnapshot,
     OfflineList
<1>. QED  BY <1>3, <1>4, <1>5, <1>6, <1>7, <1>8, <1>9 DEF Resolve

\* A ref that create_ref has truncated is filled, unless its writer dies or reports that
\* it could not write it: no failure in between leaves it empty (hf.rs, create_ref and
\* repair_pinned_ref).
THEOREM EmptyIsReported == Spec => EmptyRefIsReported
<1>. DEFINE Reported(r) ==
        Unfinished(r) /\ refs'[r] = Empty =>
            \/ Unfinished(r)' \/ crashes' # crashes
            \/ \E p \in Resolvers : pc[p] # "done" /\ pc'[p] = "done" /\ result'[p] = "io"
<1>1. ASSUME Inv, [Next]_vars, NEW r \in Revisions PROVE Reported(r)
  <2>. SUFFICES ASSUME Unfinished(r), refs'[r] = Empty
                PROVE  \/ Unfinished(r)' \/ crashes' # crashes
                       \/ \E p \in Resolvers :
                             pc[p] # "done" /\ pc'[p] = "done" /\ result'[p] = "io"
    OBVIOUS
  <2>1. PICK p \in Resolvers : (pc[p] = "repair" \/ created[p]) /\ Writing(p) = r
    BY DEF Unfinished
  <2>2. pc[p] \in {"write_ref", "repair", "publish"}
    BY <1>1, <2>1, Facts DEF Local
  <2>3. CASE Resolve(p) \/ Crash(p)
    BY <1>1, <2>1, <2>3, WriterStep DEF Unfinished
  <2>4. ASSUME NEW q \in Resolvers, q # p, Resolve(q) \/ Crash(q) PROVE Unfinished(r)'
    <3>1. pc'[p] = pc[p] /\ created'[p] = created[p] /\ Writing(p)' = Writing(p)
      BY <1>1, <2>4, OthersWait
    <3>. QED  BY <2>1, <3>1 DEF Unfinished
  <2>5. ASSUME NEW q \in Resolvers, NEW new \in Requests, Start(q, new) PROVE Unfinished(r)'
    <3>1. q # p
      BY <2>2, <2>5 DEF Start
    <3>2. pc'[p] = pc[p] /\ created'[p] = created[p] /\ Writing(p)' = Writing(p)
      BY <1>1, <2>5, <3>1, Facts DEF Start, Writing, Revision, Pinned
    <3>. QED  BY <2>1, <3>2 DEF Unfinished
  <2>6. ASSUME UNCHANGED <<pc, request, sha, created>> PROVE Unfinished(r)'
    <3>1. Writing(p)' = Writing(p) /\ pc' = pc /\ created' = created
      BY <2>6 DEF Writing, Revision, Pinned
    <3>. QED  BY <2>1, <3>1 DEF Unfinished
  <2>7. (\E c \in Commits : Push(c)) \/ UNCHANGED vars => UNCHANGED <<pc, request, sha, created>>
    BY DEF Push, vars, localVars
  <2>. QED  BY <1>1, <2>3, <2>4, <2>5, <2>6, <2>7 DEF Next, Finished
<1>2. ASSUME Inv, [Next]_vars PROVE [\A r \in Revisions : Reported(r)]_vars
  BY <1>1, <1>2
<1>3. Inv /\ [Next]_vars => [\A r \in Revisions : Reported(r)]_vars
  BY <1>2
<1>. QED  BY <1>3, Safety, PTL DEF Spec, EmptyRefIsReported

-----------------------------------------------------------------------------
(* The pinned ref of a process that has the cache for itself                  *)

\* After each file the pinned ref names a snapshot in which one of the files lies.
HonestRef(p) ==
    /\ pc[p] = "info" => sha[p] = None
    /\ pc[p] = "get" /\ paths[p] # {} => \E path \in paths[p] : path[2] = refs[Pinned(p)]
    /\ pc[p] = "publish" =>
          \/ refs[Pinned(p)] = Pinned(p)
          \/ created[p] /\ Revision(p) = Pinned(p)
    /\ pc[p] \in {"lookup", "snapshot", "list"} => request[p].offline
    /\ pc[p] = "done" /\ sha[p] # None /\ ~request[p].offline /\ result[p] # "io" =>
          refs[sha[p]] = sha[p]

LEMMA HonestRefGot ==
    ASSUME Inv, NEW p \in Resolvers, NEW c \in Commits, Got(p, Head(todo[p]), c),
           refs'[Pinned(p)] = c, sha' = sha
    PROVE  HonestRef(p)'
<1>1. pc'[p] \in {"get", "repair"}
  BY Facts DEF Got, FailPinned
<1>2. paths'[p] = paths[p] \cup {<<Head(todo[p]), c>>}
  BY Facts DEF Got, record_path
<1>. DEFINE path == <<Head(todo[p]), c>>
<1>3. path \in paths'[p] /\ path[2] = c
  BY <1>2
<1>4. refs'[Pinned(p)'] = c
  BY DEF Pinned
<1>. HIDE DEF path
<1>. QED  BY <1>1, <1>3, <1>4 DEF HonestRef

LEMMA HonestRefStep ==
    ASSUME Inv, NEW p \in Resolvers, HonestRef(p), Resolve(p) PROVE HonestRef(p)'
<1>. USE Facts
<1>1. ASSUME NEW c \in Commits, Info(p, c) PROVE HonestRef(p)'
  <2>1. paths[p] = {} /\ paths' = paths
    BY <1>1 DEF Info, Local
  <2>2. \/ pc'[p] = "get"
        \/ pc'[p] = "done" /\ sha'[p] = None
    BY <1>1 DEF Info, Finish, HonestRef
  <2>. QED  BY <2>1, <2>2 DEF HonestRef
<1>2. ASSUME NEW c \in Commits, Download(p, c) PROVE HonestRef(p)'
  <2>1. pc'[p] = "write_ref"
    BY <1>2 DEF Download
  <2>. QED  BY <2>1 DEF HonestRef
<1>3. ASSUME InfoFails(p) PROVE HonestRef(p)'
  <2>1. pc'[p] = "done" /\ sha'[p] = None
    BY <1>3 DEF InfoFails, Finish, HonestRef
  <2>. QED  BY <2>1 DEF HonestRef
<1>4. ASSUME GetCached(p) PROVE HonestRef(p)'
  <2>1. PICK c \in Commits : refs[Pinned(p)] = c /\ Got(p, Head(todo[p]), c)
    BY <1>4 DEF GetCached, cached
  <2>2. sha' = sha /\ refs'[Pinned(p)] = c
    BY <1>4, <2>1 DEF GetCached, cacheVars
  <2>. QED  BY <2>1, <2>2, HonestRefGot
<1>5. ASSUME DownloadFails(p) PROVE HonestRef(p)'
  <2>1. pc'[p] = "repair"
    BY <1>5 DEF DownloadFails, FailPinned
  <2>. QED  BY <2>1 DEF HonestRef
<1>6. ASSUME WriteRef(p) PROVE HonestRef(p)'
  <2>1. /\ pc[p] = "write_ref" /\ header[p] \in Commits /\ Pinned(p) \in Commits
    BY <1>6 DEF WriteRef, Local, Fetching
  <2>2. CASE CreateRef(p, Pinned(p))
    BY <2>1, <2>2 DEF CreateRef, HonestRef
  <2>3. CASE /\ FillRef(p, Pinned(p), header[p]) /\ Got(p, Head(todo[p]), header[p])
             /\ sha' = sha
    <3>1. refs'[Pinned(p)] = header[p]
      BY <2>1, <2>3 DEF FillRef
    <3>. QED  BY <2>1, <2>3, <3>1, HonestRefGot
  <2>. QED  BY <1>6, <2>2, <2>3 DEF WriteRef
<1>7. ASSUME Verify(p) PROVE HonestRef(p)'
  <2>1. CASE verify_snapshot_paths(p)
    <3>1. pc'[p] = "publish" /\ UNCHANGED <<refs, sha>>
      BY <1>7, <2>1 DEF Verify, cacheVars
    <3>2. refs[Pinned(p)] = Pinned(p)
      BY <1>7, <2>1 DEF Verify, verify_snapshot_paths, HonestRef
    <3>3. refs'[Pinned(p)'] = Pinned(p)'
      BY <3>1, <3>2 DEF Pinned
    <3>. QED  BY <3>1, <3>3 DEF HonestRef
  <2>2. CASE ~verify_snapshot_paths(p)
    <3>1. pc'[p] = "repair"
      BY <1>7, <2>2 DEF Verify, FailPinned
    <3>. QED  BY <3>1 DEF HonestRef
  <2>. QED  BY <2>1, <2>2
<1>8. ASSUME Repair(p) PROVE HonestRef(p)'
  <2>1. pc[p] = "repair" /\ Pinned(p) \in Commits
    BY <1>8 DEF Repair, Local
  <2>2. CASE CreateRef(p, Pinned(p))
    BY <2>1, <2>2 DEF CreateRef, HonestRef
  <2>3. CASE FillRef(p, Pinned(p), repaired_ref(p)) /\ Finish(p, result[p]) /\ sha' = sha
    <3>1. pc'[p] = "done" /\ refs'[sha'[p]] = sha'[p]
      BY <2>1, <2>3 DEF FillRef, Finish, repaired_ref, Pinned
    <3>. QED  BY <3>1 DEF HonestRef
  <2>. QED  BY <1>8, <2>2, <2>3 DEF Repair
<1>9. ASSUME Publish(p) PROVE HonestRef(p)'
  <2>1. /\ pc[p] = "publish" /\ Pinned(p) \in Commits
        /\ refs[Pinned(p)] = Pinned(p) \/ Revision(p) = Pinned(p)
    BY <1>9 DEF Publish, Local, Good, HonestRef
  <2>2. CASE CreateRef(p, Revision(p))
    <3>1. /\ pc'[p] = "publish" /\ created'[p] = TRUE
          /\ Pinned(p)' = Pinned(p) /\ Revision(p)' = Revision(p)
      BY <2>1, <2>2 DEF CreateRef, Pinned, Revision
    <3>2. refs'[Pinned(p)] = refs[Pinned(p)] \/ Revision(p) = Pinned(p)
      BY <2>1, <2>2 DEF CreateRef
    <3>. QED  BY <2>1, <3>1, <3>2 DEF HonestRef
  <2>3. CASE FillRef(p, Revision(p), Pinned(p)) /\ Finish(p, "ok") /\ sha' = sha
    <3>1. pc'[p] = "done" /\ refs'[Pinned(p)] = Pinned(p) /\ sha'[p] = Pinned(p)
      BY <2>1, <2>3 DEF FillRef, Finish, Pinned
    <3>. QED  BY <3>1 DEF HonestRef
  <2>. QED  BY <1>9, <2>2, <2>3 DEF Publish
<1>10. ASSUME WriteFails(p) PROVE HonestRef(p)'
  <2>1. pc'[p] = "repair" \/ (pc'[p] = "done" /\ result'[p] = "io")
    BY <1>10 DEF WriteFails, FailPinned, Finish
  <2>. QED  BY <2>1 DEF HonestRef
<1>11. ASSUME OfflineLookup(p) \/ OfflineSnapshot(p) \/ OfflineList(p) PROVE HonestRef(p)'
  <2>1. request'[p].offline
    BY <1>11 DEF OfflineLookup, OfflineSnapshot, OfflineList, HonestRef
  <2>2. pc'[p] \in {"snapshot", "list", "done"}
    BY <1>11 DEF OfflineLookup, OfflineSnapshot, OfflineList, Finish
  <2>. QED  BY <2>1, <2>2 DEF HonestRef
<1>. QED
  BY <1>1, <1>2, <1>3, <1>4, <1>5, <1>6, <1>7, <1>8, <1>9, <1>10, <1>11 DEF Resolve

\* A process that has the cache for itself leaves the pinned commit's ref naming the
\* commit, whatever hf-hub wrote into it (repair_pinned_ref of hf.rs).
THEOREM RepairedPinnedRef ==
    ASSUME \A p, q \in Resolvers : p = q PROVE Spec => []PinnedRefHonest
<1>. DEFINE HInv == \A p \in Resolvers : HonestRef(p)
<1>1. Init => HInv
  BY DEF Init, HonestRef
<1>2. ASSUME Inv, HInv, [Next]_vars PROVE HInv'
  <2>. SUFFICES ASSUME NEW p \in Resolvers PROVE HonestRef(p)'
    OBVIOUS
  <2>1. ASSUME NEW q \in Resolvers, Resolve(q) PROVE HonestRef(p)'
    BY <1>2, <2>1, HonestRefStep
  <2>2. ASSUME NEW q \in Resolvers, Crash(q) PROVE HonestRef(p)'
    <3>1. pc'[p] = "idle"
      BY <1>2, <2>2, Facts DEF Crash
    <3>. QED  BY <3>1 DEF HonestRef
  <2>3. ASSUME NEW q \in Resolvers, NEW new \in Requests, Start(q, new) PROVE HonestRef(p)'
    <3>1. /\ request'[p] = new /\ sha'[p] = None
          /\ pc'[p] = IF ~new.offline THEN "info"
                      ELSE IF new.kind = "gguf" THEN "lookup" ELSE "snapshot"
      BY <1>2, <2>3, Facts DEF Start
    <3>. QED  BY <3>1 DEF HonestRef
  <2>4. (\E c \in Commits : Push(c)) \/ UNCHANGED vars => HonestRef(p)'
    BY <1>2 DEF Push, vars, cacheVars, localVars, HonestRef, Pinned, Revision
  <2>. QED  BY <1>2, <2>1, <2>2, <2>3, <2>4 DEF Next, Finished
<1>3. HInv => PinnedRefHonest
  BY DEF HonestRef, PinnedRefHonest
<1>4. Inv /\ HInv /\ [Next]_vars => HInv'
  BY <1>2
<1>. QED  BY <1>1, <1>3, <1>4, Safety, PTL DEF Spec
=============================================================================
