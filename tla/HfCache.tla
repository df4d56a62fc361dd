------------------------------ MODULE HfCache ------------------------------
(***************************************************************************)
(* Resolution of a model into the Hugging Face cache (vllm-cpp/src/hf.rs).  *)
(*                                                                          *)
(* Several processes resolve models of one repository into one cache: the   *)
(* refs, each naming a commit, and a snapshot directory per commit.  The    *)
(* resolver pins its downloads to the commit the metadata names, checks     *)
(* where the files ended up and only then moves the requested revision's    *)
(* ref.  hf-hub, which downloads a file, links it into a snapshot and writes *)
(* the pinned ref, is external.  A process may die between any two steps.   *)
(*                                                                          *)
(* Blobs and paths are abstracted: a path is the file's name and the commit *)
(* in whose snapshot it lies, and an index is the set of shards it names.   *)
(***************************************************************************)
EXTENDS Naturals, Sequences, FiniteSets, SequencesExt

CONSTANTS
    Resolvers,    \* processes that call resolve
    Commits,      \* full commit SHAs of the repository
    Branch,       \* the one mutable revision, such as "main"
    None,         \* no ref, or nothing resolved
    Empty,        \* a ref file that has been created and not written yet
    Tree,         \* the root files of each commit
    Index,        \* the shards each commit's index names; {} for a malformed one
    Requests,     \* the requests that are made: [revision, kind, offline]
    HonestHub,    \* TRUE if a download always comes from the pinned commit
    MaxRuns,      \* bound: resolve calls per process
    MaxCrashes    \* bound: crashes

\* The files the resolver knows by name, and the shards, in the order of their names.
CONFIG == "config.json"
TOKENIZER == "tokenizer.json"
TOKENIZER_CONFIG == "tokenizer_config.json"
SAFETENSORS == "model.safetensors"
SAFETENSORS_INDEX == "model.safetensors.index.json"
GGUF == "model.gguf"
Shards == <<"shard-1.safetensors", "shard-2.safetensors">>
Files == {CONFIG, TOKENIZER, TOKENIZER_CONFIG, SAFETENSORS, SAFETENSORS_INDEX, GGUF}
             \cup Range(Shards)

Revisions == {Branch} \cup Commits
Request == [revision: Revisions, kind: {"gguf", "safetensors"}, offline: BOOLEAN]

ASSUME NamesAssumption ==
    /\ Branch \notin Commits
    /\ {None, Empty} \cap (Commits \cup {Branch}) = {}
    /\ None # Empty
ASSUME RepositoryAssumption ==
    /\ Tree \in [Commits -> SUBSET Files]
    /\ Index \in [Commits -> SUBSET Range(Shards)]
    /\ Requests \subseteq Request /\ Requests # {}
    /\ HonestHub \in BOOLEAN
ASSUME BoundsAssumption == MaxRuns \in Nat /\ MaxCrashes \in Nat

VARIABLES
    head,       \* the commit the hub's branch names
    refs,       \* the cache's refs
    snapshots,  \* the files in each snapshot directory
    pc,         \* progress of each process
    request,    \* its request
    sha,        \* the commit it resolves to
    todo,       \* the files it has still to get
    paths,      \* the paths it has got, as <<file, commit>>
    header,     \* the commit its last download came from
    created,    \* the ref file it writes has been created, not yet written
    result,     \* how its resolve ended, or will when the pinned ref is repaired
    runs,
    crashes

cacheVars == <<refs, snapshots>>
localVars == <<request, sha, todo, paths, header, created, result>>
boundVars == <<runs, crashes>>
vars == <<head, cacheVars, pc, localVars, boundVars>>

Steps == {"idle", "info", "get", "write_ref", "repair", "publish", "lookup",
          "snapshot", "list", "done"}
Results == {"none", "ok", "hub", "io", "cache_miss", "incomplete"}

TypeOK ==
    /\ head \in Commits
    /\ refs \in [Revisions -> Commits \cup {None, Empty}]
    /\ snapshots \in [Commits -> SUBSET Files]
    /\ pc \in [Resolvers -> Steps]
    /\ request \in [Resolvers -> Requests]
    /\ sha \in [Resolvers -> Commits \cup {None}]
    /\ todo \in [Resolvers -> Seq(Files)]
    /\ paths \in [Resolvers -> SUBSET (Files \X Commits)]
    /\ header \in [Resolvers -> Commits \cup {None}]
    /\ created \in [Resolvers -> BOOLEAN]
    /\ result \in [Resolvers -> Results]
    /\ runs \in [Resolvers -> 0..MaxRuns]
    /\ crashes \in 0..MaxCrashes

-----------------------------------------------------------------------------
(* What has to be retrieved                                                  *)

is_indexed(available) == SAFETENSORS \notin available

\* The files that are not weights, and the shards in the order of their names.
small_files(available) ==
    <<CONFIG, TOKENIZER>> \o (IF TOKENIZER_CONFIG \in available THEN <<TOKENIZER_CONFIG>> ELSE <<>>)
in_order(shards) ==
    (IF Shards[1] \in shards THEN <<Shards[1]>> ELSE <<>>)
    \o (IF Shards[2] \in shards THEN <<Shards[2]>> ELSE <<>>)

\* The files of a plan in the order in which they are retrieved, an index first, or none
\* if a required one is missing.
plan_safetensors(available) ==
    IF \/ ~({CONFIG, TOKENIZER} \subseteq available)
       \/ {SAFETENSORS, SAFETENSORS_INDEX} \cap available = {}
    THEN <<>>
    ELSE IF is_indexed(available) THEN <<SAFETENSORS_INDEX>> \o small_files(available)
    ELSE small_files(available) \o <<SAFETENSORS>>

\* An indexed plan also needs the shards, every one of which must be available.
plan_indexed_safetensors(available, shards) ==
    LET plan == plan_safetensors(available)
    IN  IF plan = <<>> \/ ~is_indexed(available) THEN plan
        ELSE IF shards = {} \/ ~(shards \subseteq available) THEN <<>>
        ELSE plan \o in_order(shards)

\* What an earlier resolve of the branch has left: nothing, or the snapshot it completed
\* and the two refs it wrote.
retrieved(c, kind) ==
    IF kind = "gguf" THEN {GGUF} \cap Tree[c]
    ELSE Range(plan_indexed_safetensors(Tree[c], Index[c]))

EarlierCache ==
    \/ /\ refs = [r \in Revisions |-> None]
       /\ snapshots = [c \in Commits |-> {}]
    \/ \E c \in Commits, q \in Requests :
          /\ ~q.offline /\ q.revision = Branch /\ retrieved(c, q.kind) # {}
          /\ refs = [r \in Revisions |-> IF r \in {Branch, c} THEN c ELSE None]
          /\ snapshots = [d \in Commits |-> IF d = c THEN retrieved(c, q.kind) ELSE {}]

Init ==
    /\ head \in Commits
    /\ EarlierCache
    /\ pc = [p \in Resolvers |-> "idle"]
    /\ request = [p \in Resolvers |-> CHOOSE q \in Requests : TRUE]
    /\ sha = [p \in Resolvers |-> None]
    /\ todo = [p \in Resolvers |-> <<>>]
    /\ paths = [p \in Resolvers |-> {}]
    /\ header = [p \in Resolvers |-> None]
    /\ created = [p \in Resolvers |-> FALSE]
    /\ result = [p \in Resolvers |-> "none"]
    /\ runs = [p \in Resolvers |-> 0]
    /\ crashes = 0

Pinned(p) == sha[p]
Kind(p) == request[p].kind
Revision(p) == request[p].revision

\* verify_requested_commit: a full SHA must be the one that was asked for.
verify_requested_commit(revision, c) == revision \in Commits => c = revision

-----------------------------------------------------------------------------
(* Starting, ending and dying                                                *)

Finish(p, outcome) ==
    /\ pc' = [pc EXCEPT ![p] = "done"]
    /\ result' = [result EXCEPT ![p] = outcome]

Start(p, q) ==
    /\ pc[p] \in {"idle", "done"} /\ runs[p] < MaxRuns
    /\ request' = [request EXCEPT ![p] = q]
    /\ pc' = [pc EXCEPT ![p] = IF ~q.offline THEN "info"
                               ELSE IF q.kind = "gguf" THEN "lookup" ELSE "snapshot"]
    /\ sha' = [sha EXCEPT ![p] = None]
    /\ todo' = [todo EXCEPT ![p] = <<>>]
    /\ paths' = [paths EXCEPT ![p] = {}]
    /\ header' = [header EXCEPT ![p] = None]
    /\ created' = [created EXCEPT ![p] = FALSE]
    /\ result' = [result EXCEPT ![p] = "none"]
    /\ runs' = [runs EXCEPT ![p] = @ + 1]
    /\ UNCHANGED <<head, cacheVars, crashes>>

Crash(p) ==
    /\ pc[p] \notin {"idle", "done"} /\ crashes < MaxCrashes
    /\ crashes' = crashes + 1
    /\ pc' = [pc EXCEPT ![p] = "idle"]
    /\ created' = [created EXCEPT ![p] = FALSE]
    /\ UNCHANGED <<head, cacheVars, request, sha, todo, paths, header, result, runs>>

\* The branch moves on the hub.
Push(c) ==
    /\ head' = c /\ c # head
    /\ UNCHANGED <<cacheVars, pc, localVars, boundVars>>

-----------------------------------------------------------------------------
(* Online: metadata, then one file after the other                           *)

\* The metadata names the branch's head, or answers a request for a commit.
Info(p, c) ==
    /\ pc[p] = "info"
    /\ Revision(p) = Branch => c = head
    /\ LET plan == IF Kind(p) = "gguf" THEN <<GGUF>> ELSE plan_safetensors(Tree[c])
           first == IF Kind(p) = "gguf" \/ ~is_indexed(Tree[c]) THEN plan
                    ELSE <<SAFETENSORS_INDEX>>
       IN  IF ~verify_requested_commit(Revision(p), c) \/ plan = <<>>
           THEN Finish(p, "incomplete") /\ UNCHANGED <<sha, todo>>
           ELSE /\ pc' = [pc EXCEPT ![p] = "get"]
                /\ sha' = [sha EXCEPT ![p] = c]
                /\ todo' = [todo EXCEPT ![p] = first]
                /\ UNCHANGED result
    /\ UNCHANGED <<head, cacheVars, request, paths, header, created, boundVars>>

InfoFails(p) ==
    /\ pc[p] = "info"
    /\ Finish(p, "hub")
    /\ UNCHANGED <<head, cacheVars, request, sha, todo, paths, header, created, boundVars>>

\* Fault: the failure is reported at once.
report_failure(p, outcome) ==
    /\ pc' = [pc EXCEPT ![p] = "done"]
    /\ result' = [result EXCEPT ![p] = outcome]
\* Failure after the commit was pinned: the pinned ref is repaired first.
FailPinned(p, outcome) ==
    /\ pc' = [pc EXCEPT ![p] = "repair"]
    /\ result' = [result EXCEPT ![p] = outcome]

\* Fault: the index is used, and its path forgotten.
forget_index(p, f, c) == IF f = SAFETENSORS_INDEX THEN paths[p] ELSE paths[p] \cup {<<f, c>>}
record_path(p, f, c) == paths[p] \cup {<<f, c>>}

\* pinned.get returned the file f in the snapshot of c.  The index decides what is
\* left to get; it is read where it was found.
Got(p, f, c) ==
    LET plan == plan_indexed_safetensors(Tree[Pinned(p)], Index[c])
        rest == IF f = SAFETENSORS_INDEX /\ plan # <<>> THEN Tail(plan) ELSE Tail(todo[p])
    IN  /\ paths' = [paths EXCEPT ![p] = record_path(p, f, c)]
        /\ todo' = [todo EXCEPT ![p] = rest]
        /\ IF f = SAFETENSORS_INDEX /\ plan = <<>>
           THEN FailPinned(p, "incomplete")
           ELSE pc' = [pc EXCEPT ![p] = "get"] /\ UNCHANGED result

\* Where the ref of revision r leads for a file: to the snapshots that have it.
cached(r, f) == {c \in Commits : refs[r] = c /\ f \in snapshots[c]}

GetCached(p) ==
    /\ pc[p] = "get" /\ todo[p] # <<>>
    /\ \E c \in cached(Pinned(p), Head(todo[p])) : Got(p, Head(todo[p]), c)
    /\ UNCHANGED <<head, cacheVars, request, sha, header, created, boundVars>>

\* hf-hub downloads the file and links it into the snapshot of the commit that the
\* response's header names.
Download(p, c) ==
    /\ pc[p] = "get" /\ todo[p] # <<>>
    /\ cached(Pinned(p), Head(todo[p])) = {}
    /\ HonestHub => c = Pinned(p)
    /\ Head(todo[p]) \in Tree[c]
    /\ snapshots' = [snapshots EXCEPT ![c] = @ \cup {Head(todo[p])}]
    /\ header' = [header EXCEPT ![p] = c]
    /\ pc' = [pc EXCEPT ![p] = "write_ref"]
    /\ UNCHANGED <<head, refs, request, sha, todo, paths, created, result, boundVars>>

DownloadFails(p) ==
    /\ pc[p] = "get" /\ todo[p] # <<>>
    /\ cached(Pinned(p), Head(todo[p])) = {}
    /\ FailPinned(p, "hub")
    /\ UNCHANGED <<head, cacheVars, request, sha, todo, paths, header, created, boundVars>>

\* create_ref creates, or truncates, the ref file, and then writes the commit.
CreateRef(p, r) ==
    /\ ~created[p]
    /\ refs' = [refs EXCEPT ![r] = Empty]
    /\ created' = [created EXCEPT ![p] = TRUE]
    /\ UNCHANGED <<head, snapshots, pc, request, sha, todo, paths, header, result,
                   boundVars>>

FillRef(p, r, c) ==
    /\ created[p]
    /\ refs' = [refs EXCEPT ![r] = c]
    /\ created' = [created EXCEPT ![p] = FALSE]

\* hf-hub ends a download by making the pinned ref name the commit it came from.
WriteRef(p) ==
    /\ pc[p] = "write_ref"
    /\ \/ CreateRef(p, Pinned(p))
       \/ /\ FillRef(p, Pinned(p), header[p])
          /\ Got(p, Head(todo[p]), header[p])
          /\ UNCHANGED <<head, snapshots, request, sha, header, boundVars>>

\* Fault: the paths are not compared with the pinned commit.
verify_nothing(p) == paths[p] # {}
\* All files lie in the snapshot of the pinned commit.
verify_snapshot_paths(p) ==
    paths[p] # {} /\ \A path \in paths[p] : path[2] = Pinned(p)

Verify(p) ==
    /\ pc[p] = "get" /\ todo[p] = <<>>
    /\ IF verify_snapshot_paths(p)
       THEN pc' = [pc EXCEPT ![p] = "publish"] /\ UNCHANGED result
       ELSE FailPinned(p, "incomplete")
    /\ UNCHANGED <<head, cacheVars, request, sha, todo, paths, header, created, boundVars>>

\* Fault: the pinned ref is left as hf-hub wrote it.
leave_pinned_ref(p) == header[p]
\* Fault: the revision's name is written in place of the commit.
name_pinned_ref(p) == Revision(p)
repaired_ref(p) == Pinned(p)

\* repair_pinned_ref, before the failure is reported.
Repair(p) ==
    /\ pc[p] = "repair"
    /\ \/ CreateRef(p, Pinned(p))
       \/ /\ FillRef(p, Pinned(p), repaired_ref(p))
          /\ Finish(p, result[p])
          /\ UNCHANGED <<head, snapshots, request, sha, todo, paths, header, boundVars>>

\* The requested revision's ref comes last.
Publish(p) ==
    /\ pc[p] = "publish"
    /\ \/ CreateRef(p, Revision(p))
       \/ /\ FillRef(p, Revision(p), Pinned(p))
          /\ Finish(p, "ok")
          /\ UNCHANGED <<head, snapshots, request, sha, todo, paths, header, boundVars>>

\* A ref cannot be created or written.
WriteFails(p) ==
    /\ \/ pc[p] = "write_ref" /\ FailPinned(p, "hub")
       \/ pc[p] \in {"repair", "publish"} /\ Finish(p, "io")
    /\ created' = [created EXCEPT ![p] = FALSE]
    /\ UNCHANGED <<head, cacheVars, request, sha, todo, paths, header, boundVars>>

-----------------------------------------------------------------------------
(* Offline                                                                   *)

\* A GGUF file is looked up through the revision's ref.
OfflineLookup(p) ==
    /\ pc[p] = "lookup"
    /\ IF cached(Revision(p), GGUF) = {}
       THEN Finish(p, "cache_miss") /\ UNCHANGED paths
       ELSE /\ paths' = [paths EXCEPT ![p] = {<<GGUF, refs[Revision(p)]>>}]
            /\ pc' = [pc EXCEPT ![p] = "snapshot"]
            /\ UNCHANGED result
    /\ UNCHANGED <<head, cacheVars, request, sha, todo, header, created, boundVars>>

\* snapshot_for_cached_revision's failures.
ref_error(r) ==
    IF refs[r] = None THEN "cache_miss"
    ELSE IF refs[r] = Empty THEN "incomplete"
    ELSE IF snapshots[refs[r]] = {} THEN "cache_miss"
    ELSE IF ~verify_requested_commit(r, refs[r]) THEN "incomplete" ELSE "none"

\* Fault: a path found earlier is taken to lie in the snapshot found now.
trust_lookup(p, c) == TRUE
same_snapshot(p, c) == \A path \in paths[p] : path[2] = c

\* The ref is read, for a GGUF file a second time.
OfflineSnapshot(p) ==
    /\ pc[p] = "snapshot"
    /\ LET c == refs[Revision(p)]
       IN  IF ref_error(Revision(p)) # "none"
           THEN Finish(p, ref_error(Revision(p))) /\ UNCHANGED sha
           ELSE /\ sha' = [sha EXCEPT ![p] = c]
                /\ IF Kind(p) = "safetensors"
                   THEN pc' = [pc EXCEPT ![p] = "list"] /\ UNCHANGED result
                   ELSE Finish(p, IF same_snapshot(p, c) THEN "ok" ELSE "incomplete")
    /\ UNCHANGED <<head, cacheVars, request, todo, paths, header, created, boundVars>>

\* The plan is made from the files that are in the snapshot, and its index.
OfflineList(p) ==
    /\ pc[p] = "list"
    /\ LET plan == plan_indexed_safetensors(snapshots[Pinned(p)], Index[Pinned(p)])
       IN  /\ Finish(p, IF plan = <<>> THEN "incomplete" ELSE "ok")
           /\ paths' = [paths EXCEPT ![p] = Range(plan) \X {Pinned(p)}]
    /\ UNCHANGED <<head, cacheVars, request, sha, todo, header, created, boundVars>>

-----------------------------------------------------------------------------
Resolve(p) ==
    \/ \E c \in Commits : Info(p, c) \/ Download(p, c)
    \/ InfoFails(p) \/ GetCached(p) \/ DownloadFails(p)
    \/ WriteRef(p) \/ Verify(p) \/ Repair(p) \/ Publish(p) \/ WriteFails(p)
    \/ OfflineLookup(p) \/ OfflineSnapshot(p) \/ OfflineList(p)

Finished ==
    /\ \A p \in Resolvers : pc[p] \in {"idle", "done"} /\ runs[p] = MaxRuns
    /\ UNCHANGED vars

Next ==
    \/ \E p \in Resolvers : Resolve(p) \/ Crash(p)
    \/ \E p \in Resolvers, q \in Requests : Start(p, q)
    \/ \E c \in Commits : Push(c)
    \/ Finished

Spec == Init /\ [][Next]_vars

-----------------------------------------------------------------------------
(* Properties                                                                *)

\* What a model needs at run time: its weights in one file, or an index and every shard
\* that it names.  The tokenizer configuration is optional, and a hub that answers from the
\* wrong commit can fill a snapshot without it.
HasWeights(c) ==
    \/ SAFETENSORS \in snapshots[c]
    \/ SAFETENSORS_INDEX \in snapshots[c] /\ Index[c] # {} /\ Index[c] \subseteq snapshots[c]
HasModel(c, kind) ==
    IF kind = "gguf" THEN GGUF \in snapshots[c]
    ELSE /\ {CONFIG, TOKENIZER} \subseteq snapshots[c]
         /\ HonestHub => {TOKENIZER_CONFIG} \cap Tree[c] \subseteq snapshots[c]
         /\ HasWeights(c)

\* A successful resolve, online or from the cache, hands out a snapshot that holds
\* everything the requested kind of model needs, and for a full SHA it is that
\* commit's, whatever other processes did to the refs meanwhile.
ResolvedComplete ==
    \A p \in Resolvers :
        pc[p] = "done" /\ result[p] = "ok" =>
            /\ HasModel(sha[p], Kind(p))
            /\ verify_requested_commit(Revision(p), sha[p])
            /\ \A path \in paths[p] : path[2] = sha[p] /\ path[1] \in snapshots[sha[p]]

\* The branch's ref names only snapshots that some retrieval completed: failures,
\* crashes and downloads that land in a wrong snapshot never reach it.
AliasComplete ==
    refs[Branch] \in Commits =>
        \E kind \in {"gguf", "safetensors"} : HasModel(refs[Branch], kind)

\* When a resolve that pinned a commit returns, successfully or not, that commit's
\* ref names the commit itself, unless the ref could not be written: a wrong one is
\* not left to mislead the next resolve.
PinnedRefHonest ==
    \A p \in Resolvers :
        pc[p] = "done" /\ sha[p] # None /\ ~request[p].offline /\ result[p] # "io" =>
            refs[sha[p]] = sha[p]

\* The ref r is being written, or is about to be repaired.
Writing(p) == IF pc[p] = "publish" THEN Revision(p) ELSE Pinned(p)
Unfinished(r) ==
    \E p \in Resolvers :
        (pc[p] = "repair" \/ created[p]) /\ Writing(p) = r

\* create_ref truncates a ref before it writes it, so a revision that resolved offline
\* before can stop doing so.  Of everything that ends a retrieval, downloads and ref
\* writes of hf-hub that fail among it, only a process death and a failed write that
\* is reported as such leave a ref empty.
EmptyRefIsReported ==
    [][\A r \in Revisions :
          Unfinished(r) /\ refs'[r] = Empty =>
              \/ Unfinished(r)' \/ crashes' # crashes
              \/ \E p \in Resolvers : pc[p] # "done" /\ pc'[p] = "done" /\ result'[p] = "io"]_vars

\* "creates that revision's cache ref only after a complete successful retrieval"
\* (vllm-cpp/README.md), of every requested revision, a full SHA included.
RevisionRefComplete ==
    \A p \in Resolvers :
        pc[p] # "idle" /\ refs[Revision(p)] \in Commits =>
            \E kind \in {"gguf", "safetensors"} : HasModel(refs[Revision(p)], kind)
=============================================================================
