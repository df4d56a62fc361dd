----------------------------- MODULE MCHfCache -----------------------------
(* Small instances of HfCache for TLC.                                      *)
EXTENDS HfCache, TLC

CONSTANTS c1, c2, c3, p1, p2

\* c1 has its weights in one file, and an index besides; c2 and c3 have an index only, of
\* two shards and of one.  The tokenizer configuration is not in c2.
MCTree == [c \in Commits |->
              {CONFIG, TOKENIZER, GGUF} \cup
              CASE c = c1 -> {TOKENIZER_CONFIG, SAFETENSORS, SAFETENSORS_INDEX, Shards[1]}
                [] c = c2 -> {SAFETENSORS_INDEX} \cup Range(Shards)
                [] OTHER  -> {TOKENIZER_CONFIG, SAFETENSORS_INDEX, Shards[1]}]
MCIndex == [c \in Commits |->
               CASE c = c2 -> Range(Shards)
                 [] OTHER  -> {Shards[1]}]

\* Any request at all.
AllRequests == Request
\* Requests for Safetensors models.
Safetensors == {q \in Request : q.kind = "safetensors"}

\* The processes all start idle and are told apart by nothing else.
Symmetry == Permutations(Resolvers)
=============================================================================
