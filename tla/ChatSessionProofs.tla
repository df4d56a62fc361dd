-------------------------- MODULE ChatSessionProofs --------------------------
(***************************************************************************)
(* Proofs about ChatSession, for any texts, chunks, replies and number of    *)
(* turns and events.                                                        *)
(*                                                                          *)
(* Filter and Told are recursive functions.  What they compute is shown by   *)
(* induction, from the well-foundedness of the natural numbers, and with     *)
(* that ConvInv: the history is the system message, the finished exchanges   *)
(* on the screen and, within a turn, its question.                          *)
(***************************************************************************)
EXTENDS ChatSession, Integers, SequenceTheorems, WellFoundedInduction, TLAPS

-----------------------------------------------------------------------------
(* Definitions by recursion                                                  *)

\* Induction on the natural numbers, with a set for the predicate.
LEMMA Induction ==
    ASSUME NEW S, 0 \in S, \A n \in Nat : n \in S => n + 1 \in S
    PROVE  Nat \subseteq S
<1>. DEFINE Less == {p \in Nat \X Nat : p[1] < p[2]}
            Rest == Nat \ S
<1>1. IsWellFoundedOn(Less, Nat)
  BY NatLessThanWellFounded DEF OpToRel
<1>2. SUFFICES ASSUME Rest # {} PROVE FALSE
  OBVIOUS
<1>3. PICK n \in Rest : \A m \in Rest : <<m, n>> \notin Less
  <2>. HIDE DEF Less
  <2>. QED  BY <1>1, <1>2, WFMin
<1>4. n # 0 /\ n - 1 \in Rest
  OBVIOUS
<1>5. <<n - 1, n>> \in Less
  BY <1>4
<1>. QED  BY <1>3, <1>4, <1>5

\* A function whose values are each made from the last one.
IsRun(X, base, len, step, f) ==
    f \in [0..len -> X] /\ f[0] = base /\ \A n \in 1..len : f[n] = step[n][f[n - 1]]

LEMMA Recursion ==
    ASSUME NEW X, NEW base \in X, NEW len \in Nat, NEW step \in [1..len -> [X -> X]]
    PROVE  \E f : IsRun(X, base, len, step, f)
<1>. DEFINE Upto(f, m) == f[0] = base /\ \A n \in 1..m : f[n] = step[n][f[n - 1]]
            S == {m \in Nat : m <= len => \E f \in [0..m -> X] : Upto(f, m)}
<1>1. 0 \in S
  <2>1. Upto([n \in 0..0 |-> base], 0)
    OBVIOUS
  <2>. QED  BY <2>1
<1>2. ASSUME NEW m \in Nat, m \in S PROVE m + 1 \in S
  <2>1. SUFFICES ASSUME m + 1 <= len PROVE \E f \in [0..(m + 1) -> X] : Upto(f, m + 1)
    OBVIOUS
  <2>2. PICK f \in [0..m -> X] : Upto(f, m)
    BY <1>2, <2>1
  <2>. DEFINE g == [n \in 0..(m + 1) |-> IF n <= m THEN f[n] ELSE step[m + 1][f[m]]]
  <2>3. step[m + 1] \in [X -> X] /\ f[m] \in X
    BY <2>1
  <2>4. g \in [0..(m + 1) -> X]
    BY <2>3
  <2>5. Upto(g, m + 1)
    BY <2>2, <2>3
  <2>. QED  BY <2>4, <2>5
<1>3. len \in S
  <2>. HIDE DEF S
  <2>. QED  BY <1>1, <1>2, Induction
<1>. QED  BY <1>3 DEF IsRun

\* What Filter computes with.
IsKept(s, S, f) ==
    /\ DOMAIN f = 0..Len(s) /\ f[0] = <<>>
    /\ \A n \in 0..(Len(s) - 1) :
           f[n + 1] = IF s[n + 1] \in S THEN Append(f[n], s[n + 1]) ELSE f[n]

LEMMA FilterDef ==
    ASSUME NEW X, NEW s \in Seq(X), NEW S
    PROVE  \E f : IsKept(s, S, f) /\ Filter(s, S) = f[Len(s)]
<1>. DEFINE Q == Seq(X)
            step == [n \in 1..Len(s) |-> [q \in Q |-> IF s[n] \in S THEN Append(q, s[n]) ELSE q]]
            Equation(f) ==
                f = [n \in 0..Len(s) |->
                        IF n = 0 THEN <<>>
                        ELSE IF s[n] \in S THEN Append(f[n - 1], s[n]) ELSE f[n - 1]]
<1>1. Len(s) \in Nat /\ step \in [1..Len(s) -> [Q -> Q]]
  OBVIOUS
<1>2. <<>> \in Q
  OBVIOUS
<1>3. PICK f : IsRun(Q, <<>>, Len(s), step, f)
  <2>. HIDE DEF step, Q
  <2>. QED  BY <1>1, <1>2, Recursion
<1>4. ASSUME NEW n \in 1..Len(s)
      PROVE  f[n] = IF s[n] \in S THEN Append(f[n - 1], s[n]) ELSE f[n - 1]
  <2>1. f[n - 1] \in Q
    <3>. HIDE DEF step, Q
    <3>. QED  BY <1>1, <1>3 DEF IsRun
  <2>2. step[n][f[n - 1]] = IF s[n] \in S THEN Append(f[n - 1], s[n]) ELSE f[n - 1]
    BY <2>1
  <2>. QED  BY <1>3, <2>2 DEF IsRun
<1>5. Equation(f)
  <2>. HIDE DEF step, Q
  <2>1. f = [n \in 0..Len(s) |-> f[n]] /\ f[0] = <<>>
    BY <1>3 DEF IsRun
  <2>2. ASSUME NEW n \in 0..Len(s)
        PROVE  f[n] = IF n = 0 THEN <<>>
                      ELSE IF s[n] \in S THEN Append(f[n - 1], s[n]) ELSE f[n - 1]
    <3>1. n = 0 \/ n \in 1..Len(s)
      BY <1>1
    <3>. QED  BY <1>4, <2>1, <3>1
  <2>. QED  BY <2>1, <2>2, Zenon
<1>6. PICK g : Equation(g) /\ Filter(s, S) = g[Len(s)]
  <2>1. \E g : Equation(g)
    <3>. HIDE DEF Equation
    <3>. QED  BY <1>5
  <2>. QED  BY <2>1 DEF Filter
<1>7. IsKept(s, S, g)
  <2>1. ASSUME NEW n \in 0..(Len(s) - 1)
        PROVE  g[n + 1] = IF s[n + 1] \in S THEN Append(g[n], s[n + 1]) ELSE g[n]
    <3>1. n + 1 \in 0..Len(s) /\ n + 1 # 0 /\ (n + 1) - 1 = n
      BY <1>1
    <3>. QED  BY <1>6, <3>1
  <2>2. DOMAIN g = 0..Len(s) /\ g[0] = <<>>
    BY <1>1, <1>6
  <2>. QED  BY <2>1, <2>2 DEF IsKept
<1>. QED  BY <1>6, <1>7

\* A filter keeps nothing but members of its set.
LEMMA FilterType ==
    ASSUME NEW X, NEW s \in Seq(X), NEW S
    PROVE  Filter(s, S) \in Seq(X \cap S)
<1>1. PICK f : IsKept(s, S, f) /\ Filter(s, S) = f[Len(s)]
  BY FilterDef
<1>. DEFINE T == {n \in Nat : n <= Len(s) => f[n] \in Seq(X \cap S)}
<1>2. 0 \in T
  <2>1. f[0] = <<>> /\ <<>> \in Seq(X \cap S)
    BY <1>1 DEF IsKept
  <2>2. f[0] \in Seq(X \cap S)
    BY <2>1, Zenon
  <2>. QED  BY <2>2
<1>3. ASSUME NEW n \in Nat, n \in T PROVE n + 1 \in T
  <2>1. SUFFICES ASSUME n + 1 <= Len(s) PROVE f[n + 1] \in Seq(X \cap S)
    OBVIOUS
  <2>2. f[n + 1] = IF s[n + 1] \in S THEN Append(f[n], s[n + 1]) ELSE f[n]
    BY <1>1, <2>1 DEF IsKept
  <2>3. f[n] \in Seq(X \cap S) /\ s[n + 1] \in X
    BY <1>3, <2>1
  <2>. QED  BY <2>2, <2>3
<1>4. Len(s) \in T
  <2>. HIDE DEF T
  <2>. QED  BY <1>2, <1>3, Induction
<1>. QED  BY <1>1, <1>4

\* Members at the front and others behind: the filter keeps the front.
LEMMA FilterFront ==
    ASSUME NEW X, NEW s \in Seq(X), NEW S, NEW k \in 0..Len(s),
           \A n \in 1..k : s[n] \in S, \A n \in (k + 1)..Len(s) : s[n] \notin S
    PROVE  Filter(s, S) = SubSeq(s, 1, k)
<1>1. PICK f : IsKept(s, S, f) /\ Filter(s, S) = f[Len(s)]
  BY FilterDef
<1>. DEFINE Front(n) == SubSeq(s, 1, IF n <= k THEN n ELSE k)
            T == {n \in Nat : n <= Len(s) => f[n] = Front(n)}
<1>2. 0 \in T
  <2>1. f[0] = <<>>
    BY <1>1 DEF IsKept
  <2>2. Front(0) = <<>>
    BY SubSeqEmpty
  <2>3. f[0] = Front(0)
    BY <2>1, <2>2, Zenon
  <2>. HIDE DEF Front
  <2>. QED  BY <2>3
<1>3. ASSUME NEW n \in Nat, n \in T PROVE n + 1 \in T
  <2>1. SUFFICES ASSUME n + 1 <= Len(s) PROVE f[n + 1] = Front(n + 1)
    OBVIOUS
  <2>2. f[n + 1] = IF s[n + 1] \in S THEN Append(f[n], s[n + 1]) ELSE f[n]
    BY <1>1, <2>1 DEF IsKept
  <2>3. f[n] = Front(n)
    BY <1>3, <2>1
  <2>4. CASE n + 1 <= k
    <3>1. SubSeq(s, 1, n + 1) = Append(SubSeq(s, 1, n), s[n + 1])
      BY <2>1
    <3>. QED  BY <2>2, <2>3, <2>4, <3>1
  <2>5. CASE ~(n + 1 <= k)
    BY <2>1, <2>2, <2>3, <2>5
  <2>. QED  BY <2>4, <2>5
<1>4. Len(s) \in T
  <2>. HIDE DEF T
  <2>. QED  BY <1>2, <1>3, Induction
<1>. QED  BY <1>1, <1>4

-----------------------------------------------------------------------------
\* The next step of Told.
Retold(t, n, told) ==
    IF t[n].kind = "cleared" THEN <<>>
    ELSE IF t[n].kind = "assistant" /\ t[n].whole
         THEN told \o <<message("user", t[n - 1].content), message("assistant", t[n].content)>>
    ELSE told

\* What Told computes with.
IsTold(t, f) ==
    /\ DOMAIN f = 0..Len(t) /\ f[0] = <<>>
    /\ \A n \in 0..(Len(t) - 1) : f[n + 1] = Retold(t, n + 1, f[n])

LEMMA ToldDef ==
    ASSUME NEW X, NEW t \in Seq(X)
    PROVE  \E f : IsTold(t, f) /\ Told(t) = f[Len(t)]
<1>. DEFINE M == {message("user", t[n - 1].content) : n \in 1..Len(t)} \cup
                 {message("assistant", t[n].content) : n \in 1..Len(t)}
            Q == Seq(M)
            step == [n \in 1..Len(t) |-> [q \in Q |-> Retold(t, n, q)]]
            Equation(f) ==
                f = [n \in 0..Len(t) |->
                        IF n = 0 \/ t[n].kind = "cleared" THEN <<>>
                        ELSE IF t[n].kind = "assistant" /\ t[n].whole
                             THEN f[n - 1] \o <<message("user", t[n - 1].content),
                                               message("assistant", t[n].content)>>
                        ELSE f[n - 1]]
<1>1. Len(t) \in Nat
  OBVIOUS
<1>2. ASSUME NEW n \in 1..Len(t), NEW q \in Q PROVE Retold(t, n, q) \in Q
  <2>1. message("user", t[n - 1].content) \in M /\ message("assistant", t[n].content) \in M
    OBVIOUS
  <2>. HIDE DEF M
  <2>. QED  BY <2>1 DEF Retold
<1>3. step \in [1..Len(t) -> [Q -> Q]]
  <2>. HIDE DEF Q
  <2>. QED  BY <1>2
<1>4. <<>> \in Q
  <2>. HIDE DEF M
  <2>. QED  OBVIOUS
<1>5. PICK f : IsRun(Q, <<>>, Len(t), step, f)
  <2>. HIDE DEF step, Q
  <2>. QED  BY <1>1, <1>3, <1>4, Recursion
<1>6. ASSUME NEW n \in 1..Len(t) PROVE f[n] = Retold(t, n, f[n - 1])
  <2>. HIDE DEF Q
  <2>1. f[n - 1] \in Q
    BY <1>5 DEF IsRun
  <2>2. step[n][f[n - 1]] = Retold(t, n, f[n - 1])
    BY <2>1
  <2>. QED  BY <1>5, <2>2 DEF IsRun
<1>7. Equation(f)
  <2>. HIDE DEF Q, step
  <2>1. ASSUME NEW n \in 0..Len(t)
        PROVE  f[n] = IF n = 0 \/ t[n].kind = "cleared" THEN <<>>
                      ELSE IF t[n].kind = "assistant" /\ t[n].whole
                           THEN f[n - 1] \o <<message("user", t[n - 1].content),
                                             message("assistant", t[n].content)>>
                      ELSE f[n - 1]
    <3>1. CASE n = 0
      BY <1>5, <3>1 DEF IsRun
    <3>2. CASE n # 0
      BY <1>1, <1>6, <3>2 DEF Retold
    <3>. QED  BY <3>1, <3>2
  <2>2. f = [n \in 0..Len(t) |-> f[n]]
    BY <1>5 DEF IsRun
  <2>. QED  BY <2>1, <2>2, Zenon
<1>8. PICK g : Equation(g) /\ Told(t) = g[Len(t)]
  <2>1. \E g : Equation(g)
    <3>. HIDE DEF Equation
    <3>. QED  BY <1>7
  <2>. QED  BY <2>1 DEF Told
<1>9. IsTold(t, g)
  <2>. HIDE DEF Q, M, step
  <2>1. ASSUME NEW n \in 0..(Len(t) - 1) PROVE g[n + 1] = Retold(t, n + 1, g[n])
    <3>1. n + 1 \in 0..Len(t) /\ n + 1 # 0 /\ (n + 1) - 1 = n
      BY <1>1
    <3>. QED  BY <1>8, <3>1 DEF Retold
  <2>2. DOMAIN g = 0..Len(t) /\ g[0] = <<>>
    BY <1>1, <1>8
  <2>. QED  BY <2>1, <2>2 DEF IsTold
<1>. QED  BY <1>8, <1>9

LEMMA ToldEmpty == Told(<<>>) = <<>>
<1>1. PICK f : IsTold(<<>>, f) /\ Told(<<>>) = f[Len(<<>>)]
  <2>1. <<>> \in Seq({})
    OBVIOUS
  <2>. QED  BY <2>1, ToldDef
<1>. QED  BY <1>1 DEF IsTold

\* A longer transcript is retold from the shorter one.
LEMMA ToldAppend ==
    ASSUME NEW X, NEW t \in Seq(X), NEW e \in X,
           Append(t, e)[1].kind # "assistant"
    PROVE  Told(Append(t, e)) = Retold(Append(t, e), Len(t) + 1, Told(t))
<1>. DEFINE u == Append(t, e)
<1>1. /\ u \in Seq(X) /\ Len(u) = Len(t) + 1 /\ Len(t) \in Nat
      /\ \A n \in 1..Len(t) : u[n] = t[n]
  OBVIOUS
<1>2. PICK f : IsTold(t, f) /\ Told(t) = f[Len(t)]
  BY ToldDef
<1>3. PICK g : IsTold(u, g) /\ Told(u) = g[Len(u)]
  BY <1>1, ToldDef
<1>. HIDE DEF u
<1>. DEFINE S == {n \in Nat : n <= Len(t) => g[n] = f[n]}
<1>4. 0 \in S
  BY <1>2, <1>3 DEF IsTold
<1>5. ASSUME NEW n \in Nat, n \in S PROVE n + 1 \in S
  <2>1. SUFFICES ASSUME n + 1 <= Len(t) PROVE g[n + 1] = f[n + 1]
    OBVIOUS
  <2>2. g[n + 1] = Retold(u, n + 1, g[n]) /\ f[n + 1] = Retold(t, n + 1, f[n])
    BY <1>1, <1>2, <1>3, <2>1 DEF IsTold
  <2>3. g[n] = f[n]
    BY <1>5, <2>1
  <2>4. u[n + 1] = t[n + 1] /\ (n # 0 => u[n] = t[n]) /\ (n + 1) - 1 = n
    BY <1>1, <2>1
  <2>5. CASE n # 0
    BY <2>2, <2>3, <2>4, <2>5 DEF Retold
  <2>6. CASE n = 0
    BY <2>2, <2>3, <2>4, <2>6 DEF Retold, u
  <2>. QED  BY <2>5, <2>6
<1>6. g[Len(t)] = f[Len(t)]
  <2>1. Len(t) \in S
    <3>. HIDE DEF S
    <3>. QED  BY <1>1, <1>4, <1>5, Induction
  <2>. QED  BY <1>1, <2>1
<1>7. g[Len(t) + 1] = Retold(u, Len(t) + 1, g[Len(t)])
  BY <1>1, <1>3 DEF IsTold
<1>. QED  BY <1>1, <1>2, <1>3, <1>6, <1>7 DEF u

-----------------------------------------------------------------------------
(* The conversation                                                          *)

\* The history of a session: the system message, then questions and answers in pairs.
Base == initial_history(args)

Paired(c) ==
    /\ Len(c) % 2 = 0
    /\ \A i \in 1..Len(c) : c[i].role = IF i % 2 = 1 THEN "user" ELSE "assistant"

\* The last entry of t asks a question; the history ends with it and can be rolled back
\* to what was told before.
Asking(t) ==
    /\ t # <<>> /\ t[Len(t)].kind = "user"
    /\ checkpoint = Len(Base \o Told(t))
    /\ history = Append(Base \o Told(t), message("user", t[Len(t)].content))

\* A streamed answer follows the question, and is on the screen as far as it came.
Streaming ==
    \E t \in Seq(Entry), content \in Text :
        /\ transcript = Append(t, Answer(content, FALSE))
        /\ Asking(t)
        /\ failure = "none" => content = assistant

ConvInv ==
    /\ TypeOK
    /\ transcript # <<>> => transcript[1].kind # "assistant"
    /\ Told(transcript) \in Seq(Message) /\ Paired(Told(transcript))
    /\ pc = "start" => history = <<>> /\ transcript = <<>>
    /\ pc = "prompt" => history = Base \o Told(transcript)
    /\ pc \in {"turn", "blocking"} => Asking(transcript)
    /\ pc = "streaming" => Streaming
    /\ pc \in {"streaming", "blocking"} => request = history
    /\ pc # "streaming" => failure = "none" /\ assistant = <<>>
    /\ pc = "exited" =>
           history = <<>> \/ \E c \in Seq(Message) : Paired(c) /\ history = Base \o c

LEMMA BaseType ==
    ASSUME args.system \in Texts \cup {None}
    PROVE  /\ Base \in Seq(Message) /\ Len(Base) \in 0..1
           /\ \A i \in 1..Len(Base) : Base[i] \in SystemMessage
<1>1. CASE args.system = None
  BY <1>1 DEF Base, initial_history
<1>2. CASE args.system # None
  <2>1. <<args.system>> \in Text
    BY <1>2 DEF Text
  <2>2. message("system", <<args.system>>) \in Message \cap SystemMessage
    BY <2>1 DEF message, Message, SystemMessage, Role
  <2>. QED  BY <1>2, <2>2 DEF Base, initial_history
<1>. QED  BY <1>1, <1>2

\* What is said and shown is made of entries and messages.
LEMMA EntryTypes ==
    /\ \A text \in Texts :
           /\ Said(text) \in Entry /\ Said(text).kind = "user"
           /\ Said(text).content = <<text>>
           /\ message("user", <<text>>) \in Message
    /\ \A content \in Text : \A whole \in BOOLEAN :
           /\ Answer(content, whole) \in Entry /\ Answer(content, whole).kind = "assistant"
           /\ Answer(content, whole).content = content /\ Answer(content, whole).whole = whole
           /\ message("assistant", content) \in Message
           /\ message("user", content) \in Message
    /\ \A kind \in {"error", "cleared"} :
           Notice(kind) \in Entry /\ Notice(kind).kind = kind
<1>1. ASSUME NEW text \in Texts PROVE <<text>> \in Text
  BY DEF Text
<1>2. <<>> \in Text
  BY DEF Text
<1>. QED
  BY <1>1, <1>2 DEF Said, Answer, Notice, Entry, message, Message, Role

\* The screen shows one more entry.
LEMMA ToldMore ==
    ASSUME NEW t \in Seq(Entry), NEW e \in Entry,
           Append(t, e)[1].kind # "assistant",
           Told(t) \in Seq(Message), Paired(Told(t))
    PROVE  /\ e.kind = "cleared" => Told(Append(t, e)) = <<>>
           /\ e.kind # "cleared" /\ ~(e.kind = "assistant" /\ e.whole) =>
                  Told(Append(t, e)) = Told(t)
           /\ e.kind = "assistant" /\ e.whole =>
                  Told(Append(t, e)) = Told(t) \o <<message("user", t[Len(t)].content),
                                                   message("assistant", e.content)>>
           /\ Told(Append(t, e)) \in Seq(Message) /\ Paired(Told(Append(t, e)))
<1>1. Len(t) \in Nat /\ Append(t, e)[Len(t) + 1] = e /\ (Len(t) + 1) - 1 = Len(t)
  OBVIOUS
<1>2. CASE e.kind = "cleared"
  <2>1. Told(Append(t, e)) = <<>>
    BY <1>1, <1>2, ToldAppend DEF Retold
  <2>2. <<>> \in Seq(Message) /\ Paired(<<>>)
    BY DEF Paired
  <2>. QED  BY <1>2, <2>1, <2>2, Zenon
<1>3. CASE e.kind # "cleared" /\ ~(e.kind = "assistant" /\ e.whole)
  <2>1. Told(Append(t, e)) = Told(t)
    BY <1>1, <1>3, ToldAppend DEF Retold
  <2>. QED  BY <1>3, <2>1, Zenon
<1>4. CASE e.kind = "assistant" /\ e.whole
  <2>1. t # <<>>
    BY <1>4
  <2>2. Len(t) \in 1..Len(t)
    BY <1>1, <2>1
  <2>a. Append(t, e)[Len(t)] = t[Len(t)] /\ t[Len(t)] \in Entry
    BY <2>2
  <2>. DEFINE q == message("user", t[Len(t)].content)
              a == message("assistant", e.content)
  <2>3. Told(Append(t, e)) = Told(t) \o <<q, a>>
    <3>1. Told(Append(t, e)) = Retold(Append(t, e), Len(t) + 1, Told(t))
      BY ToldAppend
    <3>. QED  BY <1>1, <1>4, <2>a, <3>1, Zenon DEF Retold
  <2>4. q \in Message /\ a \in Message /\ q.role = "user" /\ a.role = "assistant"
    BY <2>a DEF Entry, message, Message, Role
  <2>5. Told(t) \o <<q, a>> \in Seq(Message) /\ Paired(Told(t) \o <<q, a>>)
    <3>. HIDE DEF q, a
    <3>1. <<q, a>> \in Seq(Message)
      BY <2>4
    <3>. DEFINE u == Told(t) \o <<q, a>>
    <3>2. u \in Seq(Message) /\ Len(u) = Len(Told(t)) + 2 /\ Len(Told(t)) \in Nat
      BY <3>1
    <3>3. \A i \in 1..Len(Told(t)) : u[i] = Told(t)[i]
      BY <3>1
    <3>4. u[Len(Told(t)) + 1] = q /\ u[Len(Told(t)) + 2] = a
      BY <3>1
    <3>. HIDE DEF u
    <3>5. ASSUME NEW i \in 1..Len(u)
          PROVE  u[i].role = IF i % 2 = 1 THEN "user" ELSE "assistant"
      <4>1. CASE i \in 1..Len(Told(t))
        BY <3>3, <4>1 DEF Paired
      <4>2. CASE i = Len(Told(t)) + 1
        <5>1. i % 2 = 1 /\ u[i] = q
          BY <3>2, <3>4, <4>2 DEF Paired
        <5>. QED  BY <2>4, <5>1
      <4>3. CASE i = Len(Told(t)) + 2
        <5>1. i % 2 # 1 /\ u[i] = a
          BY <3>2, <3>4, <4>3 DEF Paired
        <5>. QED  BY <2>4, <5>1
      <4>. QED  BY <3>2, <4>1, <4>2, <4>3
    <3>6. Len(u) % 2 = 0
      BY <3>2 DEF Paired
    <3>7. u \in Seq(Message) /\ Paired(u)
      BY <3>2, <3>5, <3>6 DEF Paired
    <3>. QED  BY <3>7 DEF u
  <2>. QED  BY <1>4, <2>3, <2>5, Zenon
<1>. QED  BY <1>2, <1>3, <1>4 DEF Entry

\* An unfinished answer tells nothing.
LEMMA ToldUnfinished ==
    ASSUME NEW t \in Seq(Entry), NEW content \in Text,
           Append(t, Answer(content, FALSE))[1].kind # "assistant"
    PROVE  Told(Append(t, Answer(content, FALSE))) = Told(t)
<1>. DEFINE e == Answer(content, FALSE)
<1>1. e \in Entry /\ e.kind = "assistant" /\ ~e.whole
  BY EntryTypes
<1>. HIDE DEF e
<1>2. Append(t, e)[Len(t) + 1] = e
  BY <1>1
<1>3. Told(Append(t, e)) = Retold(Append(t, e), Len(t) + 1, Told(t))
  BY <1>1, ToldAppend DEF e
<1>. QED  BY <1>1, <1>2, <1>3 DEF Retold, e

LEMMA Alternation ==
    ASSUME ConvInv PROVE HistoryAlternates
<1>. DEFINE first == IF history # <<>> /\ history[1].role = "system" THEN 2 ELSE 1
<1>. USE DEF InTurn
<1>b. /\ Base \in Seq(Message) /\ Len(Base) \in 0..1
      /\ \A i \in 1..Len(Base) : Base[i].role = "system"
  BY BaseType DEF ConvInv, TypeOK, SystemMessage
\* The system message is in front, and only there.
<1>1. ASSUME NEW c \in Seq(Message), Paired(c),
             NEW q \in Message, q.role = "user", NEW asked \in BOOLEAN,
             history = IF asked THEN Append(Base \o c, q) ELSE Base \o c,
             pc # "exited" => (InTurn <=> asked)
      PROVE  HistoryAlternates
  <2>. DEFINE b == Len(Base)
  <2>1. /\ history \in Seq(Message) /\ Len(c) \in Nat /\ b \in 0..1
        /\ Len(history) = b + Len(c) + IF asked THEN 1 ELSE 0
    BY <1>b, <1>1
  <2>2. \A i \in 1..b : history[i].role = "system"
    BY <1>b, <1>1
  <2>3. \A i \in 1..Len(c) : history[b + i] = c[i]
    BY <1>b, <1>1
  <2>4. asked => history[b + Len(c) + 1] = q
    BY <1>b, <1>1
  <2>5. first = b + 1
    <3>1. CASE b = 1
      BY <2>1, <2>2, <3>1
    <3>2. CASE b = 0 /\ Len(c) # 0
      <4>1. history[1] = c[1] /\ c[1].role = "user"
        BY <1>1, <2>1, <2>3, <3>2 DEF Paired
      <4>. QED  BY <3>2, <4>1
    <3>3. CASE b = 0 /\ Len(c) = 0
      BY <1>1, <2>1, <2>4, <3>3
    <3>. QED  BY <2>1, <3>1, <3>2, <3>3
  <2>. HIDE DEF b, first
  <2>6. ASSUME NEW i \in first..Len(history)
        PROVE  history[i].role = IF (i - first) % 2 = 0 THEN "user" ELSE "assistant"
    <3>1. CASE i - b \in 1..Len(c)
      <4>1. history[i] = c[i - b]
        BY <2>1, <2>3, <3>1
      <4>2. c[i - b].role = IF (i - b) % 2 = 1 THEN "user" ELSE "assistant"
        BY <1>1, <3>1 DEF Paired
      <4>3. (i - b) % 2 = 1 <=> (i - first) % 2 = 0
        BY <2>1, <2>5
      <4>. QED  BY <4>1, <4>2, <4>3
    <3>2. CASE i - b \notin 1..Len(c)
      <4>1. asked /\ i = b + Len(c) + 1
        BY <2>1, <2>5, <3>2
      <4>2. (i - first) % 2 = 0
        BY <1>1, <2>1, <2>5, <4>1 DEF Paired
      <4>. QED  BY <1>1, <2>4, <4>1, <4>2
    <3>. QED  BY <3>1, <3>2
  <2>7. (Len(history) - first) % 2 = 0 <=> asked
    <3>1. Len(c) % 2 = 0
      BY <1>1 DEF Paired
    <3>2. CASE asked
      BY <2>1, <2>5, <3>1, <3>2
    <3>3. CASE ~asked
      BY <2>1, <2>5, <3>1, <3>3
    <3>. QED  BY <3>2, <3>3
  <2>. QED  BY <1>1, <2>6, <2>7 DEF HistoryAlternates, first
<1>u. ASSUME NEW t, t \in Seq(Entry), t # <<>>
      PROVE  message("user", t[Len(t)].content) \in Message
  <2>1. Len(t) \in 1..Len(t)
    BY <1>u
  <2>2. t[Len(t)] \in Entry
    BY <1>u, <2>1
  <2>. QED  BY <2>2, EntryTypes DEF Entry
<1>2. CASE pc \in {"turn", "blocking"}
  <2>1. transcript # <<>> /\ message("user", transcript[Len(transcript)].content) \in Message
    BY <1>2, <1>u DEF ConvInv, TypeOK, Asking
  <2>. QED  BY <1>1, <1>2, <2>1 DEF ConvInv, Asking, message
<1>3. CASE pc = "streaming"
  <2>1. PICK t \in Seq(Entry), content \in Text :
            transcript = Append(t, Answer(content, FALSE)) /\ Asking(t)
    BY <1>3 DEF ConvInv, Streaming
  <2>n. transcript # <<>>
    <3>. DEFINE e == Answer(content, FALSE)
    <3>1. e \in Entry
      BY EntryTypes
    <3>. HIDE DEF e
    <3>2. Len(Append(t, e)) = Len(t) + 1 /\ Len(t) \in Nat
      BY <3>1
    <3>3. Append(t, e) # <<>>
      BY <3>2
    <3>. QED  BY <2>1, <3>3 DEF e
  <2>. DEFINE q == message("user", t[Len(t)].content)
  <2>2. q \in Message /\ q.role = "user" /\ history = Append(Base \o Told(t), q)
    BY <1>u, <2>1 DEF Asking, message
  <2>3. Told(t) \in Seq(Message) /\ Paired(Told(t))
    BY <2>1, <2>n, ToldUnfinished DEF ConvInv
  <2>. HIDE DEF q
  <2>. QED  BY <1>1, <1>3, <2>2, <2>3
<1>4. CASE pc = "prompt"
  <2>1. PICK q \in Message : q.role = "user"
    <3>1. <<>> \in Text
      BY DEF Text
    <3>. QED  BY <3>1, EntryTypes DEF message
  <2>. QED  BY <1>1, <1>4, <2>1 DEF ConvInv
<1>5. CASE pc \in {"start", "exited"} /\ history = <<>>
  BY <1>5 DEF HistoryAlternates
<1>6. CASE pc = "exited" /\ history # <<>>
  <2>1. PICK q \in Message : q.role = "user"
    <3>1. <<>> \in Text
      BY DEF Text
    <3>. QED  BY <3>1, EntryTypes DEF message
  <2>2. PICK c \in Seq(Message) : Paired(c) /\ history = Base \o c
    BY <1>6 DEF ConvInv
  <2>. QED  BY <1>1, <1>6, <2>1, <2>2
<1>. QED  BY <1>2, <1>3, <1>4, <1>5, <1>6 DEF ConvInv, TypeOK

LEMMA ConvInit == ASSUME Init PROVE ConvInv
<1>1. <<>> \in Seq(Message) /\ <<>> \in Seq(Entry) /\ <<>> \in Text /\ Paired(<<>>)
  BY DEF Text, Paired
<1>2. TypeOK
  BY <1>1, BoundsAssumption DEF Init, TypeOK
<1>3. Told(transcript) = <<>>
  BY ToldEmpty DEF Init
<1>4. Told(transcript) \in Seq(Message) /\ Paired(Told(transcript))
  BY <1>1, <1>3, Zenon
<1>. QED  BY <1>2, <1>4 DEF Init, ConvInv

\* What a history with a question can be rolled back to.
LEMMA Rollback ==
    ASSUME NEW S, NEW said \in Seq(S), NEW q \in S
    PROVE  SubSeq(Append(said, q), 1, Len(said)) = said
OBVIOUS

\* The history after a question and its answer.
LEMMA Exchange ==
    ASSUME NEW b \in Seq(Message), NEW c \in Seq(Message), NEW q \in Message, NEW a \in Message
    PROVE  Append(Append(b \o c, q), a) = b \o (c \o <<q, a>>)
<1>1. <<q, a>> \in Seq(Message)
  OBVIOUS
<1>2. c \o <<q, a>> \in Seq(Message) /\ Len(c \o <<q, a>>) = Len(c) + 2
  BY <1>1
<1>. DEFINE l == Append(Append(b \o c, q), a)
            r == b \o (c \o <<q, a>>)
<1>3. l \in Seq(Message) /\ Len(l) = Len(b) + Len(c) + 2
  OBVIOUS
<1>4. r \in Seq(Message) /\ Len(r) = Len(b) + Len(c) + 2
  BY <1>2
<1>5. ASSUME NEW i \in 1..Len(l) PROVE l[i] = r[i]
  <2>1. Len(b) \in Nat /\ Len(c) \in Nat
    OBVIOUS
  <2>2. CASE i \in 1..Len(b)
    BY <1>2, <2>2
  <2>3. CASE i \in (Len(b) + 1)..(Len(b) + Len(c))
    <3>1. l[i] = c[i - Len(b)]
      BY <2>3
    <3>2. r[i] = (c \o <<q, a>>)[i - Len(b)]
      BY <1>2, <2>3
    <3>3. (c \o <<q, a>>)[i - Len(b)] = c[i - Len(b)]
      BY <1>1, <2>3
    <3>. QED  BY <3>1, <3>2, <3>3
  <2>4. CASE i = Len(b) + Len(c) + 1
    <3>1. l[i] = q
      BY <2>4
    <3>2. r[i] = (c \o <<q, a>>)[Len(c) + 1]
      BY <1>2, <2>1, <2>4
    <3>3. (c \o <<q, a>>)[Len(c) + 1] = q
      BY <1>1
    <3>. QED  BY <3>1, <3>2, <3>3
  <2>5. CASE i = Len(b) + Len(c) + 2
    <3>1. l[i] = a
      BY <2>5
    <3>2. r[i] = (c \o <<q, a>>)[Len(c) + 2]
      BY <1>2, <2>1, <2>5
    <3>3. (c \o <<q, a>>)[Len(c) + 2] = a
      BY <1>1
    <3>. QED  BY <3>1, <3>2, <3>3
  <2>. QED  BY <1>3, <2>1, <2>2, <2>3, <2>4, <2>5
<1>. HIDE DEF l, r
<1>6. l = r
  BY <1>3, <1>4, <1>5, SeqEqual
<1>. QED  BY <1>6 DEF l, r

\* A turn that is over has its answer remembered as it is on the screen, or nothing.
LEMMA TurnOver ==
    ASSUME ConvInv, NEW t \in Seq(Entry), Asking(t), t[1].kind # "assistant",
           Told(t) \in Seq(Message), Paired(Told(t)),
           NEW result \in {"ok", "turn", "fatal"}, NEW content \in Text, NEW shown,
           \/ result # "ok" /\ shown = t
           \/ \E c \in Text, whole \in BOOLEAN :
                 /\ shown = Append(t, Answer(c, whole))
                 /\ result = "ok" => whole /\ c = content
                 /\ result = "turn" => ~whole,
           EndTurn(result, content, shown),
           faults' \subseteq {"launch", "stdin", "stdout"}
    PROVE  ConvInv'
<1>b. Base \in Seq(Message) /\ Base' = Base /\ args' = args
  BY BaseType DEF ConvInv, TypeOK, EndTurn, Base
<1>. DEFINE q == message("user", t[Len(t)].content)
            a == message("assistant", content)
            said == Base \o Told(t)
<1>1. Len(t) \in 1..Len(t) /\ t[Len(t)] \in Entry
  BY DEF Asking
<1>2. q \in Message /\ a \in Message
  BY <1>1, EntryTypes DEF Entry
<1>3. said \in Seq(Message) /\ history = Append(said, q) /\ checkpoint = Len(said)
  BY <1>b DEF Asking
<1>4. rollback_turn(history) = said
  BY <1>2, <1>3, Rollback DEF rollback_turn
\* What is shown is told.
<1>5. /\ shown \in Seq(Entry) /\ shown # <<>> /\ shown[1].kind # "assistant"
      /\ Told(shown) \in Seq(Message) /\ Paired(Told(shown))
      /\ result = "turn" => Told(shown) = Told(t)
      /\ result = "ok" => Told(shown) = Told(t) \o <<q, a>>
  <2>1. CASE result # "ok" /\ shown = t
    BY <1>1, <2>1
  <2>2. CASE \E c \in Text, whole \in BOOLEAN :
                 /\ shown = Append(t, Answer(c, whole))
                 /\ result = "ok" => whole /\ c = content
                 /\ result = "turn" => ~whole
    <3>1. PICK c \in Text, whole \in BOOLEAN :
                 /\ shown = Append(t, Answer(c, whole))
                 /\ result = "ok" => whole /\ c = content
                 /\ result = "turn" => ~whole
      BY <2>2
    <3>. DEFINE e == Answer(c, whole)
    <3>2. /\ e \in Entry /\ e.kind = "assistant" /\ e.content = c /\ e.whole = whole
      BY EntryTypes
    <3>. HIDE DEF e
    <3>3. Append(t, e) \in Seq(Entry) /\ Append(t, e) # <<>> /\ Append(t, e)[1] = t[1]
      BY <1>1, <3>2
    <3>4. /\ Told(Append(t, e)) \in Seq(Message) /\ Paired(Told(Append(t, e)))
          /\ ~whole => Told(Append(t, e)) = Told(t)
          /\ whole => Told(Append(t, e)) = Told(t) \o <<q, message("assistant", c)>>
      BY <3>2, <3>3, ToldMore
    <3>. QED  BY <3>1, <3>3, <3>4 DEF e
  <2>. QED  BY <2>1, <2>2
\* An error is reported on the screen, which tells nothing.
<1>6. ASSUME result = "turn"
      PROVE  /\ Append(shown, Notice("error")) \in Seq(Entry)
             /\ Append(shown, Notice("error"))[1].kind # "assistant"
             /\ Told(Append(shown, Notice("error"))) = Told(shown)
  <2>1. Notice("error") \in Entry /\ Notice("error").kind = "error"
    BY EntryTypes
  <2>2. Append(shown, Notice("error")) \in Seq(Entry)
    BY <1>5, <2>1
  <2>3. Append(shown, Notice("error"))[1] = shown[1]
    BY <1>5, <2>1
  <2>. QED  BY <1>5, <2>1, <2>2, <2>3, ToldMore
<1>. HIDE DEF q, a, said
<1>7. /\ transcript' \in Seq(Entry) /\ transcript'[1].kind # "assistant"
      /\ Told(transcript') = Told(shown)
  <2>1. CASE result = "turn"
    BY <1>6, <2>1 DEF EndTurn, is_reported
  <2>2. CASE result # "turn"
    BY <1>5, <2>2 DEF EndTurn, is_reported
  <2>. QED  BY <2>1, <2>2
<1>8. history' = IF result = "ok" THEN Append(history, a) ELSE said
  BY <1>4 DEF EndTurn, a
<1>9. result = "ok" => history' = Base \o Told(shown)
  <2>1. Append(Append(Base \o Told(t), q), a) = Base \o (Told(t) \o <<q, a>>)
    BY <1>b, <1>2, Exchange
  <2>. QED  BY <1>3, <1>5, <1>8, <2>1, Zenon DEF said
<1>10. result = "turn" => history' = Base \o Told(shown)
  BY <1>5, <1>8 DEF said
<1>11. history' \in Seq(Message)
  BY <1>2, <1>3, <1>8
<1>12. <<>> \in Seq(Message) /\ <<>> \in Text
  BY DEF Text
<1>13. TypeOK'
  BY <1>7, <1>11, <1>12 DEF ConvInv, TypeOK, EndTurn, is_reported, Exit, boundVars
<1>14. /\ pc' \in {"prompt", "exited"} /\ failure' = "none" /\ assistant' = <<>>
       /\ pc' = "exited" => result = "fatal" /\ history' = said
  BY <1>8 DEF EndTurn, is_reported, Exit
<1>15. pc' = "prompt" => history' = Base \o Told(shown)
  BY <1>9, <1>10 DEF EndTurn, is_reported, Exit
<1>. QED
  BY <1>b, <1>5, <1>7, <1>13, <1>14, <1>15 DEF ConvInv, said, Base

LEMMA ConvStep == ConvInv /\ [Next]_vars => ConvInv'
<1>. SUFFICES ASSUME ConvInv, [Next]_vars PROVE ConvInv'
  OBVIOUS
<1>t. /\ transcript \in Seq(Entry) /\ Len(transcript) \in Nat
      /\ Told(transcript) \in Seq(Message) /\ Paired(Told(transcript))
      /\ transcript # <<>> => transcript[1].kind # "assistant"
  BY DEF ConvInv, TypeOK
<1>b. /\ Base \in Seq(Message) /\ Len(Base) \in 0..1
      /\ \A i \in 1..Len(Base) : Base[i] \in SystemMessage
  BY BaseType DEF ConvInv, TypeOK
<1>e. <<>> \in Seq(Message) /\ <<>> \in Seq(Entry) /\ <<>> \in Text /\ Paired(<<>>)
  BY DEF Text, Paired
<1>v. args' = args => Base' = Base
  BY DEF Base
\* A program that ends where it waits for input, or before, leaves the history as it is.
<1>q. ASSUME pc \in {"start", "prompt"}, pc' = "exited", status' \in {"success", "failure"},
             faults' \subseteq {"launch", "stdin", "stdout"},
             UNCHANGED <<args, history, turnVars, transcript, boundVars>>
      PROVE  ConvInv'
  <2>1. TypeOK'
    BY <1>q DEF ConvInv, TypeOK, turnVars, boundVars
  <2>2. history = <<>> \/ history = Base \o Told(transcript)
    BY <1>q DEF ConvInv
  <2>. QED  BY <1>q, <1>t, <1>v, <2>1, <2>2 DEF ConvInv, turnVars
<1>1. ASSUME PromptFileFails \/ LoadFails \/ PromptFails \/ ReadFails PROVE ConvInv'
  BY <1>1, <1>q DEF PromptFileFails, LoadFails, PromptFails, ReadFails, Fatal, Exit, ConvInv, TypeOK
<1>2. ASSUME NEW written \in BOOLEAN, Leave(written) PROVE ConvInv'
  BY <1>2, <1>q DEF Leave, Fatal, Exit, ConvInv, TypeOK
\* A message makes a turn.
<1>m. ASSUME NEW text \in Texts, NEW c \in Seq(Message), NEW t \in Seq(Entry),
             c = Base \o Told(t), Told(t) \in Seq(Message), Paired(Told(t)),
             t # <<>> => t[1].kind # "assistant",
             StartTurn(text, c), transcript' = Append(t, Said(text)),
             inputs' \in 0..MaxInputs, failure = "none", assistant = <<>>,
             UNCHANGED <<args, request, assistant, failure, status, faults, events>>
      PROVE  ConvInv'
  <2>. DEFINE u == Append(t, Said(text))
  <2>1. Said(text) \in Entry /\ Said(text).kind = "user" /\ Said(text).content = <<text>>
        /\ message("user", <<text>>) \in Message
    BY EntryTypes
  <2>2. u \in Seq(Entry) /\ u # <<>> /\ u[Len(u)] = Said(text) /\ u[1].kind # "assistant"
    <3>1. Len(t) \in Nat /\ Len(u) = Len(t) + 1 /\ u \in Seq(Entry) /\ u[Len(t) + 1] = Said(text)
      BY <2>1
    <3>2. t # <<>> => u[1] = t[1]
      BY <2>1
    <3>3. t = <<>> => u[1] = Said(text)
      BY <3>1
    <3>. QED  BY <1>m, <2>1, <3>1, <3>2, <3>3
  <2>3. Told(u) = Told(t)
    BY <1>m, <2>1, <2>2, ToldMore
  <2>. HIDE DEF u
  <2>4. transcript' = u
    BY <1>m DEF u
  <2>5. /\ checkpoint' = Len(Base \o Told(u))
        /\ history' = Append(Base \o Told(u), message("user", u[Len(u)].content))
        /\ pc' = "turn"
    BY <1>m, <2>1, <2>2, <2>3 DEF StartTurn
  <2>6. Asking(transcript)'
    BY <1>m, <1>v, <2>1, <2>2, <2>4, <2>5 DEF Asking
  <2>7. history' \in Seq(Message) /\ checkpoint' \in Nat
    BY <1>m, <2>1 DEF StartTurn
  <2>8. TypeOK'
    BY <1>m, <2>2, <2>4, <2>5, <2>7 DEF ConvInv, TypeOK
  <2>. QED  BY <1>m, <2>2, <2>3, <2>4, <2>5, <2>6, <2>8 DEF ConvInv
<1>3. ASSUME NEW written \in BOOLEAN, Launch(written) PROVE ConvInv'
  <2>1. CASE ~written
    BY <1>3, <1>q, <2>1 DEF Launch, Fatal, Exit, ConvInv, TypeOK, turnVars, boundVars
  <2>2. CASE written /\ args.prompt = None
    <3>1. transcript = <<>> /\ Told(transcript) = <<>>
      BY <1>3, ToldEmpty DEF Launch, ConvInv
    <3>2. history' = Base /\ Base = Base \o Told(transcript)
      BY <1>3, <1>b, <2>2, <3>1 DEF Launch, Base
    <3>3. TypeOK'
      BY <1>3, <1>b, <2>2, <3>2 DEF Launch, ConvInv, TypeOK, boundVars
    <3>. QED  BY <1>3, <1>v, <2>2, <3>1, <3>2, <3>3 DEF Launch, ConvInv, boundVars
  <2>3. CASE written /\ args.prompt # None
    <3>1. args.prompt \in Texts
      BY <2>3 DEF ConvInv, TypeOK
    <3>2. Told(<<>>) = <<>> /\ <<Said(args.prompt)>> = Append(<<>>, Said(args.prompt))
      BY ToldEmpty
    <3>3. Base = Base \o Told(<<>>)
      BY <1>b, <3>2
    <3>4. Told(<<>>) \in Seq(Message) /\ Paired(Told(<<>>))
      BY <1>e, <3>2, Zenon
    <3>5. StartTurn(args.prompt, Base) /\ transcript' = Append(<<>>, Said(args.prompt))
      BY <1>3, <2>3, <3>2 DEF Launch, Base
    <3>. QED
      BY <1>3, <1>b, <1>e, <1>m, <2>3, <3>1, <3>3, <3>4, <3>5
         DEF Launch, ConvInv, TypeOK, boundVars
  <2>. QED  BY <2>1, <2>2, <2>3
<1>4. ASSUME NEW text \in Texts, Read(text) PROVE ConvInv'
  <2>1. pc = "prompt" /\ history = Base \o Told(transcript)
    BY <1>4 DEF Read, ConvInv
  <2>2. inputs' \in 0..MaxInputs
    BY <1>4, BoundsAssumption DEF Read, ConvInv, TypeOK
  <2>3. history \in Seq(Message)
    BY DEF ConvInv, TypeOK
  <2>. QED  BY <1>4, <1>m, <1>t, <2>1, <2>2, <2>3 DEF Read, ConvInv
\* /clear keeps the system message, which is in front of all others.
<1>5. ASSUME NEW written \in BOOLEAN, Clear(written) PROVE ConvInv'
  <2>1. pc = "prompt" /\ history = Base \o Told(transcript) /\ history \in Seq(Message)
    BY <1>5 DEF Clear, ConvInv, TypeOK
  <2>2. Len(Base) \in 0..Len(history) /\ \A i \in 1..Len(Base) : history[i] \in SystemMessage
    BY <1>b, <1>t, <2>1
  <2>3. ASSUME NEW i \in (Len(Base) + 1)..Len(history) PROVE history[i] \notin SystemMessage
    <3>1. i - Len(Base) \in 1..Len(Told(transcript))
          /\ history[i] = Told(transcript)[i - Len(Base)]
      BY <1>b, <1>t, <2>1
    <3>2. Told(transcript)[i - Len(Base)].role \in {"user", "assistant"}
      BY <1>t, <3>1 DEF Paired
    <3>. QED  BY <3>1, <3>2 DEF SystemMessage
  <2>4. Filter(history, SystemMessage) = SubSeq(history, 1, Len(Base))
    BY <2>1, <2>2, <2>3, FilterFront
  <2>5. SubSeq(history, 1, Len(Base)) = Base
    BY <1>b, <1>t, <2>1
  <2>6. history' = Base
    BY <1>5, <2>4, <2>5 DEF Clear, retained
  <2>. DEFINE u == Append(transcript, Notice("cleared"))
  <2>7. Notice("cleared") \in Entry /\ Notice("cleared").kind = "cleared"
    BY EntryTypes
  <2>8. u \in Seq(Entry) /\ u[1].kind # "assistant"
    <3>1. transcript # <<>> => u[1] = transcript[1]
      BY <1>t, <2>7
    <3>2. transcript = <<>> => u[1] = Notice("cleared")
      BY <1>t, <2>7
    <3>. QED  BY <1>t, <2>7, <3>1, <3>2
  <2>9. Told(u) = <<>>
    BY <1>t, <2>7, <2>8, ToldMore
  <2>10. transcript' = u
    BY <1>5 DEF Clear
  <2>. HIDE DEF u
  <2>11. Base = Base \o Told(u) /\ Told(u) \in Seq(Message) /\ Paired(Told(u))
    <3>1. Told(u) \in Seq(Message) /\ Paired(Told(u))
      BY <1>e, <2>9, Zenon
    <3>. QED  BY <1>b, <2>9, <3>1
  <2>12. inputs' \in 0..MaxInputs
    BY <1>5, BoundsAssumption DEF Clear, ConvInv, TypeOK
  <2>13. TypeOK'
    BY <1>5, <1>b, <2>6, <2>8, <2>10, <2>12
       DEF Clear, Written, Exit, ConvInv, TypeOK, turnVars
  <2>. QED
    BY <1>5, <1>v, <2>1, <2>6, <2>8, <2>10, <2>11, <2>13
       DEF Clear, Exit, ConvInv, turnVars
<1>a. ASSUME Asking(transcript) PROVE transcript[1].kind # "assistant" /\ transcript # <<>>
  BY <1>a, <1>t DEF Asking
<1>6. ASSUME BuildFails \/ BlockingFails PROVE ConvInv'
  <2>1. Asking(transcript) /\ EndTurn("turn", <<>>, transcript) /\ faults' = faults
    BY <1>6 DEF BuildFails, BlockingFails, ConvInv
  <2>2. faults' \subseteq {"launch", "stdin", "stdout"}
    BY <2>1 DEF ConvInv, TypeOK
  <2>. QED  BY <1>a, <1>e, <1>t, <2>1, <2>2, TurnOver
<1>7. ASSUME NEW written \in BOOLEAN, Ask(written) PROVE ConvInv'
  <2>1. Asking(transcript) /\ faults' \subseteq {"launch", "stdin", "stdout"} /\ pc = "turn"
    BY <1>7 DEF Ask, Written, ConvInv, TypeOK
  <2>2. CASE args.stream /\ ~written
    <3>1. EndTurn("fatal", <<>>, transcript)
      BY <1>7, <2>2 DEF Ask
    <3>. QED  BY <1>a, <1>e, <1>t, <2>1, <3>1, TurnOver
  <2>3. CASE args.stream /\ written
    <3>. DEFINE e == Answer(<<>>, FALSE)
                u == Append(transcript, e)
    <3>1. e \in Entry
      BY <1>e, EntryTypes
    <3>2. u \in Seq(Entry) /\ u[1].kind # "assistant"
      <4>. HIDE DEF e
      <4>1. transcript # <<>> /\ transcript[1].kind # "assistant"
        BY <1>a, <2>1
      <4>2. u \in Seq(Entry) /\ u[1] = transcript[1]
        BY <1>t, <3>1, <4>1
      <4>. QED  BY <4>1, <4>2
    <3>3. Told(u) = Told(transcript)
      BY <1>e, <1>t, <3>2, ToldUnfinished
    <3>4. /\ transcript' = u /\ pc' = "streaming" /\ request' = history /\ events' = 0
          /\ UNCHANGED <<args, history, checkpoint, assistant, failure, status, inputs>>
      BY <1>7, <2>3 DEF Ask, build_request
    <3>. HIDE DEF u
    <3>5. TypeOK'
      BY <2>1, <3>2, <3>4, BoundsAssumption DEF ConvInv, TypeOK
    <3>6. Asking(transcript) => /\ transcript # <<>> /\ transcript[Len(transcript)].kind = "user"
                                /\ checkpoint' = Len(Base' \o Told(transcript))
                                /\ history' = Append(Base' \o Told(transcript),
                                        message("user", transcript[Len(transcript)].content))
      BY <1>v, <3>4 DEF Asking
    <3>7. Streaming'
      <4>1. /\ transcript' = Append(transcript, Answer(<<>>, FALSE))
            /\ failure' = "none" => <<>> = assistant'
        BY <2>1, <3>4 DEF u, ConvInv
      <4>. QED  BY <1>e, <1>t, <2>1, <3>6, <4>1 DEF Streaming, Asking
    <3>8. /\ Told(transcript') \in Seq(Message) /\ Paired(Told(transcript'))
          /\ transcript'[1].kind # "assistant"
      BY <1>t, <3>2, <3>3, <3>4
    <3>. QED  BY <3>4, <3>5, <3>7, <3>8 DEF ConvInv
  <2>4. CASE ~args.stream
    <3>1. /\ pc' = "blocking" /\ request' = history /\ events' = 0
          /\ UNCHANGED <<args, history, checkpoint, assistant, failure, status, inputs, transcript>>
      BY <1>7, <2>4 DEF Ask, build_request
    <3>2. TypeOK'
      BY <2>1, <3>1, BoundsAssumption DEF ConvInv, TypeOK
    <3>3. Asking(transcript)'
      BY <1>v, <2>1, <3>1 DEF Asking
    <3>. QED  BY <1>t, <2>1, <3>1, <3>2, <3>3 DEF ConvInv
  <2>. QED  BY <2>2, <2>3, <2>4
\* While an answer is streamed: what is on the screen before it, and how it is replaced.
<1>s. ASSUME pc = "streaming"
      PROVE  \E t \in Seq(Entry), content \in Text :
                 /\ transcript = Append(t, Answer(content, FALSE))
                 /\ Asking(t) /\ t[1].kind # "assistant"
                 /\ Told(t) = Told(transcript)
                 /\ failure = "none" => content = assistant
                 /\ transcript[Len(transcript)].content = content
                 /\ \A c \in Text, whole \in BOOLEAN :
                        Shown(c, whole) = Append(t, Answer(c, whole))
  <2>1. PICK t \in Seq(Entry), content \in Text :
            /\ transcript = Append(t, Answer(content, FALSE))
            /\ Asking(t)
            /\ failure = "none" => content = assistant
    BY <1>s DEF ConvInv, Streaming
  <2>. DEFINE e == Answer(content, FALSE)
  <2>2. e \in Entry /\ e.content = content
    BY EntryTypes
  <2>. HIDE DEF e
  <2>3. /\ t # <<>> /\ Len(t) \in Nat /\ Len(transcript) = Len(t) + 1
        /\ transcript[Len(t) + 1] = e /\ transcript[1] = t[1] /\ transcript # <<>>
    <3>1. t # <<>> /\ transcript = Append(t, e)
      BY <2>1 DEF Asking, e
    <3>. QED  BY <2>2, <3>1
  <2>4. Told(t) = Told(transcript)
    BY <1>t, <2>1, <2>3, ToldUnfinished
  <2>5. ASSUME NEW c \in Text, NEW whole \in BOOLEAN
        PROVE  Shown(c, whole) = Append(t, Answer(c, whole))
    <3>. DEFINE a == Answer(c, whole)
    <3>a. a \in Entry
      BY EntryTypes
    <3>1. Shown(c, whole) = [transcript EXCEPT ![Len(t) + 1] = a]
      BY <2>3 DEF Shown
    <3>. HIDE DEF a
    <3>. DEFINE l == [Append(t, e) EXCEPT ![Len(t) + 1] = a]
                r == Append(t, a)
    <3>2. l = r
      <4>1. l \in Seq(Entry) /\ Len(l) = Len(t) + 1 /\ r \in Seq(Entry) /\ Len(r) = Len(t) + 1
        BY <2>2, <3>a
      <4>2. ASSUME NEW i \in 1..(Len(t) + 1) PROVE l[i] = r[i]
        <5>1. CASE i = Len(t) + 1
          BY <2>2, <3>a, <5>1
        <5>2. CASE i \in 1..Len(t)
          <6>1. i # Len(t) + 1 /\ Append(t, e)[i] = t[i] /\ Append(t, a)[i] = t[i]
            BY <2>2, <2>3, <3>a, <5>2
          <6>2. i \in DOMAIN Append(t, e)
            BY <2>2
          <6>. QED  BY <6>1, <6>2
        <5>. QED  BY <2>3, <5>1, <5>2
      <4>. HIDE DEF l, r
      <4>. QED  BY <4>1, <4>2, SeqEqual
    <3>. QED  BY <2>1, <3>1, <3>2 DEF e, a
  <2>. QED  BY <1>t, <2>1, <2>2, <2>3, <2>4, <2>5
<1>8. ASSUME NEW chunk \in Chunks, NEW written \in BOOLEAN, StreamEvent(chunk, written)
      PROVE  ConvInv'
  <2>1. pc = "streaming" /\ failure = "none"
    BY <1>8 DEF StreamEvent
  <2>2. PICK t \in Seq(Entry), content \in Text :
                 /\ transcript = Append(t, Answer(content, FALSE))
                 /\ Asking(t) /\ t[1].kind # "assistant"
                 /\ Told(t) = Told(transcript)
                 /\ content = assistant
                 /\ \A c \in Text, whole \in BOOLEAN :
                        Shown(c, whole) = Append(t, Answer(c, whole))
    BY <1>s, <2>1
  <2>3. /\ UNCHANGED <<args, pc, history, checkpoint, request, status, inputs>>
        /\ events' \in 0..MaxEvents
    BY <1>8, BoundsAssumption DEF StreamEvent, ConvInv, TypeOK
  <2>4. Asking(t)'
    BY <1>v, <2>2, <2>3 DEF Asking
  <2>5. \E c \in Text :
            /\ transcript' = Append(t, Answer(c, FALSE))
            /\ failure' = "none" => c = assistant'
            /\ assistant' \in Text /\ failure' \in {"none", "turn", "fatal"}
            /\ faults' \subseteq {"launch", "stdin", "stdout"}
    <3>1. CASE is_valid_chunk(chunk)
      <4>. DEFINE more == assistant \o extract_stream_content(chunk)
      <4>1. chunk \in Seq(Content) /\ assistant \in Seq(Texts \cup Pieces)
        BY EngineAssumption DEF ConvInv, TypeOK, Text
      <4>2. extract_stream_content(chunk) \in Seq(Content \cap Pieces)
        BY <4>1, FilterType DEF extract_stream_content
      <4>3. extract_stream_content(chunk) \in Seq(Texts \cup Pieces)
        BY <4>2, SeqMonotonic
      <4>4. more \in Text
        BY <4>1, <4>3 DEF Text
      <4>. HIDE DEF more
      <4>5. /\ assistant' = more
            /\ transcript' = IF written THEN Shown(more, FALSE) ELSE transcript
            /\ failure' = IF written THEN "none" ELSE "fatal"
            /\ faults' = IF written THEN faults ELSE faults \cup {"stdout"}
        BY <1>8, <3>1 DEF StreamEvent, Written, more
      <4>6. faults' \subseteq {"launch", "stdin", "stdout"}
        BY <4>5 DEF ConvInv, TypeOK
      <4>7. CASE written
        BY <2>2, <4>4, <4>5, <4>6, <4>7
      <4>8. CASE ~written
        BY <2>2, <4>4, <4>5, <4>6, <4>8
      <4>. QED  BY <4>7, <4>8
    <3>2. CASE ~is_valid_chunk(chunk)
      <4>1. failure' = "turn" /\ UNCHANGED <<assistant, transcript, faults>>
        BY <1>8, <3>2 DEF StreamEvent
      <4>. QED  BY <2>2, <4>1 DEF ConvInv, TypeOK
    <3>. QED  BY <3>1, <3>2
  <2>6. PICK c \in Text :
            /\ transcript' = Append(t, Answer(c, FALSE))
            /\ failure' = "none" => c = assistant'
            /\ assistant' \in Text /\ failure' \in {"none", "turn", "fatal"}
            /\ faults' \subseteq {"launch", "stdin", "stdout"}
    BY <2>5
  <2>7. Streaming'
    BY <2>4, <2>6 DEF Streaming, Asking
  <2>8. /\ transcript' \in Seq(Entry) /\ transcript'[1].kind # "assistant"
    <3>. DEFINE e == Answer(c, FALSE)
    <3>1. e \in Entry /\ t # <<>>
      BY <2>2, EntryTypes DEF Asking
    <3>. HIDE DEF e
    <3>2. Append(t, e) \in Seq(Entry) /\ Append(t, e)[1] = t[1]
      BY <3>1
    <3>. QED  BY <2>2, <2>6, <3>2 DEF e
  <2>9. Told(transcript') = Told(transcript)
    <3>1. Append(t, Answer(c, FALSE))[1].kind # "assistant"
      BY <2>6, <2>8
    <3>. QED  BY <2>2, <2>6, <3>1, ToldUnfinished
  <2>10. TypeOK'
    BY <2>3, <2>6, <2>8 DEF ConvInv, TypeOK
  <2>. QED  BY <1>t, <2>1, <2>3, <2>7, <2>8, <2>9, <2>10 DEF ConvInv
<1>9. ASSUME NEW ok \in BOOLEAN, NEW stopped \in BOOLEAN, NEW written \in BOOLEAN,
             StreamEnd(ok, stopped, written)
      PROVE  ConvInv'
  <2>. DEFINE result == IF written THEN stream_result(ok, stopped) ELSE "fatal"
              whole == ok /\ ~stopped /\ failure = "none"
              shown == Shown(transcript[Len(transcript)].content, whole)
  <2>1. /\ pc = "streaming" /\ EndTurn(result, assistant, shown)
        /\ faults' \subseteq {"launch", "stdin", "stdout"}
    BY <1>9 DEF StreamEnd, Written, ConvInv, TypeOK
  <2>2. PICK t \in Seq(Entry), content \in Text :
                 /\ Asking(t) /\ t[1].kind # "assistant"
                 /\ Told(t) = Told(transcript)
                 /\ failure = "none" => content = assistant
                 /\ transcript[Len(transcript)].content = content
                 /\ \A c \in Text, w \in BOOLEAN : Shown(c, w) = Append(t, Answer(c, w))
    BY <1>s, <2>1
  <2>3. shown = Append(t, Answer(content, whole)) /\ whole \in BOOLEAN
    BY <2>2
  <2>4. result \in {"ok", "turn", "fatal"}
    BY DEF stream_result, ConvInv, TypeOK
  <2>5. (result = "ok" => whole /\ content = assistant) /\ (result = "turn" => ~whole)
    <3>1. CASE ~written \/ failure # "none"
      BY <3>1 DEF stream_result, ConvInv, TypeOK
    <3>2. CASE written /\ failure = "none"
      <4>1. CASE ok /\ ~stopped
        <5>1. result = "ok" /\ content = assistant
          BY <2>2, <3>2, <4>1 DEF stream_result
        <5>. QED  BY <3>2, <4>1, <5>1
      <4>2. CASE ~ok \/ stopped
        BY <3>2, <4>2 DEF stream_result
      <4>. QED  BY <4>1, <4>2
    <3>. QED  BY <3>1, <3>2
  <2>6. assistant \in Text
    BY DEF ConvInv, TypeOK
  <2>. HIDE DEF result, whole, shown
  <2>. QED  BY <1>t, <2>1, <2>2, <2>3, <2>4, <2>5, <2>6, TurnOver
<1>10. ASSUME NEW reply \in Replies, NEW written \in BOOLEAN, BlockingReply(reply, written)
       PROVE  ConvInv'
  <2>1. /\ Asking(transcript) /\ faults' \subseteq {"launch", "stdin", "stdout"}
    BY <1>10 DEF BlockingReply, Written, ConvInv, TypeOK
  <2>2. CASE ~is_valid_reply(reply)
    <3>1. EndTurn("turn", <<>>, transcript)
      BY <1>10, <2>2 DEF BlockingReply
    <3>. QED  BY <1>a, <1>e, <1>t, <2>1, <3>1, TurnOver
  <2>3. CASE is_valid_reply(reply)
    <3>. DEFINE content == extract_blocking_content(reply)
    <3>1. content \in Text
      <4>1. reply \in Seq(Content) /\ reply # <<>> /\ reply[1] # Bad
        BY <2>3, EngineAssumption DEF is_valid_reply
      <4>2. reply[1] \in Content
        BY <4>1
      <4>3. CASE reply[1] = None
        BY <1>e, <4>3 DEF extract_blocking_content, text_of
      <4>4. CASE reply[1] # None
        <5>1. reply[1] \in Texts \cup Pieces
          BY <4>1, <4>2, <4>4 DEF Content
        <5>2. <<reply[1]>> \in Text
          BY <5>1 DEF Text
        <5>. QED  BY <4>4, <5>2 DEF extract_blocking_content, text_of
      <4>. QED  BY <4>3, <4>4
    <3>2. EndTurn(IF written THEN "ok" ELSE "fatal", content,
                  IF written THEN Append(transcript, Answer(content, TRUE)) ELSE transcript)
      BY <1>10, <2>3 DEF BlockingReply
    <3>. HIDE DEF content
    <3>3. CASE written
      <4>1. EndTurn("ok", content, Append(transcript, Answer(content, TRUE)))
        BY <3>2, <3>3
      <4>. QED  BY <1>a, <1>t, <2>1, <3>1, <4>1, TurnOver
    <3>4. CASE ~written
      <4>1. EndTurn("fatal", content, transcript)
        BY <3>2, <3>4
      <4>. QED  BY <1>a, <1>t, <2>1, <3>1, <4>1, TurnOver
    <3>. QED  BY <3>3, <3>4
  <2>. QED  BY <2>2, <2>3
<1>11. CASE UNCHANGED vars
  <2>1. UNCHANGED <<args, pc, history, checkpoint, request, assistant, failure, transcript,
                    status, faults, inputs, events>>
    BY <1>11 DEF vars, turnVars, boundVars
  <2>2. TypeOK' /\ Base' = Base /\ (Asking(transcript) => Asking(transcript)')
    BY <2>1 DEF TypeOK, Base, Asking, ConvInv
  <2>3. Streaming => Streaming'
    BY <2>1, <2>2 DEF Streaming, Asking
  <2>. QED  BY <2>1, <2>2, <2>3 DEF ConvInv
<1>. QED
  BY <1>1, <1>2, <1>3, <1>4, <1>5, <1>6, <1>7, <1>8, <1>9, <1>10, <1>11
     DEF Next, Turn, Exited

LEMMA ToldAsAsked ==
    ASSUME ConvInv PROVE HistoryIsTranscript
<1>. DEFINE asked == IF pc = "streaming" THEN Len(transcript) - 1 ELSE Len(transcript)
<1>1. CASE pc \in {"prompt", "blocking"}
  BY <1>1 DEF ConvInv, Asking, HistoryIsTranscript, Base
<1>2. CASE pc = "streaming"
  <2>1. PICK t \in Seq(Entry), content \in Text :
            transcript = Append(t, Answer(content, FALSE)) /\ Asking(t)
    BY <1>2 DEF ConvInv, Streaming
  <2>. DEFINE e == Answer(content, FALSE)
  <2>2. e \in Entry
    BY EntryTypes
  <2>. HIDE DEF e
  <2>3. t # <<>> /\ transcript = Append(t, e)
    BY <2>1 DEF Asking, e
  <2>4. /\ Len(t) \in 1..Len(t) /\ Len(transcript) - 1 = Len(t)
        /\ transcript[Len(t)] = t[Len(t)] /\ transcript # <<>>
    <3>1. Len(t) \in 1..Len(t) /\ Len(Append(t, e)) = Len(t) + 1
      BY <2>2, <2>3
    <3>2. Append(t, e)[Len(t)] = t[Len(t)]
      BY <2>2, <3>1
    <3>. QED  BY <2>3, <3>1, <3>2
  <2>5. Told(transcript) = Told(t)
    BY <2>1, <2>4, ToldUnfinished DEF ConvInv
  <2>. QED  BY <1>2, <2>1, <2>4, <2>5 DEF ConvInv, Asking, HistoryIsTranscript, Base
<1>3. CASE pc \notin {"prompt", "streaming", "blocking"}
  BY <1>3 DEF HistoryIsTranscript
<1>. QED  BY <1>1, <1>2, <1>3

LEMMA ConvInvariant == Spec => []ConvInv
<1>1. Init => ConvInv
  BY ConvInit
<1>. QED  BY <1>1, ConvStep, PTL DEF Spec

\* The variables keep their types; a rollback never asks for more than there is.
THEOREM TypeCorrect == Spec => []TypeOK
<1>1. ConvInv => TypeOK
  BY DEF ConvInv
<1>. QED  BY <1>1, ConvInvariant, PTL

\* The engine never gets two messages of one side in a row, after any mix of failed, fatal
\* and cleared turns (chat.rs, run_history_turn, rollback_turn and Input::Clear).
THEOREM RolesAlternate == Spec => []HistoryAlternates
<1>1. ConvInv => HistoryAlternates
  BY Alternation
<1>. QED  BY <1>1, ConvInvariant, PTL

\* What the engine is told is what the user saw (chat.rs, stream_assistant and run_turn).
THEOREM HistoryFollowsScreen == Spec => []HistoryIsTranscript
<1>1. ConvInv => HistoryIsTranscript
  BY ToldAsAsked
<1>. QED  BY <1>1, ConvInvariant, PTL

-----------------------------------------------------------------------------
(* Failures of the surroundings                                              *)

\* A failure outside is on record before the program knows of it: from the callback's
\* error while the stream is still running, then from the exit.
FaultInv ==
    /\ FaultsEndTheProgram
    /\ failure = "fatal" => faults # {}
    /\ failure \in {"none", "turn", "fatal"}
    /\ failure # "none" => pc = "streaming"
    /\ status # "running" => pc = "exited"

\* A turn ends the program exactly if something outside has failed.
LEMMA TurnEnds ==
    ASSUME FaultInv, pc \in {"turn", "streaming", "blocking"},
           NEW result \in {"ok", "turn", "fatal"}, NEW content, NEW shown,
           EndTurn(result, content, shown), result = "fatal" <=> faults' # {}
    PROVE  FaultInv'
<1>1. CASE result = "fatal"
  BY <1>1 DEF EndTurn, is_reported, Exit, FaultInv, FaultsEndTheProgram
<1>2. CASE result # "fatal"
  <2>1. pc' = "prompt" /\ status' = status /\ faults' = {} /\ failure' = "none"
    BY <1>2 DEF EndTurn, is_reported
  <2>2. status = "running"
    BY DEF FaultInv
  <2>. QED  BY <2>1, <2>2 DEF FaultInv, FaultsEndTheProgram
<1>. QED  BY <1>1, <1>2

LEMMA FaultInit == Init => FaultInv
BY DEF Init, FaultInv, FaultsEndTheProgram

LEMMA FaultStep == FaultInv /\ [Next]_vars => FaultInv'
<1>. SUFFICES ASSUME FaultInv, [Next]_vars PROVE FaultInv'
  OBVIOUS
<1>n. pc \notin {"streaming", "exited"} => faults = {} /\ failure = "none" /\ status = "running"
  BY DEF FaultInv, FaultsEndTheProgram
<1>s. pc = "streaming" =>
          /\ faults # {} <=> failure = "fatal"
          /\ status = "running"
  BY DEF FaultInv, FaultsEndTheProgram
<1>1. ASSUME PromptFileFails \/ LoadFails \/ PromptFails \/ ReadFails PROVE FaultInv'
  BY <1>1, <1>n DEF PromptFileFails, LoadFails, PromptFails, ReadFails, Fatal, Exit, turnVars,
     FaultInv, FaultsEndTheProgram
<1>2. ASSUME NEW written \in BOOLEAN, Launch(written) PROVE FaultInv'
  <2>1. CASE written
    BY <1>2, <1>n, <2>1 DEF Launch, StartTurn, FaultInv, FaultsEndTheProgram
  <2>2. CASE ~written
    BY <1>2, <1>n, <2>2 DEF Launch, Fatal, Exit, FaultInv, FaultsEndTheProgram
  <2>. QED  BY <2>1, <2>2
<1>3. ASSUME NEW written \in BOOLEAN, Leave(written) PROVE FaultInv'
  BY <1>3, <1>n DEF Leave, Fatal, Exit, turnVars, FaultInv, FaultsEndTheProgram
<1>4. ASSUME NEW written \in BOOLEAN, Clear(written) PROVE FaultInv'
  BY <1>4, <1>n DEF Clear, Written, Exit, turnVars, FaultInv, FaultsEndTheProgram
<1>5. ASSUME NEW text \in Texts, Read(text) PROVE FaultInv'
  BY <1>5, <1>n DEF Read, StartTurn, FaultInv, FaultsEndTheProgram
<1>6. ASSUME BuildFails \/ BlockingFails PROVE FaultInv'
  BY <1>6, <1>n, TurnEnds DEF BuildFails, BlockingFails
<1>7. ASSUME NEW written \in BOOLEAN, Ask(written) PROVE FaultInv'
  <2>1. CASE args.stream /\ ~written
    BY <1>7, <1>n, <2>1, TurnEnds DEF Ask, Written
  <2>2. CASE ~(args.stream /\ ~written)
    BY <1>7, <1>n, <2>2 DEF Ask, Written, FaultInv, FaultsEndTheProgram
  <2>. QED  BY <2>1, <2>2
<1>8. ASSUME NEW chunk \in Chunks, NEW written \in BOOLEAN, StreamEvent(chunk, written)
      PROVE  FaultInv'
  <2>1. CASE is_valid_chunk(chunk)
    BY <1>8, <1>s, <2>1 DEF StreamEvent, Written, FaultInv, FaultsEndTheProgram
  <2>2. CASE ~is_valid_chunk(chunk)
    BY <1>8, <1>s, <2>2 DEF StreamEvent, FaultInv, FaultsEndTheProgram
  <2>. QED  BY <2>1, <2>2
<1>9. ASSUME NEW ok \in BOOLEAN, NEW stopped \in BOOLEAN, NEW written \in BOOLEAN,
             StreamEnd(ok, stopped, written)
      PROVE  FaultInv'
  <2>. DEFINE result == IF written THEN stream_result(ok, stopped) ELSE "fatal"
              shown == Shown(transcript[Len(transcript)].content,
                             ok /\ ~stopped /\ failure = "none")
  <2>1. /\ pc = "streaming" /\ EndTurn(result, assistant, shown)
        /\ faults' = IF written THEN faults ELSE faults \cup {"stdout"}
    BY <1>9 DEF StreamEnd, Written
  <2>2. /\ stream_result(ok, stopped) \in {"ok", "turn", "fatal"}
        /\ stream_result(ok, stopped) = "fatal" <=> failure = "fatal"
    BY DEF stream_result, FaultInv
  <2>3. result \in {"ok", "turn", "fatal"} /\ (result = "fatal" <=> faults' # {})
    BY <1>s, <2>1, <2>2
  <2>. HIDE DEF result, shown
  <2>. QED  BY <2>1, <2>3, TurnEnds
<1>10. ASSUME NEW reply \in Replies, NEW written \in BOOLEAN, BlockingReply(reply, written)
       PROVE  FaultInv'
  BY <1>10, <1>n, TurnEnds DEF BlockingReply, Written
<1>11. CASE UNCHANGED vars
  BY <1>11 DEF vars, turnVars, FaultInv, FaultsEndTheProgram
<1>. QED
  BY <1>1, <1>2, <1>3, <1>4, <1>5, <1>6, <1>7, <1>8, <1>9, <1>10, <1>11 DEF Next, Turn, Exited

\* The chat program exits with a failure exactly if its surroundings failed, and asks the
\* engine nothing more after a failed write (chat.rs, TurnError and the loop of run).
THEOREM FaultsAreFatal == Spec => []FaultsEndTheProgram
<1>1. FaultInv => FaultsEndTheProgram
  BY DEF FaultInv
<1>. QED  BY <1>1, FaultInit, FaultStep, PTL DEF Spec
=============================================================================
