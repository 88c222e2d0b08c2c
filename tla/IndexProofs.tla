---------------------------- MODULE IndexProofs -----------------------------
(***************************************************************************)
(* The policy index is whole, in the table and in every answer, for any    *)
(* number of retrievals and scripts that rebuild it at once, of policies   *)
(* and of embedding models.                                                *)
(***************************************************************************)
EXTENDS PolicyIndex, FiniteSetTheorems, TLAPS

\* A process that has not committed an index yet.
Early == {"none", "sync", "read_chunks", "index", "delete", "embed", "insert", "commit"}

\* One that has deleted.
Replacing == {"embed", "insert", "commit"}

\* Ids are not reused: nobody has met a chunk of a process yet to commit.
IdsInv(p) ==
  pc[p] \in Early => /\ \A c \in chunks : c.by # p
                     /\ \A q \in Procs : \A c \in snap[q] : c.by # p

\* S has all rows of x that there are, or none.
AtOnce(S, x) == Of(S \cap chunks, {x}) = {} \/ Of(chunks, {x}) \subseteq S

\* A DELETE finds and in the end takes all rows of a policy or, when another was
\* faster, none; no row is deleted by two.
RemoveInv(p) ==
  /\ pc[p] = "delete" => /\ \A c \in snap[p] : c.policy \in Mine(p)
                         /\ \A x \in Policies : AtOnce(snap[p], x)
                         /\ removed[p] \subseteq snap[p]
  /\ pc[p] \in Replacing => \A x \in Policies : AtOnce(removed[p], x)
  /\ pc[p] \notin {"delete"} \cup Replacing => removed[p] = {}
  /\ removed[p] \subseteq chunks /\ \A c \in removed[p] : c.policy \in Mine(p)
  /\ \A q \in Procs \ {p} : removed[p] \cap removed[q] = {}

\* What is inserted stays free of the keys of all others until it is committed.
AddInv(p) ==
  /\ pc[p] \notin {"insert", "commit"} => added[p] = {}
  /\ pc[p] = "commit" => added[p] = New(p)
  /\ added[p] \subseteq New(p)
  /\ ~Clash(added[p], chunks \ removed[p])
  /\ \A q \in Procs \ {p} : ~Clash(added[p], added[q] \cup removed[q])

\* A statement waits for a row that it is to delete or to insert.
AtInv(p) ==
  at[p] # Nil => \/ pc[p] = "delete" /\ at[p] \in snap[p]
                 \/ pc[p] = "insert" /\ at[p] \in New(p)

\* A process reads whole indices and answers with what it read; after its own
\* rebuild, where all have one model, it finds vectors of that model only.
SeenInv(p) ==
  /\ \A x \in Policies : Whole(seen[p], x)
  /\ evidence[p] # Nil => evidence[p] = seen[p] /\ pc[p] = "done"
  /\ (\A q, r \in Procs : model[q] = model[r]) =>
       /\ pc[p] = "read_again" => \A c \in Of(chunks, Mine(p)) : c.model = model[p]
       /\ pc[p] = "query" \/ evidence[p] # Nil => \A c \in seen[p] : c.model = model[p]

ProcInv(p) == IdsInv(p) /\ RemoveInv(p) /\ AddInv(p) /\ AtInv(p) /\ SeenInv(p)

XInv == TypeOK /\ IndexIsWhole /\ \A p \in Procs : ProcInv(p)

----------------------------------------------------------------------------
(* Chunks *)

\* What is made of a policy has its first chunk, and is whole.
LEMMA NewIs ==
  ASSUME TypeOK, NEW p \in Procs
  PROVE  /\ New(p) \in SUBSET Chunks
         /\ \A c \in New(p) : c.by = p /\ c.policy \in Mine(p) /\ c.model = model[p]
         /\ \A x \in Mine(p) : \E c \in New(p) : c.policy = x /\ c.index = 1
         /\ \A x \in Policies : Whole(New(p), x)
<1>. USE DEF New, ChunksOf, ChunkCount
<1>1. held[p] \in Texts /\ scope[p] \in SUBSET Policies /\ model[p] \in Models
  BY DEF TypeOK
<1>2. \A x \in Mine(p) : x \in Policies /\ held[p][x] \in 1..Latest
  BY <1>1 DEF Mine, Texts, Latest
<1>3. ASSUME NEW x \in Mine(p), NEW i \in 1..held[p][x]
      PROVE  [by |-> p, policy |-> x, index |-> i, text |-> held[p][x], model |-> model[p]]
               \in New(p)
  <2>1. i \in 1..Latest
    BY <1>2 DEF Latest
  <2>. QED  BY <1>1, <1>2, <1>3, <2>1 DEF Chunks
<1>4. \A x \in Mine(p) : \E c \in New(p) : c.policy = x /\ c.index = 1
  <2>. SUFFICES ASSUME NEW x \in Mine(p) PROVE \E c \in New(p) : c.policy = x /\ c.index = 1
    OBVIOUS
  <2>1. 1 \in 1..held[p][x]
    BY <1>2 DEF Latest
  <2>. DEFINE d == [by |-> p, policy |-> x, index |-> 1, text |-> held[p][x], model |-> model[p]]
  <2>2. d \in New(p) /\ d.policy = x /\ d.index = 1
    BY <1>3, <2>1
  <2>. QED  BY <2>2
<1>5. ASSUME NEW x \in Policies PROVE Whole(New(p), x)
  <2>1. ASSUME NEW c \in Of(New(p), {x})
        PROVE  {d.index : d \in Of(New(p), {x})} = 1..ChunkCount(c.text)
    <3>1. c.policy = x /\ x \in Mine(p) /\ c.text = held[p][x]
      BY <2>1 DEF Of
    <3>2. \A d \in Of(New(p), {x}) : d.index \in 1..held[p][x]
      BY <3>1 DEF Of, Chunks, Latest
    <3>3. ASSUME NEW i \in 1..held[p][x] PROVE \E d \in Of(New(p), {x}) : d.index = i
      <4>. DEFINE d == [by |-> p, policy |-> x, index |-> i, text |-> held[p][x],
                        model |-> model[p]]
      <4>1. d \in New(p) /\ d.policy = x /\ d.index = i
        BY <1>3, <3>1, <3>3
      <4>. QED  BY <4>1 DEF Of
    <3>4. {d.index : d \in Of(New(p), {x})} \subseteq 1..held[p][x]
      BY <3>2, Zenon
    <3>5. 1..held[p][x] \subseteq {d.index : d \in Of(New(p), {x})}
      BY <3>3, Zenon
    <3>. QED  BY <3>1, <3>4, <3>5
  <2>2. ASSUME NEW c \in Of(New(p), {x}), NEW d \in Of(New(p), {x})
        PROVE  d.by = c.by /\ d.text = c.text /\ d.model = c.model
    BY <2>2 DEF Of
  <2>. QED  BY <2>1, <2>2 DEF Whole
<1>. QED  BY <1>4, <1>5

\* A whole index has its first chunk.
LEMMA FirstIs ==
  ASSUME NEW S \in SUBSET Chunks, NEW x, Whole(S, x), NEW c \in S, c.policy = x
  PROVE  \E d \in S : d.policy = x /\ d.index = 1
<1>1. c \in Of(S, {x})
  BY DEF Of
<1>2. {d.index : d \in Of(S, {x})} = 1..c.text /\ c.text \in 1..Latest
  BY <1>1 DEF Whole, ChunkCount, Chunks
<1>3. 1 \in {d.index : d \in Of(S, {x})}
  <2>1. 1 \in 1..c.text
    BY <1>2 DEF Latest
  <2>. QED  BY <1>2, <2>1
<1>. QED  BY <1>3 DEF Of

\* A policy of which two sets have the same rows is as whole in both.
LEMMA WholeOf ==
  ASSUME NEW S, NEW T, NEW x, Of(S, {x}) = Of(T, {x}), Whole(S, x)
  PROVE  Whole(T, x)
BY DEF Whole

\* A policy without rows is whole.
LEMMA NoneIsWhole ==
  ASSUME NEW S, NEW x, Of(S, {x}) = {}
  PROVE  Whole(S, x)
BY DEF Whole

\* What is read of a whole table is whole.
LEMMA ReadIsWhole ==
  ASSUME NEW S, NEW ps, \A x \in Policies : Whole(S, x)
  PROVE  \A x \in Policies : Whole(Of(S, ps), x)
<1>. SUFFICES ASSUME NEW x \in Policies PROVE Whole(Of(S, ps), x)
  OBVIOUS
<1>1. CASE x \in ps
  <2>1. Of(S, {x}) = Of(Of(S, ps), {x})
    BY <1>1 DEF Of
  <2>. QED  BY <2>1, WholeOf
<1>2. CASE x \notin ps
  <2>1. Of(Of(S, ps), {x}) = {}
    BY <1>2 DEF Of
  <2>. QED  BY <2>1, NoneIsWhole
<1>. QED  BY <1>1, <1>2

----------------------------------------------------------------------------
(* Steps that leave the table alone *)

\* The state of a process.
Same(q) ==
  /\ kind'[q] = kind[q] /\ scope'[q] = scope[q] /\ pc'[q] = pc[q] /\ held'[q] = held[q]
  /\ seen'[q] = seen[q] /\ snap'[q] = snap[q] /\ removed'[q] = removed[q]
  /\ added'[q] = added[q] /\ at'[q] = at[q] /\ evidence'[q] = evidence[q]

\* Only p has gone on, and nobody's model changes.
OwnStep(p) == model' = model /\ \A q \in Procs : q # p => Same(q)

\* What is known of another process stays known, as long as what p has found,
\* deleted and inserted does not touch what that one holds.
LEMMA OthersKept ==
  ASSUME XInv, NEW p \in Procs, OwnStep(p), chunks' = chunks,
         \A c \in snap'[p] : c \in snap[p] \/ c \in chunks,
         NEW q \in Procs, q # p, removed'[p] \cap removed[q] = {},
         ~Clash(added[q], added'[p] \cup removed'[p])
  PROVE  ProcInv(q)'
<1>1. Same(q) /\ model' = model /\ Mine(q)' = Mine(q) /\ New(q)' = New(q)
  BY DEF OwnStep, Same, Mine, New
<1>2. IdsInv(q)'
  <2>1. ASSUME NEW r \in Procs, NEW c \in snap'[r], pc[q] \in Early PROVE c.by # q
    BY <2>1 DEF XInv, ProcInv, IdsInv, OwnStep, Same
  <2>. QED  BY <1>1, <2>1 DEF XInv, ProcInv, IdsInv, Same
<1>3. RemoveInv(q)'
  <2>1. \A r \in Procs \ {q} : removed'[q] \cap removed'[r] = {}
    BY <1>1 DEF XInv, ProcInv, RemoveInv, OwnStep, Same
  <2>2. /\ pc'[q] = pc[q] /\ snap'[q] = snap[q] /\ removed'[q] = removed[q]
    BY <1>1 DEF Same
  <2>3. \A x \in Policies : /\ AtOnce(removed[q], x) => AtOnce(removed[q], x)'
                            /\ AtOnce(snap[q], x) => AtOnce(snap[q], x)'
    BY <2>2 DEF AtOnce
  <2>4. RemoveInv(q)
    BY DEF XInv, ProcInv
  <2>. QED  BY <1>1, <2>1, <2>2, <2>3, <2>4 DEF RemoveInv
<1>4. AddInv(q)'
  <2>1. ASSUME NEW r \in Procs \ {q} PROVE ~Clash(added[q], added'[r] \cup removed'[r])
    <3>1. CASE r = p
      BY <3>1
    <3>2. CASE r # p
      BY <2>1, <3>2 DEF XInv, ProcInv, AddInv, OwnStep, Same
    <3>. QED  BY <3>1, <3>2
  <2>2. AddInv(q)
    BY DEF XInv, ProcInv
  <2>. QED  BY <1>1, <2>1, <2>2 DEF AddInv, Same
<1>5. AtInv(q)' /\ SeenInv(q)'
  BY <1>1 DEF XInv, ProcInv, AtInv, SeenInv, Same
<1>. QED  BY <1>2, <1>3, <1>4, <1>5 DEF ProcInv

\* A process holds nothing of what another does.
LEMMA Apart ==
  ASSUME XInv, NEW p \in Procs, NEW q \in Procs, q # p
  PROVE  removed[p] \cap removed[q] = {} /\ ~Clash(added[q], added[p] \cup removed[p])
BY DEF XInv, ProcInv, RemoveInv, AddInv

\* A step that neither finds, deletes nor inserts.
LEMMA PlainKept ==
  ASSUME XInv, NEW p \in Procs, OwnStep(p), TypeOK', chunks' = chunks,
         snap' = snap, removed' = removed, added' = added, at' = at,
         pc[p] \notin {"delete", "insert", "commit"}, pc'[p] \notin {"delete", "commit"},
         pc'[p] \in Early => pc[p] \in Early, pc'[p] \in Replacing <=> pc[p] \in Replacing,
         pc[p] \in Replacing => Mine(p)' = Mine(p), SeenInv(p)'
  PROVE  XInv'
<1>. USE DEF ProcInv
<1>1. IdsInv(p)'
  BY DEF XInv, ProcInv, IdsInv
<1>2. RemoveInv(p)'
  BY DEF XInv, ProcInv, RemoveInv, AtOnce
<1>3. AddInv(p)' /\ AtInv(p)'
  BY DEF XInv, ProcInv, AddInv, AtInv, Clash
<1>4. ASSUME NEW q \in Procs, q # p PROVE ProcInv(q)'
  BY <1>4, Apart, OthersKept
<1>5. IndexIsWhole'
  BY DEF XInv, IndexIsWhole
<1>. QED  BY <1>1, <1>2, <1>3, <1>4, <1>5 DEF XInv

\* The steps that only read, or call the embedding model.
LEMMA PlainSteps ==
  ASSUME XInv, NEW p \in Procs,
         \/ \E k \in {"retrieve", "index", "sync"}, ps \in SUBSET Policies : ReadPolicies(p, k, ps)
         \/ Sync(p) \/ ReadChunks(p) \/ ReadAgain(p) \/ Query(p) \/ Embed(p)
  PROVE  XInv'
<1>. USE DEF Ends, local
<1>1. TypeOK /\ seen[p] \in SUBSET Chunks
  BY DEF XInv, TypeOK
<1>2. CASE \E k \in {"retrieve", "index", "sync"}, ps \in SUBSET Policies : ReadPolicies(p, k, ps)
  <2>1. PICK k \in {"retrieve", "index", "sync"}, ps \in SUBSET Policies : ReadPolicies(p, k, ps)
    BY <1>2
  <2>2. TypeOK'
    <3>1. [x \in Policies |-> IF x \in ps THEN text[x] ELSE 0] \in Texts
      BY <1>1 DEF TypeOK, Texts, Latest
    <3>. QED  BY <1>1, <2>1, <3>1 DEF ReadPolicies, TypeOK, Ended
  <2>3. /\ OwnStep(p) /\ pc[p] = "none" /\ pc'[p] \in {"read_chunks", "index", "sync"}
        /\ UNCHANGED <<chunks, model, seen, snap, removed, added, at, evidence>>
    BY <1>1, <2>1 DEF ReadPolicies, OwnStep, Same, TypeOK
  <2>4. SeenInv(p)'
    BY <2>3 DEF XInv, ProcInv, SeenInv
  <2>. QED  BY <2>2, <2>3, <2>4, PlainKept DEF Early, Replacing
<1>3. CASE Sync(p)
  <2>1. TypeOK'
    <3>1. [x \in Policies |-> Latest] \in Texts
      BY DEF Texts, Latest
    <3>. QED  BY <1>1, <1>3, <3>1 DEF Sync, TypeOK, Ended
  <2>2. /\ OwnStep(p) /\ pc[p] = "sync" /\ pc'[p] \in {"done", "failed"}
        /\ UNCHANGED <<chunks, model, seen, snap, removed, added, at, evidence>>
    BY <1>1, <1>3 DEF Sync, OwnStep, Same, TypeOK
  <2>3. SeenInv(p)'
    BY <2>2 DEF XInv, ProcInv, SeenInv
  <2>. QED  BY <2>1, <2>2, <2>3, PlainKept DEF Early, Replacing
<1>4. CASE ReadChunks(p)
  <2>. DEFINE S == Of(chunks, Mine(p))
  <2>1. /\ OwnStep(p) /\ pc[p] = "read_chunks" /\ pc'[p] \in {"done", "index", "query"}
        /\ UNCHANGED <<text, chunks, kind, model, scope, held, snap, removed, added, at>>
        /\ seen'[p] = S /\ evidence'[p] \in {evidence[p], {}}
        /\ (evidence'[p] # evidence[p] => pc'[p] = "done" /\ S = {} /\ evidence'[p] = {})
        /\ (pc'[p] = "query" => ~NeedsIndex(p, S))
    <3>1. Mine(p) = {} => S = {}
      BY DEF Of
    <3>. QED  BY <1>1, <1>4, <3>1 DEF ReadChunks, OwnStep, Same, TypeOK
  <2>2. TypeOK'
    <3>1. S \in SUBSET Chunks
      BY <1>1 DEF TypeOK, Of
    <3>. QED  BY <1>1, <1>4, <3>1 DEF ReadChunks, TypeOK, Ended
  <2>3. \A x \in Policies : Whole(S, x)
    BY ReadIsWhole DEF XInv, IndexIsWhole
  <2>4. evidence[p] = Nil
    BY <2>1 DEF XInv, ProcInv, SeenInv
  <2>5. SeenInv(p)'
    <3>1. pc'[p] = "query" => \A c \in S : c.model = model[p]
      BY <2>1 DEF NeedsIndex
    <3>2. Mine(p)' = Mine(p)
      BY <2>1 DEF Mine
    <3>. HIDE DEF S
    <3>. QED  BY <2>1, <2>3, <2>4, <3>1, <3>2 DEF SeenInv
  <2>. QED  BY <2>1, <2>2, <2>5, PlainKept DEF Early, Replacing, Mine
<1>5. CASE ReadAgain(p)
  <2>. DEFINE S == Of(chunks, Mine(p))
  <2>1. /\ OwnStep(p) /\ pc[p] = "read_again" /\ pc'[p] = "query"
        /\ UNCHANGED <<text, chunks, kind, model, scope, held, snap, removed, added, at, evidence>>
        /\ seen'[p] = S
    BY <1>1, <1>5 DEF ReadAgain, OwnStep, Same, TypeOK
  <2>2. TypeOK'
    <3>1. S \in SUBSET Chunks
      BY <1>1 DEF TypeOK, Of
    <3>. QED  BY <1>1, <1>5, <3>1 DEF ReadAgain, TypeOK, Ended
  <2>3. \A x \in Policies : Whole(S, x)
    BY ReadIsWhole DEF XInv, IndexIsWhole
  <2>4. SeenInv(p)'
    <3>1. evidence[p] = Nil
      BY <2>1 DEF XInv, ProcInv, SeenInv
    <3>2. (\A q, r \in Procs : model[q] = model[r]) => \A c \in S : c.model = model[p]
      BY <2>1 DEF XInv, ProcInv, SeenInv
    <3>. HIDE DEF S
    <3>. QED  BY <2>1, <2>3, <3>1, <3>2 DEF SeenInv
  <2>. QED  BY <2>1, <2>2, <2>4, PlainKept DEF Early, Replacing, Mine
<1>6. CASE Query(p)
  <2>1. PICK S \in Recalled(p) :
          IF Scored(p, S)
          THEN pc' = [pc EXCEPT ![p] = "done"] /\ evidence' = [evidence EXCEPT ![p] = seen[p] \cup S]
          ELSE pc' = [pc EXCEPT ![p] = "failed"] /\ UNCHANGED evidence
    BY <1>6 DEF Query
  <2>2. Scored(p, S) => seen[p] \cup S = seen[p]
    BY DEF Scored
  <2>3. /\ OwnStep(p) /\ pc[p] = "query" /\ pc'[p] \in {"done", "failed"}
        /\ UNCHANGED <<text, chunks, local>>
        /\ evidence'[p] \in {evidence[p], seen[p]}
        /\ (evidence'[p] # evidence[p] => evidence'[p] = seen[p] /\ pc'[p] = "done")
    BY <1>1, <1>6, <2>1, <2>2 DEF Query, OwnStep, Same, TypeOK
  <2>4. TypeOK'
    BY <1>1, <2>1, <2>2, <2>3 DEF TypeOK, Ended
  <2>5. SeenInv(p)'
    <3>1. evidence[p] = Nil
      BY <2>3 DEF XInv, ProcInv, SeenInv
    <3>. QED  BY <2>3, <3>1 DEF XInv, ProcInv, SeenInv
  <2>. QED  BY <2>3, <2>4, <2>5, PlainKept DEF Early, Replacing, Mine
<1>7. CASE Embed(p)
  <2>1. /\ OwnStep(p) /\ pc[p] = "embed" /\ pc'[p] = "insert"
        /\ UNCHANGED <<text, chunks, local, evidence>>
    BY <1>1, <1>7 DEF Embed, OwnStep, Same, TypeOK
  <2>2. TypeOK'
    BY <1>1, <1>7 DEF Embed, TypeOK, Ended
  <2>3. SeenInv(p)'
    BY <2>1 DEF XInv, ProcInv, SeenInv
  <2>. QED  BY <2>1, <2>2, <2>3, PlainKept DEF Early, Replacing, Mine
<1>. QED  BY <1>2, <1>3, <1>4, <1>5, <1>6, <1>7

----------------------------------------------------------------------------
(* The statements *)

\* DELETE has found rows of its policies, all there are.
LEMMA BeginDeleteKept ==
  ASSUME XInv, NEW p \in Procs, BeginDelete(p)
  PROVE  XInv'
<1>. USE DEF Ends
<1>1. TypeOK /\ pc[p] = "index" /\ removed[p] = {} /\ added[p] = {} /\ at[p] = Nil
  BY DEF XInv, ProcInv, RemoveInv, AddInv, AtInv, BeginDelete, Replacing
<1>2. /\ OwnStep(p) /\ pc'[p] \in {"done", "delete"}
      /\ UNCHANGED <<text, chunks, kind, model, scope, held, seen, removed, added, at, evidence>>
      /\ snap'[p] \in {snap[p], Of(chunks, Mine(p))} /\ Mine(p)' = Mine(p)
      /\ (pc'[p] = "delete" => snap'[p] = Of(chunks, Mine(p)))
  BY <1>1 DEF BeginDelete, OwnStep, Same, TypeOK, Mine
<1>3. TypeOK'
  <2>1. Of(chunks, Mine(p)) \in SUBSET Chunks
    BY <1>1 DEF TypeOK, Of
  <2>. QED  BY <1>1, <2>1 DEF BeginDelete, TypeOK, Ended
<1>4. IdsInv(p)'
  <2>1. ASSUME NEW q \in Procs, NEW c \in snap'[q] PROVE c.by # p
    <3>1. (\A d \in chunks : d.by # p) /\ (\A d \in snap[q] : d.by # p)
      BY <1>1 DEF XInv, ProcInv, IdsInv, Early
    <3>2. snap'[q] \subseteq snap[q] \cup chunks
      BY <1>2 DEF OwnStep, Same, Of
    <3>. QED  BY <2>1, <3>1, <3>2
  <2>. QED  BY <1>1, <1>2, <2>1 DEF XInv, ProcInv, IdsInv, Early
<1>5. RemoveInv(p)'
  <2>1. pc'[p] = "delete" =>
          /\ \A c \in snap'[p] : c.policy \in Mine(p)
          /\ \A x \in Policies : AtOnce(snap[p], x)'
    <3>1. ASSUME NEW x \in Policies
          PROVE  \/ Of(Of(chunks, Mine(p)) \cap chunks, {x}) = {}
                 \/ Of(chunks, {x}) \subseteq Of(chunks, Mine(p))
      BY DEF Of
    <3>. QED  BY <1>2, <3>1 DEF AtOnce, Of
  <2>. QED  BY <1>1, <1>2, <2>1 DEF XInv, ProcInv, RemoveInv, Replacing
<1>6. AddInv(p)' /\ AtInv(p)' /\ SeenInv(p)'
  BY <1>1, <1>2 DEF XInv, ProcInv, AddInv, AtInv, SeenInv, Clash
<1>7. ASSUME NEW q \in Procs, q # p PROVE ProcInv(q)'
  <2>1. \A c \in snap'[p] : c \in snap[p] \/ c \in chunks
    BY <1>2 DEF Of
  <2>. QED  BY <1>2, <1>7, <2>1, Apart, OthersKept
<1>8. IndexIsWhole'
  BY <1>2 DEF XInv, IndexIsWhole
<1>. QED  BY <1>3, <1>4, <1>5, <1>6, <1>7, <1>8 DEF XInv, ProcInv

\* The row a statement comes to is one of those it found, or of those it is to insert.
LEMMA TurnIs ==
  ASSUME XInv, NEW p \in Procs, pc[p] \in {"delete", "insert"}, NEW c \in Turn(p)
  PROVE  /\ c \in Chunks
         /\ pc[p] = "delete" => c \in snap[p]
         /\ pc[p] = "insert" => c \in New(p)
<1>1. /\ pc[p] = "delete" => c \in snap[p]
      /\ pc[p] = "insert" => c \in New(p)
  BY DEF XInv, ProcInv, AtInv, Turn, Left, Following
<1>2. snap[p] \subseteq Chunks /\ New(p) \subseteq Chunks
  BY NewIs DEF XInv, TypeOK
<1>. QED  BY <1>1, <1>2

\* A statement that waits changes nothing.
LEMMA WaitKept ==
  ASSUME XInv, NEW p \in Procs, Wait(p)
  PROVE  XInv'
<1>1. TypeOK /\ pc[p] \in {"delete", "insert"}
  BY DEF XInv, Wait
<1>2. PICK c \in Turn(p) : at' = [at EXCEPT ![p] = c]
  BY DEF Wait
<1>3. c \in Chunks /\ (pc[p] = "delete" => c \in snap[p]) /\ (pc[p] = "insert" => c \in New(p))
  BY <1>1, TurnIs
<1>4. /\ OwnStep(p) /\ Mine(p)' = Mine(p) /\ New(p)' = New(p) /\ at'[p] = c
      /\ UNCHANGED <<text, chunks, kind, model, scope, pc, held, seen, snap, removed, added, evidence>>
  BY <1>1, <1>2 DEF Wait, OwnStep, Same, TypeOK, Mine, New
<1>5. TypeOK'
  BY <1>1, <1>2, <1>3, <1>4 DEF TypeOK
<1>6. RemoveInv(p)'
  BY <1>4 DEF XInv, ProcInv, RemoveInv, AtOnce
<1>7. IdsInv(p)' /\ AddInv(p)' /\ AtInv(p)' /\ SeenInv(p)'
  BY <1>1, <1>3, <1>4 DEF XInv, ProcInv, IdsInv, AddInv, AtInv, SeenInv
<1>8. ASSUME NEW q \in Procs, q # p PROVE ProcInv(q)'
  BY <1>4, <1>8, Apart, OthersKept
<1>9. IndexIsWhole'
  BY <1>4 DEF XInv, IndexIsWhole
<1>. QED  BY <1>5, <1>6, <1>7, <1>8, <1>9 DEF XInv, ProcInv

\* A row is deleted when nobody else has, if it is still there.
LEMMA DeleteRowKept ==
  ASSUME XInv, NEW p \in Procs, DeleteRow(p)
  PROVE  XInv'
<1>1. TypeOK /\ pc[p] = "delete" /\ added[p] = {}
  BY DEF XInv, ProcInv, AddInv, DeleteRow
<1>2. PICK c \in Turn(p) :
        Free(p, c) /\ removed' = [removed EXCEPT ![p] = removed[p] \cup ({c} \cap chunks)]
  BY DEF DeleteRow
<1>3. c \in snap[p] /\ c \in Chunks
  BY <1>1, TurnIs
<1>4. \A q \in Procs \ {p} : c \notin removed[q]
  BY <1>1, <1>2 DEF Free, Blocks
<1>5. /\ OwnStep(p) /\ Mine(p)' = Mine(p) /\ at'[p] = Nil
      /\ removed'[p] = removed[p] \cup ({c} \cap chunks)
      /\ UNCHANGED <<text, chunks, kind, model, scope, pc, held, seen, snap, added, evidence>>
  BY <1>1, <1>2 DEF DeleteRow, OwnStep, Same, TypeOK, Mine
<1>6. TypeOK'
  <2>1. removed[p] \cup ({c} \cap chunks) \in SUBSET Chunks
    BY <1>1, <1>3 DEF TypeOK
  <2>. QED  BY <1>1, <1>2, <1>5, <2>1 DEF DeleteRow, TypeOK
<1>7. RemoveInv(p)'
  <2>1. RemoveInv(p)
    BY DEF XInv, ProcInv
  <2>2. \A q \in Procs \ {p} : removed'[p] \cap removed'[q] = {}
    BY <1>4, <1>5, <2>1 DEF RemoveInv, OwnStep, Same
  <2>3. \A x \in Policies : AtOnce(snap[p], x)'
    BY <1>1, <1>5, <2>1 DEF RemoveInv, AtOnce
  <2>. QED  BY <1>1, <1>3, <1>5, <2>1, <2>2, <2>3 DEF RemoveInv, Replacing
<1>8. IdsInv(p)' /\ AddInv(p)' /\ AtInv(p)' /\ SeenInv(p)'
  BY <1>1, <1>5 DEF XInv, ProcInv, IdsInv, AddInv, AtInv, SeenInv, Clash
<1>9. ASSUME NEW q \in Procs, q # p PROVE ProcInv(q)'
  <2>1. removed'[p] \cap removed[q] = {}
    BY <1>4, <1>5, <1>9, Apart
  <2>2. ~Clash(added[q], chunks \ removed[q]) /\ ~Clash(added[q], removed[p])
    BY <1>9, Apart DEF XInv, ProcInv, AddInv, Clash
  <2>3. {c} \cap chunks \subseteq chunks \ removed[q]
    BY <1>4, <1>9
  <2>4. ~Clash(added[q], added'[p] \cup removed'[p])
    BY <1>1, <1>5, <2>2, <2>3 DEF Clash
  <2>. QED  BY <1>5, <1>9, <2>1, <2>4, OthersKept
<1>10. IndexIsWhole'
  BY <1>5 DEF XInv, IndexIsWhole
<1>. QED  BY <1>6, <1>7, <1>8, <1>9, <1>10 DEF XInv, ProcInv

\* When DELETE ends, what it has found is deleted, by itself or before it.
LEMMA DeleteEndsKept ==
  ASSUME XInv, NEW p \in Procs, DeleteEnds(p)
  PROVE  XInv'
<1>. USE DEF Ends
<1>1. TypeOK /\ pc[p] = "delete" /\ added[p] = {} /\ at[p] = Nil
  BY DEF XInv, ProcInv, AddInv, DeleteEnds
<1>2. /\ OwnStep(p) /\ pc'[p] = "embed" /\ Mine(p)' = Mine(p)
      /\ UNCHANGED <<text, chunks, local, evidence>>
  BY <1>1 DEF DeleteEnds, OwnStep, Same, TypeOK, Mine, local
<1>3. TypeOK'
  BY <1>1 DEF DeleteEnds, TypeOK, Ended, local
<1>4. RemoveInv(p)'
  <2>1. RemoveInv(p)
    BY DEF XInv, ProcInv
  <2>2. removed[p] = snap[p] \cap chunks
    BY <1>1, <2>1 DEF DeleteEnds, Left, RemoveInv
  <2>3. ASSUME NEW x \in Policies PROVE AtOnce(removed[p], x)'
    <3>1. AtOnce(snap[p], x)
      BY <1>1, <2>1 DEF RemoveInv
    <3>2. AtOnce(snap[p] \cap chunks, x)
      BY <3>1 DEF AtOnce, Of
    <3>. QED  BY <1>2, <2>2, <3>2 DEF AtOnce, local
  <2>. QED  BY <1>2, <2>1, <2>3 DEF RemoveInv, Replacing, local
<1>5. IdsInv(p)' /\ AddInv(p)' /\ AtInv(p)' /\ SeenInv(p)'
  BY <1>1, <1>2 DEF XInv, ProcInv, IdsInv, AddInv, AtInv, SeenInv, Clash, Early, local
<1>6. ASSUME NEW q \in Procs, q # p PROVE ProcInv(q)'
  BY <1>2, <1>6, Apart, OthersKept DEF local
<1>7. IndexIsWhole'
  BY <1>2 DEF XInv, IndexIsWhole
<1>. QED  BY <1>3, <1>4, <1>5, <1>6, <1>7 DEF XInv, ProcInv

\* A process that fails holds nothing any more.
LEMMA FailKept ==
  ASSUME XInv, NEW p \in Procs, Fail(p), pc[p] # "done"
  PROVE  XInv'
<1>. USE DEF Ends
<1>1. TypeOK
  BY DEF XInv
<1>2. /\ OwnStep(p) /\ pc'[p] = "failed" /\ removed'[p] = {} /\ added'[p] = {} /\ at'[p] = Nil
      /\ UNCHANGED <<text, chunks, kind, model, scope, held, seen, snap, evidence>>
  BY <1>1 DEF Fail, OwnStep, Same, TypeOK
<1>3. TypeOK'
  BY <1>1 DEF Fail, TypeOK, Ended
<1>4. IdsInv(p)' /\ RemoveInv(p)' /\ AddInv(p)' /\ AtInv(p)'
  BY <1>2 DEF IdsInv, RemoveInv, AddInv, AtInv, Early, Replacing, Clash
<1>5. SeenInv(p)'
  BY <1>2 DEF XInv, ProcInv, SeenInv
<1>6. ASSUME NEW q \in Procs, q # p PROVE ProcInv(q)'
  <2>1. removed'[p] \cap removed[q] = {} /\ ~Clash(added[q], added'[p] \cup removed'[p])
    BY <1>2 DEF Clash
  <2>. QED  BY <1>2, <1>6, <2>1, OthersKept
<1>7. IndexIsWhole'
  BY <1>2 DEF XInv, IndexIsWhole
<1>. QED  BY <1>3, <1>4, <1>5, <1>6, <1>7 DEF XInv, ProcInv

\* A row that was inserted has a key nobody has, or may come to have.
LEMMA InsertRowKept ==
  ASSUME XInv, NEW p \in Procs, InsertRow(p)
  PROVE  XInv'
<1>. USE DEF Ends
<1>1. TypeOK /\ pc[p] = "insert" /\ added[p] \subseteq New(p)
  BY DEF XInv, ProcInv, AddInv, InsertRow
<1>2. CASE Fail(p)
  BY <1>1, <1>2, FailKept
<1>3. CASE ~Fail(p)
  <2>1. PICK c \in Turn(p) :
          /\ Free(p, c) /\ KeyFree(p, c)
          /\ added' = [added EXCEPT ![p] = added[p] \cup {c}]
          /\ at' = [at EXCEPT ![p] = Nil]
          /\ pc' = [pc EXCEPT ![p] = IF New(p) \subseteq added[p] \cup {c} THEN "commit" ELSE "insert"]
          /\ UNCHANGED <<text, chunks, kind, model, scope, held, seen, snap, removed, evidence>>
    BY <1>3 DEF InsertRow
  <2>2. c \in New(p) /\ New(p) \subseteq Chunks
    BY <1>1, TurnIs, NewIs
  <2>3. /\ OwnStep(p) /\ pc'[p] \in {"insert", "commit"} /\ at'[p] = Nil
        /\ added'[p] = added[p] \cup {c}
        /\ Mine(p)' = Mine(p) /\ New(p)' = New(p)
        /\ (pc'[p] = "commit" => New(p) \subseteq added'[p])
    BY <1>1, <2>1 DEF OwnStep, Same, TypeOK, Mine, New
  <2>4. TypeOK'
    <3>1. added[p] \cup {c} \in SUBSET Chunks
      BY <1>1, <2>2
    <3>. QED  BY <1>1, <2>1, <3>1 DEF TypeOK, Ended
  <2>5. RemoveInv(p)'
    <3>1. RemoveInv(p)
      BY DEF XInv, ProcInv
    <3>. QED  BY <1>1, <2>1, <2>3, <3>1 DEF RemoveInv, AtOnce, Replacing
  <2>6. \A q \in Procs \ {p} : ~Clash({c}, added[q] \cup removed[q])
    BY <1>1, <2>1 DEF Free, Blocks
  <2>7. AddInv(p)'
    <3>1. \A q \in Procs \ {p} : added'[q] = added[q] /\ removed'[q] = removed[q]
      BY <2>3 DEF OwnStep, Same
    <3>2. ~Clash(added'[p], chunks \ removed[p])
      BY <2>1, <2>3 DEF XInv, ProcInv, AddInv, KeyFree, Clash
    <3>3. ASSUME NEW q \in Procs \ {p} PROVE ~Clash(added'[p], added[q] \cup removed[q])
      BY <2>3, <2>6 DEF XInv, ProcInv, AddInv, Clash
    <3>. QED  BY <1>1, <2>1, <2>2, <2>3, <3>1, <3>2, <3>3 DEF AddInv
  <2>8. IdsInv(p)' /\ AtInv(p)' /\ SeenInv(p)'
    BY <1>1, <2>1, <2>3 DEF XInv, ProcInv, IdsInv, AtInv, SeenInv, Early
  <2>9. ASSUME NEW q \in Procs, q # p PROVE ProcInv(q)'
    <3>1. removed'[p] \cap removed[q] = {} /\ ~Clash(added[q], added[p] \cup removed[p])
      BY <2>1, <2>9, Apart
    <3>2. ~Clash(added[q], {c})
      BY <2>6, <2>9 DEF Clash
    <3>3. ~Clash(added[q], added'[p] \cup removed'[p])
      BY <2>1, <2>3, <3>1, <3>2 DEF Clash
    <3>. QED  BY <2>1, <2>3, <2>9, <3>1, <3>3, OthersKept
  <2>10. IndexIsWhole'
    BY <2>1 DEF XInv, IndexIsWhole
  <2>. QED  BY <2>4, <2>5, <2>7, <2>8, <2>9, <2>10 DEF XInv, ProcInv
<1>. QED  BY <1>2, <1>3

----------------------------------------------------------------------------
(* The commit *)

\* Of the policies of the process its new chunks are all there is afterwards,
\* of the others what was.
LEMMA CommitReplaces ==
  ASSUME XInv, NEW p \in Procs, Commit(p), NEW x \in Policies
  PROVE  /\ x \in Mine(p) => /\ Of(chunks \ removed[p], {x}) = {}
                             /\ Of(chunks', {x}) = Of(New(p), {x})
                             /\ Of(chunks', {x}) # {}
         /\ x \notin Mine(p) => Of(chunks', {x}) = Of(chunks, {x})
<1>1. TypeOK /\ chunks' = (chunks \ removed[p]) \cup New(p) /\ chunks \in SUBSET Chunks
  BY DEF XInv, ProcInv, AddInv, Commit, TypeOK
<1>2. /\ ~Clash(New(p), chunks \ removed[p]) /\ AtOnce(removed[p], x)
      /\ \A c \in removed[p] : c.policy \in Mine(p)
  BY DEF XInv, ProcInv, AddInv, RemoveInv, Commit, Replacing
<1>3. CASE x \in Mine(p)
  <2>1. PICK e \in New(p) : e.policy = x /\ e.index = 1
    BY <1>1, <1>3, NewIs
  <2>2. ASSUME NEW c \in Of(chunks \ removed[p], {x}) PROVE FALSE
    <3>1. c \in chunks /\ c \notin removed[p] /\ c.policy = x
      BY <2>2 DEF Of
    <3>2. Whole(chunks, x)
      BY DEF XInv, IndexIsWhole
    <3>3. PICK d \in chunks : d.policy = x /\ d.index = 1
      BY <1>1, <3>1, <3>2, FirstIs
    <3>4. d \notin removed[p]
      BY <1>2, <3>1, <3>3 DEF AtOnce, Of
    <3>. QED  BY <1>2, <2>1, <3>3, <3>4 DEF Clash, Key
  <2>3. Of(chunks', {x}) = Of(New(p), {x})
    BY <1>1, <2>2 DEF Of
  <2>4. e \in Of(New(p), {x})
    BY <2>1 DEF Of
  <2>. QED  BY <1>3, <2>2, <2>3, <2>4
<1>4. CASE x \notin Mine(p)
  <2>1. \A c \in New(p) : c.policy \in Mine(p)
    BY <1>1, NewIs
  <2>. QED  BY <1>1, <1>2, <1>4, <2>1 DEF Of
<1>. QED  BY <1>3, <1>4

\* Others that were rebuilding the same policies find their rows gone, all of them.
LEMMA CommitKept ==
  ASSUME XInv, NEW p \in Procs, Commit(p)
  PROVE  XInv'
<1>. USE DEF Ends
<1>1. TypeOK /\ pc[p] = "commit" /\ added[p] = New(p) /\ at[p] = Nil
  BY DEF XInv, ProcInv, AddInv, AtInv, Commit
<1>2. /\ OwnStep(p) /\ pc'[p] \in {"read_again", "done"}
      /\ UNCHANGED <<text, kind, model, scope, held, seen, snap, at, evidence>>
      /\ chunks' = (chunks \ removed[p]) \cup New(p) /\ removed'[p] = {} /\ added'[p] = {}
  BY <1>1 DEF Commit, OwnStep, Same, TypeOK
<1>3. /\ New(p) \in SUBSET Chunks
      /\ \A c \in New(p) : c.by = p /\ c.policy \in Mine(p) /\ c.model = model[p]
  BY <1>1, NewIs
<1>4. TypeOK'
  BY <1>1, <1>3 DEF Commit, TypeOK, Ended
<1>5. \A q \in Procs : Mine(q)' = Mine(q) /\ New(q)' = New(q)
  BY <1>2 DEF Mine, New
<1>6. \A x \in Policies : Whole(chunks', x)
  <2>. SUFFICES ASSUME NEW x \in Policies PROVE Whole(chunks', x)
    OBVIOUS
  <2>1. Whole(New(p), x) /\ Whole(chunks, x)
    BY <1>1, NewIs DEF XInv, IndexIsWhole
  <2>2. Of(New(p), {x}) = Of(chunks', {x}) \/ Of(chunks, {x}) = Of(chunks', {x})
    BY CommitReplaces
  <2>. QED  BY <2>1, <2>2, WholeOf
<1>7. IdsInv(p)' /\ RemoveInv(p)' /\ AddInv(p)' /\ AtInv(p)'
  BY <1>1, <1>2 DEF IdsInv, RemoveInv, AddInv, AtInv, Early, Replacing, Clash
<1>8. SeenInv(p)'
  <2>1. evidence[p] = Nil
    BY <1>1 DEF XInv, ProcInv, SeenInv
  <2>2. ASSUME NEW c \in Of(chunks', Mine(p)) PROVE c.model = model[p]
    <3>1. c.policy \in Mine(p) /\ c.policy \in Policies /\ c \in chunks'
      BY <1>1 DEF Of, Mine, TypeOK
    <3>2. c \in Of(chunks', {c.policy})
      BY <3>1 DEF Of
    <3>3. c \in New(p)
      BY <3>1, <3>2, CommitReplaces DEF Of
    <3>. QED  BY <1>3, <3>3
  <2>. QED  BY <1>2, <1>5, <2>1, <2>2 DEF XInv, ProcInv, SeenInv
<1>9. ASSUME NEW q \in Procs, q # p PROVE ProcInv(q)'
  <2>1. Same(q) /\ chunks' \subseteq chunks \cup New(p)
    BY <1>2, <1>9 DEF OwnStep
  <2>2. IdsInv(q)'
    BY <1>2, <1>3, <1>9, <2>1 DEF XInv, ProcInv, IdsInv, Same
  <2>3. removed[q] \subseteq chunks /\ removed[p] \cap removed[q] = {}
    BY <1>9 DEF XInv, ProcInv, RemoveInv
  <2>4. ASSUME NEW x \in Policies, x \in Mine(p)
        PROVE  Of(removed[q], {x}) = {} /\ Of(snap[q] \cap chunks', {x}) = {}
    <3>1. Of(chunks \ removed[p], {x}) = {} /\ Of(chunks', {x}) = Of(New(p), {x})
      BY <2>4, CommitReplaces
    <3>2. Of(removed[q], {x}) = {}
      BY <2>3, <3>1 DEF Of
    <3>3. \A c \in snap[q] : c.by # p
      BY <1>1 DEF XInv, ProcInv, IdsInv, Early
    <3>. QED  BY <1>3, <3>1, <3>2, <3>3 DEF Of
  <2>5. ASSUME NEW x \in Policies, x \notin Mine(p), NEW S, AtOnce(S, x)
        PROVE  Of(S \cap chunks', {x}) = {} \/ Of(chunks', {x}) \subseteq S
    <3>1. Of(chunks', {x}) = Of(chunks, {x})
      BY <2>5, CommitReplaces
    <3>. QED  BY <2>5, <3>1 DEF AtOnce, Of
  <2>6. ASSUME NEW x \in Policies
        PROVE  /\ pc[q] \in Replacing => AtOnce(removed[q], x)'
               /\ pc[q] = "delete" => AtOnce(snap[q], x)'
    <3>1. /\ pc[q] \in Replacing => AtOnce(removed[q], x)
          /\ pc[q] = "delete" => AtOnce(snap[q], x)
      BY DEF XInv, ProcInv, RemoveInv
    <3>2. CASE x \in Mine(p)
      BY <2>1, <2>4, <3>2 DEF AtOnce, Of, Same
    <3>3. CASE x \notin Mine(p)
      BY <2>1, <2>5, <3>1, <3>3 DEF AtOnce, Same
    <3>. QED  BY <3>2, <3>3
  <2>7. RemoveInv(q)'
    <3>1. removed'[q] \subseteq chunks'
      BY <1>2, <2>1, <2>3 DEF Same
    <3>2. \A r \in Procs \ {q} : removed'[q] \cap removed'[r] = {}
      BY <1>2, <2>1 DEF XInv, ProcInv, RemoveInv, OwnStep, Same
    <3>. QED  BY <1>5, <2>1, <2>6, <3>1, <3>2 DEF XInv, ProcInv, RemoveInv, Same
  <2>8. AddInv(q)' /\ AtInv(q)'
    <3>1. AddInv(q) /\ AtInv(q)
      BY DEF XInv, ProcInv
    <3>2. ~Clash(added[q], New(p))
      BY <1>1, <1>9, <3>1 DEF AddInv, Clash
    <3>3. ~Clash(added[q], chunks' \ removed[q])
      BY <2>1, <3>1, <3>2 DEF AddInv, Clash
    <3>4. ASSUME NEW r \in Procs \ {q} PROVE ~Clash(added[q], added'[r] \cup removed'[r])
      <4>1. CASE r = p
        BY <1>2, <4>1 DEF Clash
      <4>2. CASE r # p
        BY <1>2, <3>1, <4>2 DEF AddInv, OwnStep, Same
      <4>. QED  BY <4>1, <4>2
    <3>. QED  BY <1>5, <2>1, <3>1, <3>3, <3>4 DEF AddInv, AtInv, Same
  <2>9. SeenInv(q)'
    <3>1. ASSUME \A r, s \in Procs : model[r] = model[s], pc[q] = "read_again",
                 NEW c \in Of(chunks', Mine(q))
          PROVE  c.model = model[q]
      <4>1. c \in Of(chunks, Mine(q)) \/ c \in New(p)
        BY <2>1, <3>1 DEF Of
      <4>2. c \in Of(chunks, Mine(q)) => c.model = model[q]
        BY <3>1 DEF XInv, ProcInv, SeenInv
      <4>. QED  BY <1>3, <3>1, <4>1, <4>2
    <3>. QED  BY <1>2, <1>5, <2>1, <3>1 DEF XInv, ProcInv, SeenInv, Same
  <2>. QED  BY <2>2, <2>7, <2>8, <2>9 DEF ProcInv
<1>10. IndexIsWhole'
  BY <1>6 DEF IndexIsWhole
<1>. QED  BY <1>4, <1>7, <1>8, <1>9, <1>10 DEF XInv, ProcInv

----------------------------------------------------------------------------
(* Theorems *)

\* XInv holds at first: the table is empty, or the work of one indexing.
LEMMA FirstX == Init => XInv
<1>. SUFFICES ASSUME Init PROVE XInv
  OBVIOUS
<1>. USE DEF Init
<1>1. text \in Texts
  BY ListedAssumption DEF Texts, Latest
<1>2. ChunksOf(Nil, Nil, Listed, text, OldModel) \in SUBSET Chunks
  BY DEF ChunksOf
<1>3. TypeOK
  <2>1. [x \in Policies |-> 0] \in Texts
    BY DEF Texts, Latest
  <2>2. chunks \in SUBSET Chunks
    BY <1>2
  <2>3. /\ seen \in [Procs -> SUBSET Chunks] /\ snap \in [Procs -> SUBSET Chunks]
        /\ removed \in [Procs -> SUBSET Chunks] /\ added \in [Procs -> SUBSET Chunks]
    OBVIOUS
  <2>4. held \in [Procs -> Texts]
    BY <2>1
  <2>5. /\ kind \in [Procs -> {"none", "retrieve", "index", "sync"}]
        /\ pc \in [Procs -> {"none"}] /\ model \in [Procs -> Models]
    OBVIOUS
  <2>6. scope \in [Procs -> SUBSET Policies]
    OBVIOUS
  <2>7. evidence \in [Procs -> (SUBSET Chunks) \cup {Nil}]
    OBVIOUS
  <2>8. at \in [Procs -> Chunks \cup {Nil}]
    OBVIOUS
  <2>. HIDE DEF Init
  <2>. QED  BY <1>1, <2>2, <2>3, <2>4, <2>5, <2>6, <2>7, <2>8 DEF TypeOK, Ended
<1>4. \A x \in Policies : Whole({}, x)
  BY DEF Whole, Of
<1>5. IndexIsWhole
  <2>1. CASE chunks = {}
    BY <1>4, <2>1 DEF IndexIsWhole
  <2>2. CASE chunks = ChunksOf(Nil, Nil, Listed, text, OldModel)
    <3>. SUFFICES ASSUME NEW x \in Policies PROVE Whole(chunks, x)
      BY DEF IndexIsWhole
    <3>1. ASSUME NEW c \in Of(chunks, {x}) PROVE {d.index : d \in Of(chunks, {x})} = 1..ChunkCount(c.text)
      <4>. DEFINE v == text[x]
      <4>1. x \in Listed /\ v \in 1..Latest /\ c.text = v
        BY <2>2, <3>1 DEF Of, ChunksOf
      <4>2. \A d \in Of(chunks, {x}) : d.index \in 1..v
        BY <2>2, <4>1 DEF Of, ChunksOf, ChunkCount, Chunks, Latest
      <4>3. ASSUME NEW i \in 1..v PROVE \E d \in Of(chunks, {x}) : d.index = i
        <5>. DEFINE d == [by |-> Nil, policy |-> x, index |-> i, text |-> v, model |-> OldModel]
        <5>1. i \in 1..Latest
          BY <4>1, <4>3 DEF Latest
        <5>2. d \in Chunks
          BY <4>1, <5>1 DEF Chunks
        <5>3. d \in Of(chunks, {x}) /\ d.index = i
          BY <2>2, <4>1, <4>3, <5>2 DEF Of, ChunksOf, ChunkCount
        <5>. QED  BY <5>3
      <4>4. {d.index : d \in Of(chunks, {x})} \subseteq 1..v
        BY <4>2, Zenon
      <4>5. 1..v \subseteq {d.index : d \in Of(chunks, {x})}
        BY <4>3, Zenon
      <4>. QED  BY <4>1, <4>4, <4>5 DEF ChunkCount
    <3>2. ASSUME NEW c \in Of(chunks, {x}), NEW d \in Of(chunks, {x})
          PROVE  d.by = c.by /\ d.text = c.text /\ d.model = c.model
      BY <2>2, <3>2 DEF Of, ChunksOf
    <3>. QED  BY <3>1, <3>2 DEF Whole
  <2>. QED  BY <2>1, <2>2
<1>6. ASSUME NEW p \in Procs PROVE ProcInv(p)
  <2>1. \A c \in chunks : c.by # p
    BY NilAssumption DEF ChunksOf
  <2>. QED  BY <1>4, <2>1 DEF ProcInv, IdsInv, RemoveInv, AddInv, AtInv, SeenInv, Replacing, Clash
<1>. QED  BY <1>3, <1>5, <1>6 DEF XInv

\* XInv is inductive.
LEMMA StepX == XInv /\ [Next]_vars => XInv'
<1>. SUFFICES ASSUME XInv, [Next]_vars PROVE XInv'
  OBVIOUS
<1>1. CASE UNCHANGED vars
  <2>1. UNCHANGED <<text, chunks, kind, model, scope, pc, held, seen, snap, removed, added, at, evidence>>
    BY <1>1 DEF vars
  <2>2. TypeOK' /\ IndexIsWhole'
    BY <2>1 DEF XInv, TypeOK, IndexIsWhole
  <2>3. ASSUME NEW p \in Procs PROVE ProcInv(p)'
    <3>1. Mine(p)' = Mine(p) /\ New(p)' = New(p)
      BY <2>1 DEF Mine, New
    <3>2. ProcInv(p)
      BY DEF XInv
    <3>3. IdsInv(p)' /\ AtInv(p)' /\ SeenInv(p)'
      BY <2>1, <3>1, <3>2 DEF ProcInv, IdsInv, AtInv, SeenInv
    <3>4. RemoveInv(p)'
      BY <2>1, <3>1, <3>2 DEF ProcInv, RemoveInv, AtOnce
    <3>5. AddInv(p)'
      BY <2>1, <3>1, <3>2 DEF ProcInv, AddInv
    <3>. QED  BY <3>3, <3>4, <3>5 DEF ProcInv
  <2>. QED  BY <2>2, <2>3 DEF XInv
<1>2. ASSUME NEW p \in Procs, Raise(p) PROVE XInv'
  BY <1>2, FailKept DEF Raise
<1>3. ASSUME NEW p \in Procs, DeadlockAbort(p) PROVE XInv'
  <2>1. at[p] # Nil
    BY <1>3 DEF DeadlockAbort, InCircle, WaitsFor
  <2>2. pc[p] # "done"
    BY <2>1 DEF XInv, ProcInv, AtInv
  <2>. QED  BY <1>3, <2>2, FailKept DEF DeadlockAbort
<1>. QED  BY <1>1, <1>2, <1>3, PlainSteps, BeginDeleteKept, WaitKept, DeleteRowKept, DeleteEndsKept,
             InsertRowKept, CommitKept DEF Next, Step, Indexing

\* XInv is an invariant, for any number of processes, policies and models.
THEOREM IndexInvariance == Spec => []XInv
BY FirstX, StepX, PTL DEF Spec

\* However many processes rebuild the index of a policy at once, it is always
\* the work of one indexing, complete and of one model.
THEOREM IndexWhole == Spec => []IndexIsWhole
<1>1. XInv => IndexIsWhole
  BY DEF XInv
<1>. QED  BY <1>1, IndexInvariance, PTL

\* So is what a retrieval answers with, though it reads the table twice and
\* others rebuild it in between.
THEOREM EvidenceWhole == Spec => []EvidenceIsWhole
<1>1. XInv => EvidenceIsWhole
  BY DEF XInv, ProcInv, SeenInv, EvidenceIsWhole
<1>. QED  BY <1>1, IndexInvariance, PTL

\* After a change of the embedding model no retrieval compares with vectors of
\* the old one, whoever finds the old index first.
THEOREM UpgradeSeen == Spec => []UpgradeIsSeen
<1>1. XInv => UpgradeIsSeen
  BY DEF XInv, ProcInv, SeenInv, UpgradeIsSeen
<1>. QED  BY <1>1, IndexInvariance, PTL

\* A policy that has an index has one after every step: deleted rows and their
\* replacement are committed together.
THEOREM IndexStays == Spec => IndexedStaysIndexed
<1>1. XInv /\ [Next]_vars =>
        [\A x \in Policies : Of(chunks, {x}) # {} => Of(chunks', {x}) # {}]_vars
  <2>. SUFFICES ASSUME XInv, [Next]_vars, NEW x \in Policies, Of(chunks, {x}) # {}
                PROVE  Of(chunks', {x}) # {}
    OBVIOUS
  <2>1. CASE \E p \in Procs : Commit(p)
    BY <2>1, CommitReplaces
  <2>2. CASE ~\E p \in Procs : Commit(p)
    <3>1. chunks' = chunks
      BY <2>2 DEF Next, vars, ReadPolicies, Step, Sync, ReadChunks, ReadAgain, Query, Indexing,
                  BeginDelete, Wait, DeleteRow, DeleteEnds, Embed, InsertRow, DeadlockAbort,
                  Raise, Fail, local
    <3>. QED  BY <3>1
  <2>. QED  BY <2>1, <2>2
<1>. QED  BY <1>1, IndexInvariance, PTL DEF Spec, IndexedStaysIndexed

----------------------------------------------------------------------------
(* The procedure *)

\* Which process is where.
KindInv(p) ==
  /\ kind[p] = "index" => scope[p] = Policies
  /\ pc[p] = "none" => kind[p] = "none"
  /\ pc[p] = "sync" => kind[p] = "sync"
  /\ pc[p] \in {"read_chunks", "read_again", "query"} => kind[p] = "retrieve"
  /\ pc[p] \in {"index", "delete"} \cup Replacing => kind[p] \in {"retrieve", "index"}

\* After an index script no policy it found has chunks from before all processes.
DoneInv(p) ==
  kind[p] = "index" /\ pc[p] = "done" =>
    \A x \in Mine(p) : /\ Of(chunks, {x}) # {}
                       /\ \A c \in Of(chunks, {x}) : c.by # Nil

\* A chunk is of the text its maker held.
MadeInv ==
  \A c \in chunks :
    \/ c.by = Nil /\ c.policy \in Listed
    \/ /\ c.by \in Procs /\ kind[c.by] \in {"retrieve", "index"}
       /\ c.policy \in Mine(c.by) /\ c.text = held[c.by][c.policy]

ZInv ==
  /\ \A x \in Listed : text[x] >= 1
  /\ MadeInv
  /\ \A p \in Procs : KindInv(p) /\ DoneInv(p)

\* While the table is left alone, only an index without policies can be done.
LEMMA QuietZ ==
  ASSUME XInv, ZInv, NEW p \in Procs, OwnStep(p), chunks' = chunks,
         \A x \in Listed : text'[x] >= 1, KindInv(p)',
         kind[p] # "none" => kind'[p] = kind[p] /\ Mine(p)' = Mine(p) /\ held'[p] = held[p],
         kind[p] = "none" => pc[p] \in Early,
         kind'[p] = "index" /\ pc'[p] = "done" => Mine(p)' = {}
  PROVE  ZInv'
<1>1. \A q \in Procs : q # p => /\ kind'[q] = kind[q] /\ pc'[q] = pc[q] /\ held'[q] = held[q]
                                /\ scope'[q] = scope[q] /\ Mine(q)' = Mine(q)
  BY DEF OwnStep, Same, Mine
<1>2. MadeInv'
  <2>1. ASSUME NEW c \in chunks', c.by # Nil
        PROVE  /\ c.by \in Procs /\ kind'[c.by] \in {"retrieve", "index"}
               /\ c.policy \in Mine(c.by)' /\ c.text = held'[c.by][c.policy]
    <3>1. /\ c.by \in Procs /\ kind[c.by] \in {"retrieve", "index"}
          /\ c.policy \in Mine(c.by) /\ c.text = held[c.by][c.policy]
      BY <2>1 DEF ZInv, MadeInv
    <3>2. CASE c.by = p
      BY <3>1, <3>2
    <3>3. CASE c.by # p
      BY <1>1, <3>1, <3>3
    <3>. QED  BY <3>2, <3>3
  <2>2. ASSUME NEW c \in chunks', c.by = Nil PROVE c.policy \in Listed
    BY <2>2, NilAssumption DEF ZInv, MadeInv
  <2>. QED  BY <2>1, <2>2 DEF MadeInv
<1>3. ASSUME NEW q \in Procs PROVE KindInv(q)' /\ DoneInv(q)'
  <2>1. CASE q = p
    BY <2>1 DEF DoneInv
  <2>2. CASE q # p
    BY <1>1, <2>2 DEF ZInv, KindInv, DoneInv
  <2>. QED  BY <2>1, <2>2
<1>. QED  BY <1>2, <1>3 DEF ZInv

\* A commit makes the chunks of its policies its own.
LEMMA CommitZ ==
  ASSUME XInv, ZInv, NEW p \in Procs, Commit(p)
  PROVE  ZInv'
<1>. USE DEF Ends
<1>1. TypeOK /\ pc[p] = "commit" /\ added[p] = New(p)
  BY DEF XInv, ProcInv, AddInv, Commit
<1>2. /\ UNCHANGED <<text, kind, scope, held>> /\ kind[p] \in {"retrieve", "index"}
      /\ pc'[p] = (IF kind[p] = "retrieve" THEN "read_again" ELSE "done")
      /\ \A q \in Procs : q # p => pc'[q] = pc[q]
      /\ chunks' = (chunks \ removed[p]) \cup New(p)
  BY <1>1 DEF Commit, TypeOK, ZInv, KindInv, Replacing
<1>3. \A q \in Procs : Mine(q)' = Mine(q)
  BY <1>2 DEF Mine
<1>4. \A c \in New(p) : c.by = p /\ c.policy \in Mine(p) /\ c.text = held[p][c.policy]
  BY DEF New, ChunksOf
<1>5. p # Nil
  BY NilAssumption
<1>6. MadeInv'
  BY <1>2, <1>3, <1>4 DEF ZInv, MadeInv
<1>7. ASSUME NEW q \in Procs PROVE KindInv(q)' /\ DoneInv(q)'
  <2>1. KindInv(q)'
    BY <1>2 DEF ZInv, KindInv, Replacing
  <2>2. ASSUME NEW x \in Mine(q), kind[q] = "index", pc'[q] = "done"
        PROVE  Of(chunks', {x}) # {} /\ \A c \in Of(chunks', {x}) : c.by # Nil
    <3>1. x \in Policies
      BY <1>1 DEF Mine, TypeOK
    <3>2. CASE x \in Mine(p)
      BY <1>4, <1>5, <3>1, <3>2, CommitReplaces DEF Of
    <3>3. CASE x \notin Mine(p)
      <4>1. q # p /\ Of(chunks', {x}) = Of(chunks, {x})
        BY <2>2, <3>1, <3>3, CommitReplaces
      <4>. QED  BY <1>2, <2>2, <4>1 DEF ZInv, DoneInv
    <3>. QED  BY <3>2, <3>3
  <2>. QED  BY <1>2, <1>3, <2>1, <2>2 DEF DoneInv
<1>. QED  BY <1>2, <1>6, <1>7 DEF ZInv

\* ZInv is inductive where XInv holds.
LEMMA StepZ == XInv /\ ZInv /\ [Next]_vars => ZInv'
<1>. SUFFICES ASSUME XInv, ZInv, [Next]_vars PROVE ZInv'
  OBVIOUS
<1>. USE DEF Ends, local
<1>1. CASE UNCHANGED vars
  BY <1>1 DEF vars, ZInv, MadeInv, KindInv, DoneInv, Mine
<1>2. ASSUME NEW p \in Procs, Commit(p) PROVE ZInv'
  BY <1>2, CommitZ
<1>3. ASSUME NEW p \in Procs, NEW k \in {"retrieve", "index", "sync"}, NEW ps \in SUBSET Policies,
             ReadPolicies(p, k, ps)
      PROVE  ZInv'
  <2>1. TypeOK /\ pc[p] = "none" /\ kind[p] = "none"
    BY <1>3 DEF XInv, ZInv, KindInv, ReadPolicies
  <2>2. /\ OwnStep(p) /\ UNCHANGED <<text, chunks>> /\ kind'[p] = k /\ scope'[p] = ps
        /\ (k # "retrieve" => ps = Policies)
        /\ pc'[p] = CASE k = "retrieve" -> "read_chunks" [] k = "index" -> "index"
                      [] k = "sync" -> "sync"
    BY <1>3, <2>1 DEF ReadPolicies, OwnStep, Same, TypeOK
  <2>3. KindInv(p)' /\ pc'[p] # "done"
    BY <2>2 DEF KindInv, Replacing
  <2>. QED  BY <2>1, <2>2, <2>3, QuietZ DEF ZInv, Early
<1>4. ASSUME NEW p \in Procs,
             \/ Sync(p) \/ ReadChunks(p) \/ ReadAgain(p) \/ Query(p) \/ BeginDelete(p) \/ Wait(p)
             \/ DeleteRow(p) \/ DeleteEnds(p) \/ Embed(p) \/ InsertRow(p) \/ DeadlockAbort(p)
             \/ Raise(p)
      PROVE  ZInv'
  <2>1. TypeOK /\ KindInv(p)
    BY DEF XInv, ZInv
  <2>2. /\ OwnStep(p) /\ chunks' = chunks /\ UNCHANGED <<kind, scope, held>>
    BY <1>4, <2>1 DEF Sync, ReadChunks, ReadAgain, Query, BeginDelete, Wait, DeleteRow, DeleteEnds,
                      Embed, InsertRow, DeadlockAbort, Raise, Fail, OwnStep, Same, TypeOK
  <2>3. Mine(p)' = Mine(p)
    BY <2>2 DEF Mine
  <2>4. \A x \in Listed : text'[x] >= 1
    <3>1. CASE text' = text
      BY <3>1 DEF ZInv
    <3>2. CASE text' # text
      <4>1. text' = [x \in Policies |-> Latest]
        BY <1>4, <3>2 DEF Sync, ReadChunks, ReadAgain, Query, BeginDelete, Wait, DeleteRow,
                          DeleteEnds, Embed, InsertRow, DeadlockAbort, Raise, Fail
      <4>. QED  BY <4>1, ListedAssumption DEF Latest
    <3>. QED  BY <3>1, <3>2
  <2>5. /\ KindInv(p)' /\ (kind'[p] = "index" /\ pc'[p] = "done" => Mine(p) = {})
        /\ (kind[p] = "none" => pc[p] \in Early)
    <3>1. CASE Sync(p)
      BY <2>1, <3>1 DEF Sync, KindInv, Replacing, Early, TypeOK
    <3>2. CASE ReadChunks(p)
      BY <2>1, <3>2 DEF ReadChunks, KindInv, Replacing, Early, TypeOK
    <3>3. CASE ReadAgain(p)
      BY <2>1, <3>3 DEF ReadAgain, KindInv, Replacing, Early, TypeOK
    <3>4. CASE Query(p)
      <4>1. pc[p] = "query" /\ pc'[p] \in {"done", "failed"} /\ UNCHANGED <<kind, scope>>
        BY <2>1, <3>4 DEF Query, TypeOK
      <4>. QED  BY <2>1, <4>1 DEF KindInv, Replacing, Early
    <3>5. CASE BeginDelete(p)
      BY <2>1, <3>5 DEF BeginDelete, KindInv, Replacing, Early, TypeOK
    <3>6. CASE Wait(p) \/ DeleteRow(p) \/ DeleteEnds(p) \/ Embed(p)
      BY <2>1, <3>6 DEF Wait, DeleteRow, DeleteEnds, Embed, KindInv, Replacing, Early, TypeOK
    <3>7. CASE InsertRow(p)
      <4>1. /\ pc[p] = "insert" /\ pc'[p] \in {"insert", "commit", "failed"}
            /\ UNCHANGED <<kind, scope>>
        BY <2>1, <3>7 DEF InsertRow, Fail, TypeOK
      <4>. QED  BY <2>1, <4>1 DEF KindInv, Replacing, Early
    <3>8. CASE DeadlockAbort(p)
      <4>1. pc[p] \in {"delete", "insert"}
        BY <3>8 DEF DeadlockAbort, InCircle, WaitsFor, Blocks
      <4>2. pc'[p] = "failed" /\ UNCHANGED <<kind, scope>>
        BY <2>1, <3>8 DEF DeadlockAbort, Fail, TypeOK
      <4>. QED  BY <2>1, <4>1, <4>2 DEF KindInv, Replacing, Early
    <3>9. CASE Raise(p)
      <4>1. pc'[p] = "failed" /\ pc[p] \notin {"none", "done", "failed"} /\ UNCHANGED <<kind, scope>>
        BY <2>1, <3>9 DEF Raise, Fail, TypeOK
      <4>. QED  BY <2>1, <3>9, <4>1 DEF Raise, KindInv, Replacing, Early
    <3>. QED  BY <1>4, <3>1, <3>2, <3>3, <3>4, <3>5, <3>6, <3>7, <3>8, <3>9
  <2>. QED  BY <2>2, <2>3, <2>4, <2>5, QuietZ
<1>. QED  BY <1>1, <1>2, <1>3, <1>4 DEF Next, Step, Indexing

\* The index script is enough to bring the catalog into the index, as long as
\* nobody rebuilds it from a text read before the change.
THEOREM ProcedureSuffices == Spec => []ProcedureIsEnough
<1>1. Init => ZInv
  <2>. SUFFICES ASSUME Init PROVE ZInv
    OBVIOUS
  <2>1. MadeInv
    BY DEF Init, MadeInv, ChunksOf
  <2>2. \A x \in Listed : text[x] >= 1
    BY ListedAssumption DEF Init
  <2>3. \A p \in Procs : KindInv(p) /\ DoneInv(p)
    BY DEF Init, KindInv, DoneInv, Replacing
  <2>. QED  BY <2>1, <2>2, <2>3 DEF ZInv
<1>2. XInv /\ ZInv => ProcedureIsEnough
  <2>. SUFFICES ASSUME XInv, ZInv, NEW p \in Procs, kind[p] = "index", pc[p] = "done",
                       held[p] = text,
                       \A q \in Procs : kind[q] \in {"retrieve", "index"} =>
                         \A x \in Mine(q) : held[q][x] = text[x],
                       NEW x \in Policies
                PROVE  {<<c.index, c.text>> : c \in Of(chunks, {x})} =
                         (1..ChunkCount(text[x])) \X {text[x]}
    BY DEF ProcedureIsEnough
  <2>1. TypeOK /\ Whole(chunks, x) /\ text[x] \in 0..Latest /\ chunks \in SUBSET Chunks
    BY DEF XInv, IndexIsWhole, TypeOK, Texts
  <2>2. scope[p] = Policies
    BY DEF ZInv, KindInv
  <2>3. ASSUME NEW c \in Of(chunks, {x}), c.by # Nil PROVE c.text = text[x] /\ text[x] > 0
    BY <2>1, <2>3 DEF ZInv, MadeInv, Of, Mine, Chunks, Latest
  <2>4. CASE text[x] > 0
    <3>1. x \in Mine(p)
      BY <2>2, <2>4 DEF Mine
    <3>2. Of(chunks, {x}) # {} /\ \A c \in Of(chunks, {x}) : c.by # Nil
      BY <3>1 DEF ZInv, DoneInv
    <3>3. PICK c \in Of(chunks, {x}) : c.text = text[x]
      BY <2>3, <3>2
    <3>4. {d.index : d \in Of(chunks, {x})} = 1..ChunkCount(text[x])
      BY <2>1, <3>3 DEF Whole
    <3>5. \A d \in Of(chunks, {x}) : d.text = text[x]
      BY <2>3, <3>2
    <3>6. {<<d.index, d.text>> : d \in Of(chunks, {x})}
            = {d.index : d \in Of(chunks, {x})} \X {text[x]}
      BY <3>5
    <3>. QED  BY <3>4, <3>6
  <2>5. CASE text[x] = 0
    <3>1. ASSUME NEW c \in Of(chunks, {x}) PROVE FALSE
      <4>1. c.by # Nil
        BY <2>5, <3>1, NilAssumption DEF ZInv, MadeInv, Of
      <4>. QED  BY <2>3, <2>5, <4>1
    <3>2. 1..ChunkCount(text[x]) = {}
      BY <2>5 DEF ChunkCount
    <3>. QED  BY <3>1, <3>2
  <2>6. text[x] > 0 \/ text[x] = 0
    BY <2>1 DEF Latest
  <2>. QED  BY <2>4, <2>5, <2>6
<1>. QED  BY <1>1, <1>2, StepZ, IndexInvariance, PTL DEF Spec

----------------------------------------------------------------------------
(* Waits *)

\* Every nonempty set of numbers has a least one.
LEMMA LeastNat ==
  ASSUME NEW T \in SUBSET Nat, T # {}
  PROVE  \E x \in T : \A y \in T : x <= y
<1>1. PICK x \in T : \A y \in T : ~ (<<y, x>> \in OpToRel(<, Nat))
  BY NatLessThanWellFounded, WFMin
<1>2. ASSUME NEW y \in T, ~ (x <= y) PROVE FALSE
  <2>1. <<y, x>> \in Nat \X Nat /\ y < x
    BY <1>2
  <2>2. <<y, x>> \in OpToRel(<, Nat)
    BY <2>1 DEF OpToRel
  <2>. QED  BY <1>1, <2>2
<1>. QED  BY <1>2

\* Where everybody is followed by somebody, a smallest group of which this is
\* true is one in which everybody is also preceded.
LEMMA CircleAmong ==
  ASSUME NEW B, IsFiniteSet(B), B # {}, NEW R,
         \A q \in B : \E r \in B : <<q, r>> \in R
  PROVE  \E S \in SUBSET B :
           /\ S # {}
           /\ \A q \in S : (\E r \in S : <<q, r>> \in R) /\ (\E r \in S : <<r, q>> \in R)
<1>. DEFINE Followed(S) == S # {} /\ \A q \in S : \E r \in S : <<q, r>> \in R
            Sizes == {Cardinality(S) : S \in {T \in SUBSET B : Followed(T)}}
<1>1. \A S \in SUBSET B : IsFiniteSet(S) /\ Cardinality(S) \in Nat
  BY FS_Subset, FS_CardinalityType
<1>2. Sizes \in SUBSET Nat
  BY <1>1
<1>3. Cardinality(B) \in Sizes
  OBVIOUS
<1>4. PICK n \in Sizes : \A m \in Sizes : n <= m
  BY <1>2, <1>3, LeastNat
<1>5. PICK S \in SUBSET B : Followed(S) /\ Cardinality(S) = n
  OBVIOUS
<1>6. ASSUME NEW q \in S PROVE \E r \in S : <<r, q>> \in R
  <2>. SUFFICES ASSUME \A r \in S : <<r, q>> \notin R PROVE FALSE
    OBVIOUS
  <2>1. PICK r \in S : <<q, r>> \in R
    BY <1>5, <1>6
  <2>2. r # q
    BY <2>1
  <2>3. Followed(S \ {q})
    BY <1>5, <2>1, <2>2
  <2>4. Cardinality(S \ {q}) \in Sizes
    BY <2>3
  <2>5. Cardinality(S \ {q}) = Cardinality(S) - 1
    BY <1>1, <1>6, FS_RemoveElement
  <2>6. n <= Cardinality(S) - 1 /\ n = Cardinality(S) /\ n \in Nat
    BY <1>1, <1>4, <1>5, <2>4, <2>5
  <2>. QED  BY <2>6
<1>. QED  BY <1>5, <1>6

\* Rebuilds of the index never wait for each other for ever: one that holds a
\* row or a key has not ended, so if all waited each would wait for another that
\* waits, and so on in a circle, of which PostgreSQL aborts one.
THEOREM IndexWaitsEnd == Spec => []WaitsEnd
<1>1. XInv => WaitsEnd
  <2>. DEFINE B == {p \in Procs : pc[p] \notin Ended \cup {"none"}}
              R == {w \in Procs \X Procs : WaitsFor(w[1], w[2])}
  <2>. SUFFICES ASSUME XInv, NEW a \in B, \A p \in B : Waits(p)
                PROVE  FALSE
    BY DEF WaitsEnd
  <2>1. ASSUME NEW p \in B PROVE \E q \in B : <<p, q>> \in R
    <3>1. PICK q \in Procs : WaitsFor(p, q)
      BY DEF Waits
    <3>2. removed[q] # {} \/ added[q] # {}
      BY <3>1 DEF WaitsFor, Blocks, Clash
    <3>3. pc[q] \in {"delete"} \cup Replacing
      BY <3>2 DEF XInv, ProcInv, RemoveInv, AddInv, Replacing
    <3>4. q \in B
      BY <3>3 DEF Replacing, Ended
    <3>. QED  BY <3>1, <3>4
  <2>2. IsFiniteSet(B)
    BY ProcsAssumption, FS_Subset
  <2>3. PICK S \in SUBSET B :
          /\ S # {}
          /\ \A q \in S : (\E r \in S : <<q, r>> \in R) /\ (\E r \in S : <<r, q>> \in R)
    <3>1. B # {}
      OBVIOUS
    <3>. HIDE DEF B, R
    <3>. QED  BY <2>1, <2>2, <3>1, CircleAmong
  <2>4. PICK p \in S : TRUE
    BY <2>3
  <2>5. \A q \in S : (\E r \in S : WaitsFor(q, r)) /\ (\E r \in S : WaitsFor(r, q))
    BY <2>3
  <2>6. InCircle(p)
    BY <2>4, <2>5 DEF InCircle
  <2>. QED  BY <2>4, <2>6 DEF Waits
<1>. QED  BY <1>1, IndexInvariance, PTL
=============================================================================
