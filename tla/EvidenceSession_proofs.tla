----------------------- MODULE EvidenceSession_proofs -----------------------
(***************************************************************************)
(* Proofs about research runs that share a state directory, for any runs,  *)
(* requested generations, funnels and input files.  The invariant says     *)
(* what a run has stored at each step of its life: how many generations,   *)
(* the manifest its candidates are measured under, the attempt a           *)
(* generation will name; and that a projection under way is still the      *)
(* projection of the journal.                                              *)
(***************************************************************************)
EXTENDS EvidenceSession, FiniteSetTheorems, WellFoundedInduction, TLAPS

Stored == Log!Stored(journal)

Finished(r) == {e.payload.generation : e \in OfKind(r, "generation")}

\* An event's identity is made from its kind, its run and its number.
Identified(e) ==
    /\ e.kind \in {"run", "manifest", "end"} => e.id = <<e.kind, e.run>>
    /\ e.kind = "attempt" => e.id = <<"attempt", e.payload.attempt>>
    /\ e.kind = "attempt" => e.payload.attempt[1] = e.run
    /\ e.kind = "generation" => e.id = <<"generation", e.run, e.payload.generation>>

Identities ==
    /\ \A e \in Stored : Identified(e)
    /\ \A e, f \in Stored : e.id = f.id => e = f

\* The steps of a run that is registered and still open.
Open == Steps \ (Over \cup {"new", "registering"})

\* The steps at which the current generation is not recorded yet, and those of
\* them at which its evaluation has, or will be given, a stored attempt.
Working == Open \ {"reporting", "closing", "aborting"}

HasAttempt == {"projecting", "syncing", "filing", "evaluated"}

Beginnings == {"new", "registering", "starting", "context", "contextSync"}

ProgressOf(r) ==
    /\ In(r, {"new", "registering"}) => Log!Related(journal, r) = {}
    /\ At(r, "new") => proc[r].gen = 0
    /\ At(r, "registering") => proc[r].gen = 1
    /\ ~In(r, Over \cup {"new"}) => proc[r].gen \in 1..Requested[r]
    /\ In(r, Beginnings) => proc[r].tries = 0
    /\ At(r, "ready") => proc[r].tries < MaxTries
    /\ In(r, Open) => Registered(r) /\ ~Log!Closed(journal, r)
    /\ In(r, Working) => Finished(r) = 1..(proc[r].gen - 1)
    /\ At(r, "reporting") => Finished(r) = 1..proc[r].gen
    /\ At(r, "closing") => Finished(r) = 1..Requested[r]
    /\ \E n \in 0..Requested[r] : Finished(r) = 1..n

AttemptStored(r, a, g) ==
    \E e \in OfKind(r, "attempt") :
        e.payload.attempt = a /\ e.payload.generation = g /\ e.payload.status = "COMPLETED"

ManifestStored(r, c) == \E m \in OfKind(r, "manifest") : m.payload.key = c

\* What the next record of a run relies on.
GroundsOf(r) ==
    /\ In(r, HasAttempt) => AttemptStored(r, Attempt(r), proc[r].gen)
    /\ At(r, "measuring") => ManifestStored(r, proc[r].cond)

\* What a stored record relied on.
Grounded(e) ==
    /\ e.kind = "attempt" =>
           \A i \in DOMAIN e.payload.candidates :
               ManifestStored(e.run, e.payload.candidates[i].data)
    /\ e.kind = "generation" /\ e.payload.attempt # NoAttempt =>
           AttemptStored(e.run, e.payload.attempt, e.payload.generation)
    /\ e.kind = "end" /\ e.payload.status = "COMPLETED" =>
           Finished(e.run) = 1..Requested[e.run]

\* A projection under way has the lock and is the current one.
ProjectingOf(r) ==
    In(r, {"contextSync", "syncing"}) =>
        lock = r /\ proc[r].view = Merge(knowledge, journal)

ClosesOf(r) ==
    r \in Loop /\ In(r, {"done", "raised"}) /\ r \notin faulted => Log!Closed(journal, r)

JournalInv ==
    /\ Log!Readable(journal)
    /\ Identities
    /\ \A e \in Stored : Grounded(e)

RunInv(r) == ProgressOf(r) /\ GroundsOf(r) /\ ProjectingOf(r) /\ ClosesOf(r)

IInv ==
    /\ TypeOK
    /\ JournalInv
    /\ \A r \in Run : RunInv(r)
    /\ EvidenceBeforeCopies
-----------------------------------------------------------------------------
(* Sequences: joining them, and adding what is new. *)

\* Induction over the naturals up to a bound, for a set instead of a predicate.
LEMMA UptoInduction ==
    ASSUME NEW L \in Nat, NEW P, 0 \in P, \A n \in 0..(L - 1) : n \in P => n + 1 \in P
    PROVE  0..L \subseteq P
<1> SUFFICES ASSUME (0..L) \ P # {} PROVE FALSE
  OBVIOUS
<1>1. (0..L) \ P \subseteq Nat
  OBVIOUS
<1>2. PICK n \in (0..L) \ P : \A m \in (0..L) \ P : ~(<<m, n>> \in OpToRel(<, Nat))
  BY <1>1, NatLessThanWellFounded, WFMin
<1>3. ASSUME NEW m \in (0..L) \ P PROVE ~(m < n)
  <2>1. m \in Nat /\ n \in Nat /\ ~(<<m, n>> \in OpToRel(<, Nat))
    BY <1>1, <1>2
  <2> QED
    BY <2>1 DEF OpToRel
<1>4. n # 0 /\ n - 1 \in 0..(L - 1) /\ n - 1 < n /\ n - 1 \in 0..L
  OBVIOUS
<1>5. n - 1 \in P
  BY <1>3, <1>4
<1>6. (n - 1) + 1 \in P
  BY <1>4, <1>5
<1> QED
  BY <1>6

\* The recursive function behind FlattenSeq, and the one behind AppendNew.
Joining(seqs, f) ==
    [i \in 1..Len(seqs) |-> IF i = 1 THEN seqs[i] ELSE f[i - 1] \o seqs[i]]

New(entries, found, n) ==
    /\ \A i \in DOMAIN entries : entries[i].experiment # found[n].experiment
    /\ \A m \in 1..(n - 1) : found[m].experiment # found[n].experiment

Adding(entries, found, f) ==
    [n \in 0..Len(found) |->
        IF n = 0 THEN entries
        ELSE IF New(entries, found, n) THEN Append(f[n - 1], found[n]) ELSE f[n - 1]]

LEMMA FlattenIsRecursive ==
    ASSUME NEW seqs, Len(seqs) # 0
    PROVE  FlattenSeq(seqs) = (CHOOSE f : f = Joining(seqs, f))[Len(seqs)]
BY DEF FlattenSeq, Joining

LEMMA AppendNewIsRecursive ==
    ASSUME NEW entries, NEW found
    PROVE  AppendNew(entries, found) = (CHOOSE f : f = Adding(entries, found, f))[Len(found)]
BY DEF AppendNew, Adding, New

\* There is such a function: one that is right up to n gives one that is right
\* up to n + 1.
LEMMA JoiningDefined ==
    ASSUME NEW S, NEW seqs \in Seq(Seq(S))
    PROVE  \E f : f = Joining(seqs, f)
<1> DEFINE L == Len(seqs)
           Right(n) == \E f : \A i \in 1..n : f[i] = Joining(seqs, f)[i]
           P == {n \in 0..L : Right(n)}
<1>1. 0 \in P
  OBVIOUS
<1>2. ASSUME NEW n \in 0..(L - 1), n \in P PROVE n + 1 \in P
  <2>1. PICK f : \A i \in 1..n : f[i] = Joining(seqs, f)[i]
    BY <1>2
  <2> DEFINE h == Joining(seqs, f)
  <2>2. \A i \in 1..n : f[i] = h[i]
    BY <2>1
  <2>3. \A i \in 1..(n + 1) : h[i] = Joining(seqs, h)[i]
    <3> SUFFICES ASSUME NEW i \in 1..(n + 1) PROVE h[i] = Joining(seqs, h)[i]
      OBVIOUS
    <3>1. i \in 1..L
      OBVIOUS
    <3>2. CASE i = 1
      BY <3>1, <3>2 DEF Joining
    <3>3. CASE i # 1
      <4>1. f[i - 1] = h[i - 1]
        BY <2>2, <3>3
      <4> QED
        BY <3>1, <3>3, <4>1 DEF Joining
    <3> QED
      BY <3>2, <3>3
  <2>4. Right(n + 1)
    BY <2>3
  <2> HIDE DEF Right
  <2> QED
    BY <2>4
<1>3. L \in P
  <2> HIDE DEF P
  <2>1. \A n \in 0..(L - 1) : n \in P => n + 1 \in P
    BY <1>2
  <2>2. L \in Nat
    OBVIOUS
  <2> HIDE DEF L
  <2>3. 0..L \subseteq P
    BY <1>1, <2>1, <2>2, UptoInduction
  <2> QED
    BY <2>2, <2>3
<1>4. PICK f : \A i \in 1..L : f[i] = Joining(seqs, f)[i]
  BY <1>3
<1> DEFINE h == Joining(seqs, f)
<1>5. \A i \in 1..L : f[i] = h[i]
  BY <1>4
<1>6. ASSUME NEW i \in 1..L PROVE h[i] = Joining(seqs, h)[i]
  <2>1. i # 1 => i - 1 \in 1..L
    OBVIOUS
  <2> QED
    BY <1>5, <2>1 DEF Joining
<1>7. h = Joining(seqs, h)
  BY <1>6 DEF Joining
<1> QED
  BY <1>7

LEMMA AddingDefined ==
    ASSUME NEW S, NEW entries \in Seq(S), NEW found \in Seq(S)
    PROVE  \E f : f = Adding(entries, found, f)
<1> DEFINE L == Len(found)
           Right(n) == \E f : \A i \in 0..n : f[i] = Adding(entries, found, f)[i]
           P == {n \in 0..L : Right(n)}
<1>1. 0 \in P
  <2> DEFINE f == [i \in 0..0 |-> entries]
  <2>1. \A i \in 0..0 : f[i] = Adding(entries, found, f)[i]
    BY DEF Adding
  <2> QED
    BY <2>1
<1>2. ASSUME NEW n \in 0..(L - 1), n \in P PROVE n + 1 \in P
  <2>1. PICK f : \A i \in 0..n : f[i] = Adding(entries, found, f)[i]
    BY <1>2
  <2> DEFINE h == Adding(entries, found, f)
  <2>2. \A i \in 0..n : f[i] = h[i]
    BY <2>1
  <2>3. \A i \in 0..(n + 1) : h[i] = Adding(entries, found, h)[i]
    <3> SUFFICES ASSUME NEW i \in 0..(n + 1) PROVE h[i] = Adding(entries, found, h)[i]
      OBVIOUS
    <3>1. i \in 0..L
      OBVIOUS
    <3>2. CASE i = 0
      BY <3>1, <3>2 DEF Adding
    <3>3. CASE i # 0
      <4>1. f[i - 1] = h[i - 1]
        BY <2>2, <3>3
      <4> QED
        BY <3>1, <3>3, <4>1 DEF Adding
    <3> QED
      BY <3>2, <3>3
  <2>4. Right(n + 1)
    BY <2>3
  <2> HIDE DEF Right
  <2> QED
    BY <2>4
<1>3. L \in P
  <2> HIDE DEF P
  <2>1. \A n \in 0..(L - 1) : n \in P => n + 1 \in P
    BY <1>2
  <2>2. L \in Nat
    OBVIOUS
  <2> HIDE DEF L
  <2>3. 0..L \subseteq P
    BY <1>1, <2>1, <2>2, UptoInduction
  <2> QED
    BY <2>2, <2>3
<1>4. PICK f : \A i \in 0..L : f[i] = Adding(entries, found, f)[i]
  BY <1>3
<1> DEFINE h == Adding(entries, found, f)
<1>5. \A i \in 0..L : f[i] = h[i]
  BY <1>4
<1>6. \A i \in 0..L : h[i] = Adding(entries, found, h)[i]
  BY <1>5 DEF Adding
<1>7. h = Adding(entries, found, h)
  BY <1>6 DEF Adding
<1> QED
  BY <1>7

\* The joined sequence, as the last of the partial ones.
LEMMA Joined ==
    ASSUME NEW S, NEW seqs \in Seq(Seq(S)), Len(seqs) # 0
    PROVE  \E f \in [1..Len(seqs) -> Seq(S)] :
               f = Joining(seqs, f) /\ FlattenSeq(seqs) = f[Len(seqs)]
<1> DEFINE L == Len(seqs)
           f == CHOOSE f : f = Joining(seqs, f)
<1>1. f = Joining(seqs, f)
  BY JoiningDefined
<1>2. FlattenSeq(seqs) = f[L]
  BY FlattenIsRecursive
<1> HIDE DEF f
<1> DEFINE P == {n \in 0..L : n # 0 => f[n] \in Seq(S)}
<1>3. 0 \in P
  OBVIOUS
<1>4. ASSUME NEW n \in 0..(L - 1), n \in P PROVE n + 1 \in P
  <2>1. n + 1 \in 1..L /\ seqs[n + 1] \in Seq(S) /\ (n + 1) - 1 = n
    OBVIOUS
  <2>2. f[n + 1] = IF n + 1 = 1 THEN seqs[n + 1] ELSE f[n] \o seqs[n + 1]
    BY <1>1, <2>1 DEF Joining
  <2>3. CASE n = 0
    <3>1. n + 1 = 1
      BY <2>3
    <3> QED
      BY <2>1, <2>2, <3>1
  <2>4. CASE n # 0
    <3>1. n + 1 # 1 /\ f[n] \in Seq(S)
      BY <1>4, <2>4
    <3>2. f[n + 1] = f[n] \o seqs[n + 1]
      BY <2>2, <3>1
    <3>3. f[n] \o seqs[n + 1] \in Seq(S)
      BY <2>1, <3>1
    <3>4. f[n + 1] \in Seq(S)
      BY <3>2, <3>3
    <3> HIDE DEF L
    <3> QED
      BY <2>1, <3>4
  <2> QED
    BY <2>3, <2>4
<1>5. \A n \in 1..L : f[n] \in Seq(S)
  <2>1. 0..L \subseteq P
    <3> HIDE DEF P
    <3>1. \A n \in 0..(L - 1) : n \in P => n + 1 \in P
      BY <1>4
    <3>2. L \in Nat
      OBVIOUS
    <3> HIDE DEF L
    <3> QED
      BY <1>3, <3>1, <3>2, UptoInduction
  <2> QED
    BY <2>1
<1>6. f \in [1..L -> Seq(S)]
  <2>1. DOMAIN f = 1..L /\ f = [i \in 1..L |-> f[i]]
    BY <1>1 DEF Joining
  <2> QED
    BY <1>5, <2>1
<1> QED
  BY <1>1, <1>2, <1>6

LEMMA FlattenType ==
    ASSUME NEW S, NEW seqs \in Seq(Seq(S))
    PROVE  FlattenSeq(seqs) \in Seq(S)
<1>1. CASE Len(seqs) = 0
  <2>1. FlattenSeq(seqs) = seqs
    BY <1>1 DEF FlattenSeq
  <2>2. seqs = <<>>
    BY <1>1
  <2> QED
    BY <2>1, <2>2
<1>2. CASE Len(seqs) # 0
  <2>1. Len(seqs) \in 1..Len(seqs)
    BY <1>2
  <2> QED
    BY <1>2, <2>1, Joined
<1> QED
  BY <1>1, <1>2

\* One more sequence is joined at the end.
LEMMA FlattenAppend ==
    ASSUME NEW S, NEW seqs \in Seq(Seq(S)), NEW x \in Seq(S)
    PROVE  FlattenSeq(Append(seqs, x)) = FlattenSeq(seqs) \o x
<1> DEFINE longer == Append(seqs, x)
           L == Len(seqs)
<1>1. /\ longer \in Seq(Seq(S)) /\ Len(longer) = L + 1 /\ L \in Nat
      /\ longer[L + 1] = x /\ \A i \in 1..L : longer[i] = seqs[i]
  OBVIOUS
<1> HIDE DEF longer
<1>2. PICK g \in [1..(L + 1) -> Seq(S)] :
          g = Joining(longer, g) /\ FlattenSeq(longer) = g[L + 1]
  <2>1. Len(longer) # 0
    BY <1>1
  <2> QED
    BY <1>1, <2>1, Joined
<1>3. CASE L = 0
  <2>1. g[1] = x
    BY <1>1, <1>2, <1>3 DEF Joining
  <2>2. FlattenSeq(seqs) = <<>>
    BY <1>3 DEF FlattenSeq
  <2> QED
    BY <1>2, <1>3, <2>1, <2>2 DEF longer
<1>4. CASE L # 0
  <2>1. PICK f \in [1..L -> Seq(S)] : f = Joining(seqs, f) /\ FlattenSeq(seqs) = f[L]
    BY <1>4, Joined
  <2> DEFINE P == {n \in 0..L : n # 0 => g[n] = f[n]}
  <2>2. 0 \in P
    OBVIOUS
  <2>3. ASSUME NEW n \in 0..(L - 1), n \in P PROVE n + 1 \in P
    <3>1. n + 1 \in 1..L /\ n + 1 \in 1..(L + 1) /\ (n + 1) - 1 = n
      BY <1>1
    <3>2. f[n + 1] = IF n + 1 = 1 THEN seqs[n + 1] ELSE f[n] \o seqs[n + 1]
      BY <2>1, <3>1 DEF Joining
    <3>3. g[n + 1] = IF n + 1 = 1 THEN seqs[n + 1] ELSE g[n] \o seqs[n + 1]
      BY <1>1, <1>2, <3>1 DEF Joining
    <3> QED
      BY <2>3, <3>2, <3>3
  <2>4. 0..L \subseteq P
    <3> HIDE DEF P
    <3>1. \A n \in 0..(L - 1) : n \in P => n + 1 \in P
      BY <2>3
    <3> HIDE DEF L
    <3> QED
      BY <1>1, <2>2, <3>1, UptoInduction
  <2>5. g[L] = f[L]
    <3>1. L \in 0..L
      BY <1>1
    <3>2. L \in P
      BY <2>4, <3>1
    <3> QED
      BY <1>4, <3>2
  <2>6. g[L + 1] = g[L] \o x
    <3>1. L + 1 \in 1..Len(longer) /\ L + 1 # 1 /\ (L + 1) - 1 = L
      BY <1>1, <1>4
    <3> QED
      BY <1>1, <1>2, <3>1 DEF Joining
  <2> QED
    BY <1>2, <2>1, <2>5, <2>6 DEF longer
<1> QED
  BY <1>3, <1>4

ExperimentsOf(s) == {s[i].experiment : i \in DOMAIN s}

Once(s) == \A i, j \in DOMAIN s : s[i].experiment = s[j].experiment => i = j

\* What is added: nothing in front, nothing twice, and all there is.
Extends(entries, found, n, s) ==
    /\ s \in Seq(Entry)
    /\ IsPrefix(entries, s)
    /\ ExperimentsOf(s) = ExperimentsOf(entries) \cup {found[m].experiment : m \in 1..n}
    /\ Once(entries) => Once(s)

LEMMA ExtendsByOne ==
    ASSUME NEW entries \in Seq(Entry), NEW found \in Seq(Entry), NEW n \in Nat,
           n + 1 \in 1..Len(found), NEW s, Extends(entries, found, n, s)
    PROVE  Extends(entries, found, n + 1,
                   IF New(entries, found, n + 1) THEN Append(s, found[n + 1]) ELSE s)
<1> DEFINE x == found[n + 1]
           t == Append(s, x)
<1>0. x \in Entry /\ s \in Seq(Entry) /\ 1..(n + 1) = 1..n \cup {n + 1}
  BY DEF Extends
<1>1. ExperimentsOf(entries) \cup {found[m].experiment : m \in 1..(n + 1)}
          = ExperimentsOf(s) \cup {x.experiment}
  BY <1>0 DEF Extends
<1>2. CASE New(entries, found, n + 1)
  <2>1. x.experiment \notin ExperimentsOf(s)
    <3>1. x.experiment \notin ExperimentsOf(entries)
      BY <1>2 DEF New, ExperimentsOf
    <3>2. x.experiment \notin {found[m].experiment : m \in 1..n}
      BY <1>2 DEF New
    <3> QED
      BY <3>1, <3>2 DEF Extends
  <2>2. /\ t \in Seq(Entry) /\ Len(t) = Len(s) + 1 /\ DOMAIN t = 1..(Len(s) + 1)
        /\ DOMAIN s = 1..Len(s) /\ Len(s) \in Nat
        /\ \A i \in 1..Len(s) : t[i] = s[i]
        /\ t[Len(s) + 1] = x
    BY <1>0
  <2> HIDE DEF t, x
  <2>3. IsPrefix(entries, t)
    BY <2>2, <1>0 DEF IsPrefix, Extends
  <2>4. ExperimentsOf(t) = ExperimentsOf(s) \cup {x.experiment}
    <3>1. ExperimentsOf(t) \subseteq ExperimentsOf(s) \cup {x.experiment}
      BY <2>2 DEF ExperimentsOf
    <3>2. \A i \in DOMAIN s : i \in DOMAIN t /\ t[i] = s[i]
      BY <2>2
    <3>3. Len(s) + 1 \in DOMAIN t
      BY <2>2
    <3>4. ExperimentsOf(s) \cup {x.experiment} \subseteq ExperimentsOf(t)
      BY <2>2, <3>2, <3>3 DEF ExperimentsOf
    <3> QED
      BY <3>1, <3>4
  <2>5. Once(s) => Once(t)
    <3> SUFFICES ASSUME Once(s), NEW i \in DOMAIN t, NEW j \in DOMAIN t,
                        t[i].experiment = t[j].experiment
                 PROVE  i = j
      BY DEF Once
    <3>1. \A k \in 1..Len(s) : t[k].experiment # x.experiment
      BY <2>1, <2>2 DEF ExperimentsOf
    <3>2. CASE i \in 1..Len(s) /\ j \in 1..Len(s)
      BY <2>2, <3>2 DEF Once
    <3>3. CASE i = Len(s) + 1 \/ j = Len(s) + 1
      BY <2>2, <3>1, <3>3
    <3> QED
      BY <2>2, <3>2, <3>3
  <2> QED
    BY <1>1, <1>2, <2>2, <2>3, <2>4, <2>5 DEF Extends, t, x
<1>3. CASE ~New(entries, found, n + 1)
  <2>1. x.experiment \in ExperimentsOf(s)
    <3>1. \/ x.experiment \in ExperimentsOf(entries)
          \/ x.experiment \in {found[m].experiment : m \in 1..n}
      BY <1>3 DEF New, ExperimentsOf
    <3> QED
      BY <3>1 DEF Extends
  <2>2. ExperimentsOf(s) = ExperimentsOf(s) \cup {x.experiment}
    BY <2>1
  <2> QED
    BY <1>1, <1>3, <2>2 DEF Extends
<1> QED
  BY <1>2, <1>3

LEMMA AppendNewExtends ==
    ASSUME NEW entries \in Seq(Entry), NEW found \in Seq(Entry)
    PROVE  Extends(entries, found, Len(found), AppendNew(entries, found))
<1> DEFINE L == Len(found)
           f == CHOOSE f : f = Adding(entries, found, f)
<1>1. f = Adding(entries, found, f)
  BY AddingDefined
<1>2. AppendNew(entries, found) = f[L]
  BY AppendNewIsRecursive
<1> HIDE DEF f
<1> DEFINE P == {n \in 0..L : Extends(entries, found, n, f[n])}
<1>3. 0 \in P
  <2>1. f[0] = entries
    BY <1>1 DEF Adding
  <2>2. IsPrefix(entries, entries)
    BY DEF IsPrefix
  <2> QED
    BY <2>1, <2>2 DEF Extends
<1>4. ASSUME NEW n \in 0..(L - 1), n \in P PROVE n + 1 \in P
  <2>1. n + 1 \in 1..L /\ n + 1 \in 0..L /\ n + 1 # 0 /\ (n + 1) - 1 = n
    OBVIOUS
  <2>2. f[n + 1] = IF New(entries, found, n + 1) THEN Append(f[n], found[n + 1]) ELSE f[n]
    BY <1>1, <2>1 DEF Adding
  <2>3. Extends(entries, found, n + 1, f[n + 1])
    BY <1>4, <2>1, <2>2, ExtendsByOne
  <2> QED
    BY <2>1, <2>3
<1>5. L \in P
  <2> HIDE DEF P
  <2>1. \A n \in 0..(L - 1) : n \in P => n + 1 \in P
    BY <1>4
  <2>2. L \in Nat
    OBVIOUS
  <2> HIDE DEF L
  <2>3. 0..L \subseteq P
    BY <1>3, <2>1, <2>2, UptoInduction
  <2> QED
    BY <2>2, <2>3
<1> QED
  BY <1>2, <1>5
-----------------------------------------------------------------------------
(* Events, what a journal projects to, and what an append does to a journal. *)

\* The fields of an event.
LEMMA Shape ==
    ASSUME NEW e \in Shaped
    PROVE  /\ e.run \in Run /\ e.kind \in Kinds
           /\ e.kind = "manifest" => e.payload.key \in Condition
           /\ e.kind = "attempt" => /\ e.payload.attempt \in AttemptId
                                    /\ e.payload.generation \in Nat
                                    /\ e.payload.status \in {"COMPLETED", "FAILED"}
                                    /\ e.payload.candidates \in Seq(Candidate)
           /\ e.kind = "generation" => /\ e.payload.generation \in Nat
                                       /\ e.payload.attempt \in AttemptId \cup {NoAttempt}
           /\ e.kind = "end" => e.payload.status \in {"COMPLETED", "FAILED"}
<1>1. CASE e \in Shapes("run")
  BY <1>1 DEF Shapes, Kinds
<1>2. CASE e \in Shapes("manifest")
  BY <1>2 DEF Shapes, ShapeOf, Kinds
<1>3. CASE e \in Shapes("attempt")
  BY <1>3 DEF Shapes, ShapeOf, Kinds
<1>4. CASE e \in Shapes("generation")
  BY <1>4 DEF Shapes, ShapeOf, Kinds
<1>5. CASE e \in Shapes("end")
  BY <1>5 DEF Shapes, ShapeOf, Kinds
<1> QED
  BY <1>1, <1>2, <1>3, <1>4, <1>5 DEF Shaped

LEMMA ExperimentsType ==
    ASSUME NEW e \in Shaped
    PROVE  Experiments(e) \in Seq(Entry)
<1>1. CASE e.kind # "attempt"
  BY <1>1 DEF Experiments
<1>2. CASE e.kind = "attempt"
  <2> DEFINE cs == e.payload.candidates
  <2>1. e.payload.attempt \in AttemptId /\ cs \in Seq(Candidate)
    BY <1>2, Shape
  <2>2. ASSUME NEW i \in DOMAIN cs
        PROVE  [experiment |-> <<e.payload.attempt, i>>,
                category |-> Category(cs[i].status)] \in Entry
    <3>1. i \in Nat /\ cs[i] \in Candidate
      BY <2>1
    <3>2. cs[i].status \in Verdict
      BY <3>1 DEF Candidate
    <3>3. Category(cs[i].status) \in {"known_good", "known_bad", "unexplored"}
      BY <3>2 DEF Category, Verdict
    <3> QED
      BY <2>1, <3>1, <3>3 DEF Entry
  <2>3. DOMAIN cs = 1..Len(cs) /\ Len(cs) \in Nat
    BY <2>1
  <2> HIDE DEF cs
  <2> DEFINE x == [i \in DOMAIN cs |-> [experiment |-> <<e.payload.attempt, i>>,
                                       category |-> Category(cs[i].status)]]
  <2>4. x \in [1..Len(cs) -> Entry]
    BY <2>2, <2>3
  <2>5. x \in Seq(Entry)
    BY <2>3, <2>4
  <2>6. Experiments(e) = x
    BY <1>2 DEF Experiments, cs
  <2> QED
    BY <2>5, <2>6
<1> QED
  BY <1>1, <1>2

Pieces(log) == [i \in DOMAIN log |-> Experiments(log[i])]

LEMMA PiecesType ==
    ASSUME NEW log \in Seq(Shaped)
    PROVE  Pieces(log) \in Seq(Seq(Entry))
<1>1. \A i \in DOMAIN log : Experiments(log[i]) \in Seq(Entry)
  BY ExperimentsType
<1>2. DOMAIN log = 1..Len(log) /\ Len(log) \in Nat
  OBVIOUS
<1>3. Pieces(log) \in [1..Len(log) -> Seq(Entry)]
  BY <1>1, <1>2 DEF Pieces
<1> QED
  BY <1>2, <1>3

LEMMA ProjectionType ==
    ASSUME NEW log \in Seq(Shaped)
    PROVE  Projection(log) \in Seq(Entry)
<1>1. Projection(log) = FlattenSeq(Pieces(log))
  BY DEF Projection, Pieces
<1> QED
  BY <1>1, PiecesType, FlattenType

\* An event only adds to what its journal projects to.
LEMMA ProjectedGrows ==
    ASSUME NEW log \in Seq(Shaped), NEW e \in Shaped
    PROVE  Projected(log) \subseteq Projected(Append(log, e))
<1> DEFINE s == Projection(log)
           x == Experiments(e)
<1>1. Pieces(Append(log, e)) = Append(Pieces(log), x)
  <2>1. /\ DOMAIN Append(log, e) = 1..(Len(log) + 1) /\ DOMAIN log = 1..Len(log)
        /\ Len(log) \in Nat /\ Append(log, e)[Len(log) + 1] = e
        /\ \A i \in 1..Len(log) : Append(log, e)[i] = log[i]
    OBVIOUS
  <2>2. /\ Pieces(log) \in Seq(Seq(Entry)) /\ Len(Pieces(log)) = Len(log)
        /\ \A i \in 1..Len(log) : Pieces(log)[i] = Experiments(log[i])
    <3>1. Pieces(log) \in Seq(Seq(Entry)) /\ DOMAIN Pieces(log) = 1..Len(log)
      BY <2>1, PiecesType DEF Pieces
    <3> QED
      BY <2>1, <3>1 DEF Pieces
  <2> DEFINE p == Pieces(log)
             q == Pieces(Append(log, e))
             t == Append(p, x)
  <2>3. DOMAIN q = 1..(Len(log) + 1) /\ q = [i \in 1..(Len(log) + 1) |-> q[i]]
    BY <2>1 DEF Pieces
  <2>4. \A i \in 1..(Len(log) + 1) : q[i] = Experiments(Append(log, e)[i])
    BY <2>1 DEF Pieces
  <2>5. DOMAIN t = 1..(Len(log) + 1) /\ t = [i \in 1..(Len(log) + 1) |-> t[i]]
    <3>1. x \in Seq(Entry)
      BY ExperimentsType
    <3> HIDE DEF x, p
    <3>2. t \in Seq(Seq(Entry)) /\ Len(t) = Len(log) + 1
      BY <2>2, <3>1 DEF p
    <3> HIDE DEF t
    <3>3. DOMAIN t = 1..Len(t) /\ t = [i \in 1..Len(t) |-> t[i]]
      BY <3>2
    <3> QED
      BY <3>2, <3>3
  <2>6. ASSUME NEW i \in 1..(Len(log) + 1) PROVE q[i] = t[i]
    <3>1. CASE i = Len(log) + 1
      <4>1. t[i] = x
        BY <2>2, <3>1
      <4> QED
        BY <2>1, <2>4, <3>1, <4>1
    <3>2. CASE i # Len(log) + 1
      <4>1. i \in 1..Len(log)
        BY <2>1, <3>2
      <4>2. t[i] = p[i]
        BY <2>2, <4>1
      <4> QED
        BY <2>1, <2>2, <2>4, <4>1, <4>2
    <3> QED
      BY <3>1, <3>2
  <2> HIDE DEF q, t
  <2>7. q = t
    BY <2>3, <2>5, <2>6
  <2> QED
    BY <2>7 DEF q, t
<1>2. Projection(Append(log, e)) = s \o x
  <2>1. Pieces(log) \in Seq(Seq(Entry)) /\ x \in Seq(Entry)
    BY PiecesType, ExperimentsType
  <2>2. FlattenSeq(Append(Pieces(log), x)) = FlattenSeq(Pieces(log)) \o x
    BY <2>1, FlattenAppend
  <2> QED
    BY <1>1, <2>2 DEF Projection, Pieces
<1>3. s \in Seq(Entry) /\ x \in Seq(Entry)
  BY ProjectionType, ExperimentsType
<1> HIDE DEF s, x
<1>4. \A i \in DOMAIN s : i \in DOMAIN (s \o x) /\ (s \o x)[i] = s[i]
  BY <1>3
<1> QED
  BY <1>2, <1>4 DEF Projected, s

\* A merge keeps the entries, adds what is missing, and repeats nothing.
LEMMA Merging ==
    ASSUME NEW entries \in Seq(Entry), NEW log \in Seq(Shaped)
    PROVE  /\ Merge(entries, log) \in Seq(Entry)
           /\ IsPrefix(entries, Merge(entries, log))
           /\ ExperimentsOf(Merge(entries, log)) = ExperimentsOf(entries) \cup Projected(log)
           /\ Once(entries) => Once(Merge(entries, log))
<1> DEFINE found == Projection(log)
<1>1. found \in Seq(Entry)
  BY ProjectionType
<1>2. DOMAIN found = 1..Len(found)
  BY <1>1
<1>3. Projected(log) = {found[m].experiment : m \in 1..Len(found)}
  BY <1>2 DEF Projected
<1> HIDE DEF found
<1>4. Extends(entries, found, Len(found), AppendNew(entries, found))
  BY <1>1, AppendNewExtends
<1> QED
  BY <1>3, <1>4 DEF Extends, Merge, found
-----------------------------------------------------------------------------
(* The journal: what an append adds, and what stays true of it. *)

LEMMA StoredAppend ==
    ASSUME NEW log \in Seq(Shaped), NEW e \in Shaped
    PROVE  /\ Append(log, e) \in Seq(Shaped)
           /\ DOMAIN log = 1..Len(log) /\ Len(log) \in Nat
           /\ DOMAIN Append(log, e) = 1..(Len(log) + 1)
           /\ \A i \in 1..Len(log) : Append(log, e)[i] = log[i] /\ log[i] \in Log!Stored(log)
           /\ Append(log, e)[Len(log) + 1] = e
           /\ Log!Stored(Append(log, e)) = Log!Stored(log) \cup {e}
<1> DEFINE new == Append(log, e)
<1>1. /\ new \in Seq(Shaped)
      /\ DOMAIN new = 1..(Len(log) + 1)
      /\ DOMAIN log = 1..Len(log) /\ Len(log) \in Nat
      /\ \A i \in 1..Len(log) : new[i] = log[i]
      /\ new[Len(log) + 1] = e
  OBVIOUS
<1> HIDE DEF new
<1>2. \A i \in 1..Len(log) : log[i] \in Log!Stored(log)
  BY <1>1 DEF Log!Stored, Log!Range
<1>3. ASSUME NEW x \in Log!Stored(new) PROVE x \in Log!Stored(log) \cup {e}
  <2>1. PICK i \in 1..(Len(log) + 1) : x = new[i]
    BY <1>1 DEF Log!Stored, Log!Range
  <2>2. i \in 1..Len(log) \/ i = Len(log) + 1
    BY <1>1
  <2> QED
    BY <1>1, <1>2, <2>1, <2>2
<1>4. ASSUME NEW x \in Log!Stored(log) \cup {e} PROVE x \in Log!Stored(new)
  <2>1. CASE x = e
    BY <1>1, <2>1 DEF Log!Stored, Log!Range
  <2>2. CASE x \in Log!Stored(log)
    <3>1. PICK i \in 1..Len(log) : x = log[i]
      BY <1>1, <2>2 DEF Log!Stored, Log!Range
    <3>2. i \in DOMAIN new /\ x = new[i]
      BY <1>1, <3>1
    <3> QED
      BY <3>2 DEF Log!Stored, Log!Range
  <2> QED
    BY <2>1, <2>2
<1> QED
  BY <1>1, <1>2, <1>3, <1>4 DEF new

LEMMA StoredType ==
    ASSUME NEW log \in Seq(Shaped)
    PROVE  Log!Stored(log) \subseteq Shaped
BY DEF Log!Stored, Log!Range

\* An admitted event leaves the journal readable.
LEMMA AdmitsKeepsReadable ==
    ASSUME NEW log \in Seq(Shaped), NEW e, Log!Admits(log, e), Log!Readable(log)
    PROVE  Log!Readable(Append(log, e))
<1> DEFINE new == Append(log, e)
<1>0. e \in Shaped
  BY DEF Log!Admits
<1>1. /\ DOMAIN log = 1..Len(log) /\ Len(log) \in Nat
      /\ DOMAIN new = 1..(Len(log) + 1)
      /\ \A i \in 1..Len(log) : new[i] = log[i] /\ log[i] \in Log!Stored(log)
      /\ new[Len(log) + 1] = e
      /\ Log!Stored(new) = Log!Stored(log) \cup {e}
  BY <1>0, StoredAppend
<1> HIDE DEF new
<1>2. ASSUME NEW k \in {"run", "manifest", "end"}, Log!AtMostOne(log, k)
      PROVE  Log!AtMostOne(new, k)
  <2>1. SUFFICES ASSUME NEW i \in DOMAIN new, NEW j \in DOMAIN new,
                        new[i].kind = k, new[j].kind = k, new[i].run = new[j].run
                 PROVE  i = j
    BY DEF Log!AtMostOne
  <2>2. e.kind = k => \A x \in Log!Related(log, e.run) : x.kind # k
    BY <1>2 DEF Log!Admits, Log!Closed
  <2>3. \A m \in 1..Len(log) : log[m].run = e.run => log[m] \in Log!Related(log, e.run)
    BY <1>1 DEF Log!Related
  <2>4. CASE i \in 1..Len(log) /\ j \in 1..Len(log)
    BY <2>1, <2>4, <1>1, <1>2 DEF Log!AtMostOne
  <2>5. CASE i \in 1..Len(log) /\ j = Len(log) + 1
    BY <2>1, <2>2, <2>3, <2>5, <1>1
  <2>6. CASE i = Len(log) + 1 /\ j \in 1..Len(log)
    BY <2>1, <2>2, <2>3, <2>6, <1>1
  <2> QED
    BY <2>1, <2>4, <2>5, <2>6, <1>1
<1>3. Log!NoDuplicateRun(new)
  BY <1>2 DEF Log!Readable, Log!NoDuplicateRun, Log!AtMostOne
<1>4. Log!NoOrphan(new)
  <2>1. \A r : Log!Registered(log, r) => Log!Registered(new, r)
    BY <1>1 DEF Log!Registered, Log!Related
  <2>2. Log!Registered(new, e.run)
    <3>1. e.kind = "run" => Log!Registered(new, e.run)
      BY <1>1 DEF Log!Related, Log!Registered
    <3> QED
      BY <2>1, <3>1 DEF Log!Admits
  <2> QED
    BY <1>1, <2>1, <2>2 DEF Log!NoOrphan, Log!Readable
<1> QED
  BY <1>2, <1>3, <1>4 DEF Log!Readable, new

\* The step adds e to the journal.
Adds(e) == Log!Admits(journal, e) /\ journal' = Append(journal, e)

\* What follows from an append for the runs: the run of the event gains it, the
\* others keep what they have.
LEMMA Added ==
    ASSUME TypeOK, NEW e, Adds(e)
    PROVE  /\ e \in Shaped /\ e.run \in Run
           /\ journal' \in Seq(Shaped)
           /\ Stored' = Stored \cup {e}
           /\ Stored \subseteq Shaped
           /\ Log!Related(journal', e.run) = Log!Related(journal, e.run) \cup {e}
           /\ \A q : q # e.run => Log!Related(journal', q) = Log!Related(journal, q)
           /\ ~Log!Closed(journal, e.run)
           /\ \A x \in Stored : x.id # e.id
<1>1. e \in Shaped /\ journal \in Seq(Shaped)
  BY DEF Adds, Log!Admits, TypeOK
<1>2. Log!Stored(journal') = Log!Stored(journal) \cup {e} /\ journal' \in Seq(Shaped)
  BY <1>1, StoredAppend DEF Adds
<1>3. e.run \in Run
  BY <1>1, Shape
<1>4. /\ Log!Related(journal', e.run) = Log!Related(journal, e.run) \cup {e}
      /\ \A q : q # e.run => Log!Related(journal', q) = Log!Related(journal, q)
  BY <1>2 DEF Log!Related
<1>5. Log!Stored(journal) \subseteq Shaped
  BY <1>1, StoredType
<1> QED
  BY <1>1, <1>2, <1>3, <1>4, <1>5 DEF Stored, Adds, Log!Admits, Log!Taken

LEMMA AddsKeepsJournal ==
    ASSUME TypeOK, JournalInv, NEW e, Adds(e), Identified(e), Grounded(e)
    PROVE  JournalInv'
<1>1. /\ Stored' = Stored \cup {e} /\ ~Log!Closed(journal, e.run)
      /\ \A x \in Stored : x.id # e.id
      /\ Log!Related(journal', e.run) = Log!Related(journal, e.run) \cup {e}
      /\ \A q : q # e.run => Log!Related(journal', q) = Log!Related(journal, q)
  BY Added
<1>2. Log!Readable(journal')
  BY AdmitsKeepsReadable DEF Adds, JournalInv, TypeOK
<1>3. Identities'
  BY <1>1 DEF JournalInv, Identities, Identified
<1>4. ASSUME NEW x \in Stored' PROVE Grounded(x)'
  <2>1. Grounded(x)
    BY <1>1 DEF JournalInv
  <2>2. \A q, k : OfKind(q, k) \subseteq OfKind(q, k)'
    BY <1>1 DEF OfKind
  <2>3. \A q, c : ManifestStored(q, c) => ManifestStored(q, c)'
    BY <2>2 DEF ManifestStored
  <2>4. \A q, a, g : AttemptStored(q, a, g) => AttemptStored(q, a, g)'
    BY <2>2 DEF AttemptStored
  <2>5. x.kind = "end" => Finished(x.run)' = Finished(x.run)
    <3>1. CASE x = e
      <4>1. x.kind = "end" => OfKind(x.run, "generation")' = OfKind(x.run, "generation")
        BY <1>1, <3>1 DEF OfKind
      <4> QED
        BY <4>1 DEF Finished
    <3>2. CASE x # e
      <4>1. x.kind = "end" => x.run # e.run
        BY <1>1, <3>2 DEF Log!Closed, Log!Related, Stored
      <4>2. x.kind = "end" => OfKind(x.run, "generation")' = OfKind(x.run, "generation")
        BY <1>1, <4>1 DEF OfKind
      <4> QED
        BY <4>2 DEF Finished
    <3> QED
      BY <3>1, <3>2
  <2> QED
    BY <2>1, <2>3, <2>4, <2>5 DEF Grounded
<1> QED
  BY <1>2, <1>3, <1>4 DEF JournalInv
-----------------------------------------------------------------------------
(* Steps: what they share. *)

\* The records of a run say the same when its events are the same.
LEMMA SameRecords ==
    ASSUME NEW q, Log!Related(journal', q) = Log!Related(journal, q)
    PROVE  /\ Finished(q)' = Finished(q)
           /\ Registered(q)' <=> Registered(q)
           /\ Log!Closed(journal', q) <=> Log!Closed(journal, q)
           /\ \A a, g : AttemptStored(q, a, g)' <=> AttemptStored(q, a, g)
           /\ \A c : ManifestStored(q, c)' <=> ManifestStored(q, c)
<1>1. \A k : OfKind(q, k)' = OfKind(q, k)
  BY DEF OfKind
<1> QED
  BY <1>1 DEF Finished, Registered, Log!Registered, Log!Closed, AttemptStored, ManifestStored

\* The event is in the journal after the step, new or from before.
Recorded(e) == Adds(e) \/ (e \in Stored /\ journal' = journal)

LEMMA NewRecords ==
    ASSUME TypeOK, NEW e, Recorded(e)
    PROVE  /\ e \in Log!Related(journal', e.run)
           /\ Log!Related(journal', e.run) = Log!Related(journal, e.run) \cup {e}
           /\ \A q : q # e.run => Log!Related(journal', q) = Log!Related(journal, q)
           /\ Finished(e.run)' =
                  Finished(e.run) \cup (IF e.kind = "generation" THEN {e.payload.generation} ELSE {})
           /\ Registered(e.run)' <=> Registered(e.run) \/ e.kind = "run"
           /\ Log!Closed(journal', e.run) <=> Log!Closed(journal, e.run) \/ e.kind = "end"
           /\ \A a, g : AttemptStored(e.run, a, g) => AttemptStored(e.run, a, g)'
           /\ \A c : ManifestStored(e.run, c) => ManifestStored(e.run, c)'
           /\ e \in OfKind(e.run, e.kind)'
<1> DEFINE r == e.run
<1>1. /\ e \in Log!Related(journal', r)
      /\ Log!Related(journal', r) = Log!Related(journal, r) \cup {e}
      /\ \A q : q # r => Log!Related(journal', q) = Log!Related(journal, q)
  <2>1. CASE Adds(e)
    BY <2>1, Added
  <2>2. CASE e \in Stored /\ journal' = journal
    BY <2>2 DEF Stored, Log!Related
  <2> QED
    BY <2>1, <2>2 DEF Recorded
<1> HIDE DEF r
<1>2. \A k : OfKind(r, k)' = OfKind(r, k) \cup (IF e.kind = k THEN {e} ELSE {})
  BY <1>1 DEF OfKind
<1>3. Finished(r)' = Finished(r) \cup (IF e.kind = "generation" THEN {e.payload.generation} ELSE {})
  <2>1. OfKind(r, "generation")' =
            OfKind(r, "generation") \cup (IF e.kind = "generation" THEN {e} ELSE {})
    BY <1>2
  <2> QED
    BY <2>1 DEF Finished
<1>4. Registered(r)' <=> Registered(r) \/ e.kind = "run"
  BY <1>1 DEF Registered, Log!Registered
<1>5. Log!Closed(journal', r) <=> Log!Closed(journal, r) \/ e.kind = "end"
  BY <1>1 DEF Log!Closed
<1>6. \A a, g : AttemptStored(r, a, g) => AttemptStored(r, a, g)'
  BY <1>2 DEF AttemptStored
<1>7. \A c : ManifestStored(r, c) => ManifestStored(r, c)'
  BY <1>2 DEF ManifestStored
<1>8. e \in OfKind(r, e.kind)'
  BY <1>2
<1> QED
  BY <1>1, <1>3, <1>4, <1>5, <1>6, <1>7, <1>8 DEF r

\* The journal grows or stays: what was copied from it is still in it.
LEMMA CopiesKeep ==
    ASSUME TypeOK, EvidenceBeforeCopies, UNCHANGED <<knowledge, rows>>,
           journal' = journal \/ \E e : Adds(e)
    PROVE  EvidenceBeforeCopies'
<1>1. CASE journal' = journal
  BY <1>1 DEF EvidenceBeforeCopies, Known, Attempts
<1>2. ASSUME NEW e, Adds(e) PROVE EvidenceBeforeCopies'
  <2>1. e \in Shaped /\ Log!Stored(journal) \subseteq Log!Stored(journal')
    BY <1>2, Added DEF Stored
  <2>2. Projected(journal) \subseteq Projected(journal')
    BY <1>2, <2>1, ProjectedGrows DEF Adds, TypeOK
  <2>3. Attempts("COMPLETED") \subseteq Attempts("COMPLETED")'
    BY <2>1 DEF Attempts
  <2>4. Known' = Known
    BY DEF Known
  <2> QED
    BY <2>2, <2>3, <2>4 DEF EvidenceBeforeCopies
<1> QED
  BY <1>1, <1>2

\* What a run keeps while another one takes a step.
LEMMA OthersKeep ==
    ASSUME NEW q \in Run, RunInv(q), proc'[q] = proc[q], faulted \subseteq faulted',
           Log!Related(journal', q) = Log!Related(journal, q),
           In(q, {"contextSync", "syncing"}) => UNCHANGED <<lock, knowledge, journal>>
    PROVE  RunInv(q)'
<1>1. /\ \A s : At(q, s)' <=> At(q, s)
      /\ \A S : In(q, S)' <=> In(q, S)
  BY DEF At, In
<1>2. ProgressOf(q)'
  <2>1. /\ In(q, {"new", "registering"})' => Log!Related(journal', q) = {}
        /\ At(q, "new")' => proc'[q].gen = 0
        /\ At(q, "registering")' => proc'[q].gen = 1
        /\ ~In(q, Over \cup {"new"})' => proc'[q].gen \in 1..Requested[q]
        /\ In(q, Beginnings)' => proc'[q].tries = 0
        /\ At(q, "ready")' => proc'[q].tries < MaxTries
    BY DEF RunInv, ProgressOf, At, In
  <2>2. /\ In(q, Open)' => Registered(q)' /\ ~Log!Closed(journal', q)
        /\ In(q, Working)' => Finished(q)' = 1..(proc'[q].gen - 1)
        /\ At(q, "reporting")' => Finished(q)' = 1..proc'[q].gen
        /\ At(q, "closing")' => Finished(q)' = 1..Requested[q]
        /\ \E n \in 0..Requested[q] : Finished(q)' = 1..n
    BY SameRecords DEF RunInv, ProgressOf, At, In
  <2> QED
    BY <2>1, <2>2 DEF ProgressOf
<1>3. GroundsOf(q)'
  BY SameRecords DEF RunInv, GroundsOf, At, In, Attempt
<1>4. ProjectingOf(q)'
  BY DEF RunInv, ProjectingOf, In
<1>5. ClosesOf(q)'
  BY SameRecords DEF RunInv, ClosesOf, In
<1> QED
  BY <1>2, <1>3, <1>4, <1>5 DEF RunInv

\* The type of a process after a step that changes its place only.
LEMMA GotoType ==
    ASSUME TypeOK, NEW r \in Run, NEW s \in Steps, Goto(r, s)
    PROVE  /\ proc' \in [Run -> [pc : Steps, gen : Nat, tries : 0..MaxTries, atts : Nat,
                                 cond : Condition, view : Seq(Entry), injected : BOOLEAN]]
           /\ proc'[r].pc = s
           /\ proc'[r].gen = proc[r].gen /\ proc'[r].tries = proc[r].tries
           /\ proc'[r].atts = proc[r].atts /\ proc'[r].cond = proc[r].cond
           /\ proc'[r].view = proc[r].view
           /\ \A q \in Run : q # r => proc'[q] = proc[q]
           /\ Attempt(r)' = Attempt(r)
BY DEF TypeOK, Goto, Attempt

\* The parts of the invariant are put together after a step of r.
LEMMA Assemble ==
    ASSUME IInv, NEW r \in Run, TypeOK', JournalInv', EvidenceBeforeCopies', RunInv(r)',
           faulted \subseteq faulted',
           \A q \in Run : q # r => /\ proc'[q] = proc[q]
                                   /\ Log!Related(journal', q) = Log!Related(journal, q)
                                   /\ In(q, {"contextSync", "syncing"}) =>
                                          UNCHANGED <<lock, knowledge, journal>>
    PROVE  IInv'
<1>1. ASSUME NEW q \in Run, q # r PROVE RunInv(q)'
  BY <1>1, OthersKeep DEF IInv
<1> QED
  BY <1>1 DEF IInv

\* An error takes a registered run to its outer handler, or ends it.
LEMMA Fails ==
    ASSUME TypeOK, NEW r \in Run, ProgressOf(r), In(r, Open \cup {"registering"}),
           Goto(r, FailTo(r)), UNCHANGED journal
    PROVE  ProgressOf(r)' /\ GroundsOf(r)' /\ ProjectingOf(r)'
<1>1. /\ FailTo(r) \in {"aborting", "raised"}
      /\ FailTo(r) = "aborting" => In(r, Open)
  BY DEF FailTo, In, Open, TypeOK
<1>2. FailTo(r) \in Steps
  BY <1>1 DEF Steps
<1>3. proc'[r].pc = FailTo(r) /\ proc'[r].gen = proc[r].gen
  BY <1>2, GotoType
<1>4. Log!Related(journal', r) = Log!Related(journal, r)
  OBVIOUS
<1>5. ProgressOf(r)'
  <2>1. FailTo(r) = "aborting" => proc[r].gen \in 1..Requested[r]
    BY <1>1 DEF ProgressOf, In, Open
  <2>2. /\ ~In(r, {"new", "registering"})' /\ ~At(r, "new")' /\ ~In(r, Beginnings)'
        /\ ~At(r, "ready")' /\ ~In(r, Working)' /\ ~At(r, "reporting")' /\ ~At(r, "closing")'
        /\ In(r, Open)' => FailTo(r) = "aborting"
        /\ ~In(r, Over \cup {"new"})' => FailTo(r) = "aborting"
    BY <1>1, <1>3 DEF In, At, Beginnings, Working, Open, Over
  <2>3. ~At(r, "registering")'
    BY <1>1, <1>3 DEF At
  <2> QED
    BY <1>1, <1>3, <1>4, <2>1, <2>2, <2>3, SameRecords DEF ProgressOf
<1>6. GroundsOf(r)' /\ ProjectingOf(r)'
  BY <1>1, <1>3 DEF GroundsOf, ProjectingOf, HasAttempt, In, At
<1> QED
  BY <1>5, <1>6

\* An append by r: it is enough to see what r relies on afterwards, and that a
\* loop is not refused where nobody would close its run.
LEMMA PutsStep ==
    ASSUME IInv, NEW r \in Run, NEW e, NEW s \in Steps \ {"contextSync", "syncing"},
           e.run = r, Identified(e), Grounded(e), In(r, Open \cup {"registering"}),
           Puts(r, e, s),
           Recorded(e) /\ Goto(r, s) => ProgressOf(r)' /\ GroundsOf(r)' /\ ClosesOf(r)',
           Log!Refuses(journal, e) /\ In(r, {"registering", "closing", "aborting"}) => r \notin Loop
    PROVE  IInv'
<1>1. /\ lock = Free /\ UNCHANGED <<knowledge, rows, lock, files, raised, faulted>>
      /\ \/ Adds(e) /\ Goto(r, s)
         \/ e \in Stored /\ UNCHANGED journal /\ Goto(r, s)
         \/ Log!Refuses(journal, e) /\ UNCHANGED journal /\ Goto(r, FailTo(r))
  BY DEF Puts, Adds, Log!Resent, Stored
<1>2. TypeOK /\ JournalInv /\ RunInv(r) /\ EvidenceBeforeCopies
  BY DEF IInv
<1>3. \A q \in Run : ~In(q, {"contextSync", "syncing"})
  BY <1>1, FreeAssumption DEF IInv, RunInv, ProjectingOf
<1>4. CASE Recorded(e) /\ Goto(r, s)
  <2>1. /\ proc' \in [Run -> [pc : Steps, gen : Nat, tries : 0..MaxTries, atts : Nat,
                              cond : Condition, view : Seq(Entry), injected : BOOLEAN]]
        /\ proc'[r].pc = s /\ \A q \in Run : q # r => proc'[q] = proc[q]
    BY <1>2, <1>4, GotoType
  <2>2. journal' \in Seq(Shaped) /\ JournalInv' /\ EvidenceBeforeCopies'
    <3>1. CASE Adds(e)
      BY <1>1, <1>2, <3>1, Added, AddsKeepsJournal, CopiesKeep
    <3>2. CASE UNCHANGED journal
      <4>1. JournalInv'
        BY <1>2, <3>2 DEF JournalInv, Identities, Stored, Grounded, ManifestStored,
                          AttemptStored, Finished, OfKind
      <4> QED
        BY <1>1, <1>2, <3>2, <4>1, CopiesKeep DEF TypeOK
    <3> QED
      BY <1>4, <3>1, <3>2 DEF Recorded
  <2>3. TypeOK'
    BY <1>1, <1>2, <2>1, <2>2 DEF TypeOK
  <2>4. RunInv(r)'
    BY <1>4, <2>1 DEF RunInv, ProjectingOf, In
  <2>5. \A q \in Run : q # r => Log!Related(journal', q) = Log!Related(journal, q)
    BY <1>2, <1>4, NewRecords
  <2> QED
    BY <1>1, <1>3, <2>1, <2>2, <2>3, <2>4, <2>5, Assemble
<1>5. CASE Log!Refuses(journal, e) /\ UNCHANGED journal /\ Goto(r, FailTo(r))
  <2>1. FailTo(r) \in Steps
    BY DEF FailTo, Steps
  <2>2. /\ proc' \in [Run -> [pc : Steps, gen : Nat, tries : 0..MaxTries, atts : Nat,
                              cond : Condition, view : Seq(Entry), injected : BOOLEAN]]
        /\ proc'[r].pc = FailTo(r) /\ \A q \in Run : q # r => proc'[q] = proc[q]
    BY <1>2, <1>5, <2>1, GotoType
  <2>3. JournalInv' /\ EvidenceBeforeCopies'
    <3>1. JournalInv'
      BY <1>2, <1>5 DEF JournalInv, Identities, Stored, Grounded, ManifestStored,
                        AttemptStored, Finished, OfKind
    <3> QED
      BY <1>1, <1>2, <1>5, <3>1, CopiesKeep
  <2>4. TypeOK'
    BY <1>1, <1>2, <1>5, <2>2 DEF TypeOK
  <2>5. ClosesOf(r)'
    <3>1. r \in Loop => FailTo(r) = "aborting"
      BY <1>5 DEF FailTo
    <3> QED
      BY <2>2, <3>1 DEF ClosesOf, In
  <2>6. RunInv(r)'
    BY <1>2, <1>5, <2>5, Fails DEF RunInv
  <2> QED
    BY <1>1, <1>3, <1>5, <2>2, <2>3, <2>4, <2>6, Assemble
<1> QED
  BY <1>1, <1>4, <1>5 DEF Recorded
-----------------------------------------------------------------------------
(* Steps that append to the journal. *)

\* Identities of two parts are taken by their own run's event only.
LEMMA TakenBy ==
    ASSUME TypeOK, Identities, NEW x \in Stored, NEW r, NEW k \in {"run", "manifest", "end"},
           x.id = <<k, r>>
    PROVE  x \in Log!Related(journal, r) /\ x.kind = k
<1>1. x \in Shaped /\ x.kind \in Kinds
  BY StoredType, Shape DEF TypeOK, Stored
<1>2. x.kind \in {"run", "manifest", "end"}
  BY <1>1 DEF Identities, Identified, Kinds
<1>3. <<x.kind, x.run>> = <<k, r>>
  BY <1>2 DEF Identities, Identified
<1> QED
  BY <1>3 DEF Log!Related, Stored

LEMMA RegisterAdmitted ==
    ASSUME IInv, NEW r \in Run, At(r, "registering")
    PROVE  Log!Admits(journal, RunEvent(r))
<1> DEFINE e == RunEvent(r)
<1>1. e.id = <<"run", r>> /\ e.kind = "run" /\ e.run = r
  BY DEF RunEvent
<1>2. e \in Shaped
  <2>1. e.id \in Id /\ e.payload \in ShapeOf("run")
    BY SessionAssumption DEF RunEvent, Id, ShapeOf
  <2>2. e \in Shapes("run")
    BY <2>1 DEF RunEvent, Shapes
  <2> QED
    BY <2>2 DEF Shaped
<1>3. Log!Related(journal, r) = {}
  BY DEF IInv, RunInv, ProgressOf, In, At
<1>4. ~Log!Taken(journal, e)
  BY <1>1, <1>3, TakenBy DEF IInv, JournalInv, Log!Taken, Stored
<1> HIDE DEF e
<1>5. Log!Admits(journal, e)
  BY <1>1, <1>2, <1>3, <1>4 DEF Log!Admits, Log!Closed
<1> QED
  BY <1>5 DEF e

LEMMA EndAdmitted ==
    ASSUME IInv, NEW r \in Run, In(r, Open), NEW s \in {"COMPLETED", "FAILED"}
    PROVE  Log!Admits(journal, EndEvent(r, s))
<1> DEFINE e == EndEvent(r, s)
<1>1. e.id = <<"end", r>> /\ e.kind = "end" /\ e.run = r
  BY DEF EndEvent
<1>2. e \in Shaped
  <2>1. e.id \in Id /\ e.payload \in ShapeOf("end")
    BY DEF EndEvent, Id, ShapeOf
  <2>2. e \in Shapes("end")
    BY <2>1 DEF EndEvent, Shapes
  <2> QED
    BY <2>2 DEF Shaped
<1>3. Log!Registered(journal, r) /\ ~Log!Closed(journal, r)
  BY DEF IInv, RunInv, ProgressOf, Registered
<1>4. ~Log!Taken(journal, e)
  <2>1. ASSUME NEW x \in Stored, x.id = e.id PROVE FALSE
    <3>1. x \in Log!Related(journal, r) /\ x.kind = "end"
      BY <1>1, <2>1, TakenBy DEF IInv, JournalInv
    <3> QED
      BY <1>3, <3>1 DEF Log!Closed
  <2> QED
    BY <2>1 DEF Log!Taken, Stored
<1> HIDE DEF e
<1>5. Log!Admits(journal, e)
  BY <1>1, <1>2, <1>3, <1>4 DEF Log!Admits
<1> QED
  BY <1>5 DEF e

LEMMA RegisterStep == ASSUME IInv, NEW r \in Run, Register(r) PROVE IInv'
<1> DEFINE e == RunEvent(r)
           s == IF r \in Standalone THEN "freezing" ELSE "starting"
<1>1. At(r, "registering") /\ Puts(r, e, s)
  BY DEF Register
<1>2. e.run = r /\ e.kind = "run" /\ Identified(e) /\ Grounded(e)
  BY DEF RunEvent, Identified, Grounded
<1>3. s \in {"freezing", "starting"} /\ s \in Steps \ {"contextSync", "syncing"}
  BY DEF Steps
<1>4. /\ TypeOK /\ Log!Related(journal, r) = {} /\ proc[r].gen = 1 /\ proc[r].tries = 0
      /\ 1 \in 1..Requested[r] /\ 0 \in 0..Requested[r]
  BY <1>1, SessionAssumption DEF IInv, RunInv, ProgressOf, In, At, Over, Beginnings
<1>5. Log!Admits(journal, e)
  BY <1>1, RegisterAdmitted
<1> HIDE DEF e, s
<1>6. ASSUME Recorded(e), Goto(r, s) PROVE ProgressOf(r)' /\ GroundsOf(r)' /\ ClosesOf(r)'
  <2>1. proc'[r].pc = s /\ proc'[r].gen = 1 /\ proc'[r].tries = 0
    BY <1>3, <1>4, <1>6, GotoType
  <2>2. Finished(r)' = {} /\ Registered(r)' /\ ~Log!Closed(journal', r)
    <3>1. Finished(r) = {} /\ ~Log!Closed(journal, r)
      BY <1>4 DEF Finished, OfKind, Log!Closed
    <3> QED
      BY <1>2, <1>4, <1>6, <3>1, NewRecords
  <2>3. 1..0 = {} /\ 1..(1 - 1) = {}
    OBVIOUS
  <2>4. ProgressOf(r)'
    BY <1>3, <1>4, <2>1, <2>2, <2>3 DEF ProgressOf, In, At, Working, Open, Over
  <2> QED
    BY <1>3, <2>1, <2>4 DEF GroundsOf, ClosesOf, In, At, HasAttempt
<1>7. ~Log!Refuses(journal, e)
  BY <1>5 DEF Log!Refuses
<1>8. In(r, Open \cup {"registering"})
  BY <1>1 DEF In, At
<1> QED
  BY <1>1, <1>2, <1>3, <1>6, <1>7, <1>8, PutsStep

\* A record of an evaluation leaves the run open, in the same generation.
LEMMA StaysOpen ==
    ASSUME TypeOK, NEW r \in Run, NEW e, NEW s \in Steps, ProgressOf(r), In(r, Working), e.run = r,
           e.kind \in {"manifest", "attempt"}, Recorded(e), Goto(r, s),
           s \in Working \ (Beginnings \cup {"ready"})
    PROVE  ProgressOf(r)'
<1>1. proc'[r].pc = s /\ proc'[r].gen = proc[r].gen /\ proc'[r].tries = proc[r].tries
  BY GotoType
<1>2. Finished(r)' = Finished(r) /\ Registered(r)' /\ ~Log!Closed(journal', r)
  BY NewRecords DEF ProgressOf, In, Working
<1>3. /\ proc[r].gen \in 1..Requested[r] /\ Finished(r) = 1..(proc[r].gen - 1)
      /\ \E n \in 0..Requested[r] : Finished(r) = 1..n
  BY DEF ProgressOf, In, Working, Open
<1> QED
  BY <1>1, <1>2, <1>3 DEF ProgressOf, In, At, Working, Open, Over, Beginnings

LEMMA FreezeStep == ASSUME IInv, NEW r \in Run, Freeze(r) PROVE IInv'
<1> DEFINE e == ManifestEvent(r, proc[r].cond)
<1>1. At(r, "freezing") /\ Puts(r, e, "measuring")
  BY DEF Freeze
<1>2. /\ e.run = r /\ e.kind = "manifest" /\ e.payload.key = proc[r].cond
      /\ Identified(e) /\ Grounded(e)
  BY DEF ManifestEvent, Identified, Grounded
<1>3. TypeOK /\ ProgressOf(r) /\ In(r, Working)
  BY <1>1 DEF IInv, RunInv, In, At, Working, Open, Steps, Over
<1>4. /\ "measuring" \in Steps \ {"contextSync", "syncing"}
      /\ "measuring" \in Working \ (Beginnings \cup {"ready"})
  BY DEF Steps, Working, Open, Over, Beginnings
<1> HIDE DEF e
<1>5. ASSUME Recorded(e), Goto(r, "measuring")
      PROVE  ProgressOf(r)' /\ GroundsOf(r)' /\ ClosesOf(r)'
  <2>1. proc'[r].pc = "measuring" /\ proc'[r].cond = proc[r].cond
    BY <1>3, <1>4, <1>5, GotoType
  <2>2. ProgressOf(r)'
    BY <1>2, <1>3, <1>4, <1>5, StaysOpen
  <2>3. ManifestStored(r, proc[r].cond)'
    <3>1. e \in OfKind(r, "manifest")'
      BY <1>2, <1>3, <1>5, NewRecords
    <3>2. e.payload.key = proc'[r].cond
      BY <1>2, <2>1
    <3> QED
      BY <3>1, <3>2 DEF ManifestStored
  <2> QED
    BY <2>1, <2>2, <2>3 DEF GroundsOf, ClosesOf, In, At, HasAttempt
<1>6. In(r, Open \cup {"registering"}) /\ ~In(r, {"registering", "closing", "aborting"})
  BY <1>1, <1>3 DEF In, At, Working
<1> QED
  BY <1>1, <1>2, <1>4, <1>5, <1>6, PutsStep

\* An attempt is recorded, with candidates measured under the run's manifest.
LEMMA AttemptStep ==
    ASSUME IInv, NEW r \in Run, NEW st, NEW cs, NEW s,
           In(r, Working \ Beginnings),
           Puts(r, AttemptEvent(r, Attempt(r), proc[r].gen, st, cs), s),
           s \in Working \ (Beginnings \cup {"ready", "measuring", "contextSync", "syncing"}),
           s \in HasAttempt => st = "COMPLETED",
           \A i \in DOMAIN cs : ManifestStored(r, cs[i].data)
    PROVE  IInv'
<1> DEFINE e == AttemptEvent(r, Attempt(r), proc[r].gen, st, cs)
<1>1. /\ e.run = r /\ e.kind = "attempt" /\ Identified(e) /\ Grounded(e)
      /\ e.payload.attempt = Attempt(r) /\ e.payload.generation = proc[r].gen
      /\ e.payload.status = st
  BY DEF AttemptEvent, Identified, Grounded, Attempt
<1>2. TypeOK /\ ProgressOf(r) /\ In(r, Working)
  BY DEF IInv, RunInv, In
<1>3. s \in Steps \ {"contextSync", "syncing"} /\ s \in Working \ (Beginnings \cup {"ready"})
  BY DEF Working, Open
<1>4. Puts(r, e, s)
  OBVIOUS
<1> HIDE DEF e
<1>5. ASSUME Recorded(e), Goto(r, s) PROVE ProgressOf(r)' /\ GroundsOf(r)' /\ ClosesOf(r)'
  <2>1. proc'[r].pc = s /\ Attempt(r)' = Attempt(r) /\ proc'[r].gen = proc[r].gen
    BY <1>2, <1>3, <1>5, GotoType
  <2>2. ProgressOf(r)'
    BY <1>1, <1>2, <1>3, <1>5, StaysOpen
  <2>3. s \in HasAttempt => AttemptStored(r, Attempt(r), proc[r].gen)'
    <3>1. e \in OfKind(r, "attempt")'
      BY <1>1, <1>2, <1>5, NewRecords
    <3>2. e.payload.attempt = Attempt(r)' /\ e.payload.generation = proc'[r].gen
      BY <1>1, <2>1
    <3> QED
      BY <1>1, <3>1, <3>2 DEF AttemptStored
  <2> QED
    BY <1>3, <2>1, <2>2, <2>3 DEF GroundsOf, ClosesOf, In, At, Working, Open, Over
<1>6. In(r, Open \cup {"registering"}) /\ ~In(r, {"registering", "closing", "aborting"})
  BY <1>2 DEF In, Working, Open
<1> QED
  BY <1>1, <1>3, <1>4, <1>5, <1>6, PutsStep

LEMMA RecordSteps ==
    ASSUME IInv, NEW r \in Run, RecordCompleted(r) \/ RecordUnverified(r) \/ RecordFailed(r)
    PROVE  IInv'
<1>1. CASE RecordCompleted(r)
  <2>1. PICK outcome \in Outcomes :
            Puts(r, AttemptEvent(r, Attempt(r), proc[r].gen, "COMPLETED",
                                 Measured(outcome, proc[r].cond)), "projecting")
    BY <1>1 DEF RecordCompleted
  <2> DEFINE cs == Measured(outcome, proc[r].cond)
  <2>2. At(r, "measuring")
    BY <1>1 DEF RecordCompleted
  <2>3. ManifestStored(r, proc[r].cond)
    BY <2>2 DEF IInv, RunInv, GroundsOf
  <2>4. \A i \in DOMAIN cs : cs[i].data = proc[r].cond
    BY DEF Measured
  <2>5. \A i \in DOMAIN cs : ManifestStored(r, cs[i].data)
    BY <2>3, <2>4
  <2>6. /\ In(r, Working \ Beginnings)
        /\ "projecting" \in Working \ (Beginnings \cup {"ready", "measuring", "contextSync", "syncing"})
    BY <2>2 DEF In, At, Working, Open, Over, Steps, Beginnings
  <2> QED
    BY <2>1, <2>5, <2>6, AttemptStep
<1>2. CASE RecordUnverified(r)
  <2>1. At(r, "freezing")
        /\ Puts(r, AttemptEvent(r, Attempt(r), proc[r].gen, "COMPLETED", <<>>), "evaluated")
    BY <1>2 DEF RecordUnverified
  <2>2. /\ In(r, Working \ Beginnings)
        /\ "evaluated" \in Working \ (Beginnings \cup {"ready", "measuring", "contextSync", "syncing"})
    BY <2>1 DEF In, At, Working, Open, Over, Steps, Beginnings
  <2>3. \A i \in DOMAIN <<>> : ManifestStored(r, <<>>[i].data)
    OBVIOUS
  <2> QED
    BY <2>1, <2>2, <2>3, AttemptStep
<1>3. CASE RecordFailed(r)
  <2>1. At(r, "failing")
        /\ Puts(r, AttemptEvent(r, Attempt(r), proc[r].gen, "FAILED", <<>>), "retrying")
    BY <1>3 DEF RecordFailed
  <2>2. /\ In(r, Working \ Beginnings) /\ "retrying" \notin HasAttempt
        /\ "retrying" \in Working \ (Beginnings \cup {"ready", "measuring", "contextSync", "syncing"})
    BY <2>1 DEF In, At, Working, Open, Over, Steps, Beginnings, HasAttempt
  <2>3. \A i \in DOMAIN <<>> : ManifestStored(r, <<>>[i].data)
    OBVIOUS
  <2> QED
    BY <2>1, <2>2, <2>3, AttemptStep
<1> QED
  BY <1>1, <1>2, <1>3

\* The final record of a generation: it names a stored attempt, or none.
LEMMA GenerationStep ==
    ASSUME IInv, NEW r \in Run, NEW st, NEW a, NEW s \in {"closing", "reporting"},
           In(r, {"retrying", "evaluated"}),
           Puts(r, GenerationEvent(r, proc[r].gen, st, a), s),
           a # NoAttempt => AttemptStored(r, a, proc[r].gen),
           s = "closing" => proc[r].gen = Requested[r]
    PROVE  IInv'
<1> DEFINE e == GenerationEvent(r, proc[r].gen, st, a)
<1>1. /\ e.run = r /\ e.kind = "generation" /\ Identified(e) /\ Grounded(e)
      /\ e.payload.generation = proc[r].gen
  BY DEF GenerationEvent, Identified, Grounded
<1>2. TypeOK /\ ProgressOf(r) /\ In(r, Working)
  BY DEF IInv, RunInv, In, Working, Open, Over, Steps
<1>3. s \in Steps \ {"contextSync", "syncing"}
  BY DEF Steps
<1>4. Puts(r, e, s)
  OBVIOUS
<1>5. /\ proc[r].gen \in 1..Requested[r] /\ Finished(r) = 1..(proc[r].gen - 1)
      /\ Requested[r] \in Nat /\ Registered(r) /\ ~Log!Closed(journal, r)
  BY <1>2, SessionAssumption DEF ProgressOf, In, Working, Open
<1> HIDE DEF e
<1>6. ASSUME Recorded(e), Goto(r, s) PROVE ProgressOf(r)' /\ GroundsOf(r)' /\ ClosesOf(r)'
  <2>1. proc'[r].pc = s /\ proc'[r].gen = proc[r].gen
    BY <1>2, <1>3, <1>6, GotoType
  <2>2. /\ Finished(r)' = Finished(r) \cup {proc[r].gen}
        /\ Registered(r)' /\ ~Log!Closed(journal', r)
    BY <1>1, <1>2, <1>5, <1>6, NewRecords
  <2>3. Finished(r)' = 1..proc[r].gen /\ proc[r].gen \in 0..Requested[r]
    BY <1>5, <2>2
  <2>4. ProgressOf(r)'
    BY <1>5, <2>1, <2>2, <2>3 DEF ProgressOf, In, At, Working, Open, Over, Beginnings
  <2> QED
    BY <2>1, <2>4 DEF GroundsOf, ClosesOf, In, At, HasAttempt
<1>7. In(r, Open \cup {"registering"}) /\ ~In(r, {"registering", "closing", "aborting"})
  BY <1>2 DEF In, Working, Open
<1> QED
  BY <1>1, <1>3, <1>4, <1>6, <1>7, PutsStep

LEMMA FinishSteps ==
    ASSUME IInv, NEW r \in Run, FinishDegraded(r) \/ FinishGeneration(r)
    PROVE  IInv'
<1>1. CASE FinishDegraded(r)
  <2>1. /\ In(r, {"retrying", "evaluated"})
        /\ Puts(r, GenerationEvent(r, proc[r].gen, "DEGRADED", NoAttempt), "reporting")
    BY <1>1 DEF FinishDegraded, In, At
  <2> QED
    BY <2>1, GenerationStep
<1>2. CASE FinishGeneration(r)
  <2> DEFINE s == IF r \in Standalone THEN "closing" ELSE "reporting"
  <2>1. /\ At(r, "evaluated") /\ In(r, {"retrying", "evaluated"})
        /\ Puts(r, GenerationEvent(r, proc[r].gen, "COMPLETED", Attempt(r)), s)
    BY <1>2 DEF FinishGeneration, In, At
  <2>2. AttemptStored(r, Attempt(r), proc[r].gen)
    BY <2>1 DEF IInv, RunInv, GroundsOf, HasAttempt, In, At
  <2>3. s = "closing" => proc[r].gen = Requested[r]
    <3>1. proc[r].gen \in 1..Requested[r]
      BY <2>1 DEF IInv, RunInv, ProgressOf, In, At, Over
    <3> QED
      BY <3>1, SessionAssumption
  <2> QED
    BY <2>1, <2>2, <2>3, GenerationStep
<1> QED
  BY <1>1, <1>2

\* The end of a run is never refused.
LEMMA EndStep ==
    ASSUME IInv, NEW r \in Run, NEW st \in {"COMPLETED", "FAILED"}, NEW s \in {"done", "raised"},
           In(r, {"closing", "aborting"}), Puts(r, EndEvent(r, st), s),
           st = "COMPLETED" => At(r, "closing")
    PROVE  IInv'
<1> DEFINE e == EndEvent(r, st)
<1>1. In(r, Open)
  BY DEF In, Open, Over, Steps
<1>2. TypeOK /\ ProgressOf(r) /\ \E n \in 0..Requested[r] : Finished(r) = 1..n
  BY DEF IInv, RunInv, ProgressOf
<1>3. e.run = r /\ e.kind = "end" /\ Identified(e) /\ Grounded(e)
  <2>1. st = "COMPLETED" => Finished(r) = 1..Requested[r]
    BY <1>2 DEF ProgressOf
  <2> QED
    BY <2>1 DEF EndEvent, Identified, Grounded
<1>4. s \in Steps \ {"contextSync", "syncing"}
  BY DEF Steps
<1>5. Puts(r, e, s)
  OBVIOUS
<1>6. ~Log!Refuses(journal, e)
  BY <1>1, EndAdmitted DEF Log!Refuses
<1> HIDE DEF e
<1>7. ASSUME Recorded(e), Goto(r, s) PROVE ProgressOf(r)' /\ GroundsOf(r)' /\ ClosesOf(r)'
  <2>1. proc'[r].pc = s
    BY <1>2, <1>4, <1>7, GotoType
  <2>2. Finished(r)' = Finished(r) /\ Log!Closed(journal', r)
    BY <1>2, <1>3, <1>7, NewRecords
  <2> QED
    BY <1>2, <2>1, <2>2 DEF ProgressOf, GroundsOf, ClosesOf, In, At, HasAttempt, Working, Open,
                            Over, Beginnings
<1>8. In(r, Open \cup {"registering"})
  BY <1>1 DEF In
<1> QED
  BY <1>3, <1>4, <1>5, <1>6, <1>7, <1>8, PutsStep

LEMMA CloseSteps ==
    ASSUME IInv, NEW r \in Run, Close(r) \/ Abort(r)
    PROVE  IInv'
<1>1. CASE Close(r)
  BY <1>1, EndStep DEF Close, In, At
<1>2. CASE Abort(r)
  BY <1>2, EndStep DEF Abort, In, At
<1> QED
  BY <1>1, <1>2
-----------------------------------------------------------------------------
(* Steps that leave the journal alone. *)

Proc == [pc : Steps, gen : Nat, tries : 0..MaxTries, atts : Nat,
         cond : Condition, view : Seq(Entry), injected : BOOLEAN]

\* A run that files rows has a stored attempt for them.
LEMMA FiledKeeps ==
    ASSUME IInv, NEW r \in Run, In(r, HasAttempt), UNCHANGED <<journal, knowledge>>,
           rows' = rows \cup {Attempt(r)}
    PROVE  EvidenceBeforeCopies'
<1>1. Attempt(r) \in Attempts("COMPLETED")
  <2>1. PICK x \in OfKind(r, "attempt") :
            x.payload.attempt = Attempt(r) /\ x.payload.status = "COMPLETED"
    BY DEF IInv, RunInv, GroundsOf, AttemptStored
  <2> QED
    BY <2>1 DEF Attempts, OfKind, Log!Related
<1> QED
  BY <1>1 DEF IInv, EvidenceBeforeCopies, Known, Attempts

\* A step that moves one process, and may file rows.
LEMMA MoveStep ==
    ASSUME IInv, NEW r \in Run, UNCHANGED <<journal, knowledge, lock, files, faulted>>,
           raised' \subseteq AttemptId,
           rows' = rows \/ (rows' = rows \cup {Attempt(r)} /\ In(r, HasAttempt)),
           proc' \in [Run -> Proc], \A q \in Run : q # r => proc'[q] = proc[q],
           proc'[r].pc \notin {"contextSync", "syncing", "done"},
           proc'[r].pc = "raised" => r \notin Loop,
           ProgressOf(r)', GroundsOf(r)'
    PROVE  IInv'
<1>1. JournalInv'
  BY DEF IInv, JournalInv, Identities, Stored, Grounded, ManifestStored, AttemptStored,
         Finished, OfKind
<1>2. EvidenceBeforeCopies'
  BY CopiesKeep, FiledKeeps DEF IInv
<1>3. Attempt(r) \in AttemptId
  BY DEF IInv, TypeOK, Attempt, AttemptId
<1>4. TypeOK'
  BY <1>3 DEF IInv, TypeOK, Proc
<1>5. RunInv(r)'
  BY DEF RunInv, ProjectingOf, ClosesOf, In
<1> QED
  BY <1>1, <1>2, <1>4, <1>5, Assemble

\* The process after a step that sets some of its fields.
LEMMA Moved ==
    ASSUME TypeOK, NEW r \in Run, NEW p \in Proc, proc' = [proc EXCEPT ![r] = p]
    PROVE  /\ proc' \in [Run -> Proc] /\ proc'[r] = p
           /\ \A q \in Run : q # r => proc'[q] = proc[q]
BY DEF TypeOK, Proc

LEMMA BeginStep == ASSUME IInv, NEW r \in Run, Begin(r) PROVE IInv'
<1> DEFINE p == [proc[r] EXCEPT !.pc = "registering", !.gen = 1,
                                !.atts = IF r \in Standalone THEN 1 ELSE 0, !.cond = files]
<1>1. /\ At(r, "new") /\ UNCHANGED <<journal, knowledge, rows, lock, files, raised, faulted>>
      /\ TypeOK /\ proc[r] \in Proc /\ files \in Condition /\ proc' = [proc EXCEPT ![r] = p]
  BY DEF Begin, IInv, TypeOK, Proc
<1>2. p \in Proc /\ p.pc = "registering" /\ p.gen = 1 /\ p.tries = proc[r].tries
  BY <1>1 DEF Proc, Steps
<1> HIDE DEF p
<1>3. /\ proc' \in [Run -> Proc] /\ proc'[r] = p
      /\ \A q \in Run : q # r => proc'[q] = proc[q]
  BY <1>1, <1>2, Moved
<1>4. Log!Related(journal, r) = {} /\ proc[r].tries = 0 /\ 1 \in 1..Requested[r]
  BY <1>1, SessionAssumption DEF IInv, RunInv, ProgressOf, In, At, Beginnings
<1>5. \E n \in 0..Requested[r] : Finished(r)' = 1..n
  BY <1>1, SameRecords DEF IInv, RunInv, ProgressOf
<1>6. ProgressOf(r)'
  BY <1>1, <1>2, <1>3, <1>4, <1>5 DEF ProgressOf, In, At, Working, Open, Beginnings, Over
<1>7. GroundsOf(r)'
  BY <1>2, <1>3 DEF GroundsOf, In, At, HasAttempt
<1> QED
  BY <1>1, <1>2, <1>3, <1>6, <1>7, MoveStep DEF IInv, TypeOK

\* A run goes on with its generation, or to the next one.
LEMMA GoesOn ==
    ASSUME IInv, NEW r \in Run, NEW p \in Proc, proc' = [proc EXCEPT ![r] = p],
           UNCHANGED <<journal, knowledge, lock, files, faulted>>,
           raised' \subseteq AttemptId,
           rows' = rows \/ (rows' = rows \cup {Attempt(r)} /\ In(r, HasAttempt)),
           In(r, Open),
           p.pc \in Working \ {"contextSync", "syncing"},
           p.gen \in 1..Requested[r],
           Finished(r) = 1..(p.gen - 1),
           p.pc \in Beginnings => p.tries = 0,
           p.pc = "ready" => p.tries < MaxTries,
           p.pc \in HasAttempt => In(r, HasAttempt) /\ p.atts = proc[r].atts /\ p.gen = proc[r].gen,
           p.pc # "measuring"
    PROVE  IInv'
<1>1. /\ proc' \in [Run -> Proc] /\ proc'[r] = p
      /\ \A q \in Run : q # r => proc'[q] = proc[q]
  BY Moved DEF IInv
<1>2. /\ Registered(r)' /\ ~Log!Closed(journal', r) /\ Finished(r)' = 1..(p.gen - 1)
      /\ p.gen - 1 \in 0..Requested[r]
  BY SameRecords, SessionAssumption DEF IInv, RunInv, ProgressOf
<1>3. ProgressOf(r)'
  BY <1>1, <1>2 DEF ProgressOf, In, At, Working, Open, Over
<1>4. GroundsOf(r)'
  <2> SUFFICES ASSUME p.pc \in HasAttempt PROVE AttemptStored(r, Attempt(r), proc[r].gen)'
    BY <1>1 DEF GroundsOf, In, At
  <2>1. PICK a, g : a = Attempt(r) /\ g = proc[r].gen
    OBVIOUS
  <2>2. AttemptStored(r, a, g)
    BY <2>1 DEF IInv, RunInv, GroundsOf
  <2>3. AttemptStored(r, a, g)'
    BY <2>2, SameRecords
  <2>4. Attempt(r)' = a /\ proc'[r].gen = g
    BY <1>1, <2>1 DEF Attempt
  <2> QED
    BY <2>3, <2>4 DEF AttemptStored
<1>5. proc'[r].pc \notin {"contextSync", "syncing", "done", "raised"}
  BY <1>1 DEF Working, Open, Over
<1> QED
  BY <1>1, <1>3, <1>4, <1>5, MoveStep

\* What GoesOn asks of the generation, when it stays the same.
LEMMA SameGeneration ==
    ASSUME IInv, NEW r \in Run, In(r, Working)
    PROVE  /\ In(r, Open) /\ proc[r] \in Proc
           /\ proc[r].gen \in 1..Requested[r] /\ Finished(r) = 1..(proc[r].gen - 1)
           /\ In(r, Beginnings) => proc[r].tries = 0
           /\ 0 < MaxTries /\ MaxTries \in Nat
BY SessionAssumption DEF IInv, TypeOK, RunInv, ProgressOf, In, Working, Open, Over, Proc

LEMMA GoSteps ==
    ASSUME IInv, NEW r \in Run, ReportStart(r) \/ Retry(r) \/ FileRows(r)
    PROVE  IInv'
<1>1. /\ UNCHANGED <<journal, knowledge, lock, files, raised, faulted>>
      /\ rows' = rows \/ (rows' = rows \cup {Attempt(r)} /\ In(r, HasAttempt))
      /\ raised' \subseteq AttemptId
  BY DEF ReportStart, Retry, FileRows, HasAttempt, In, At, IInv, TypeOK
<1>2. In(r, Working)
  BY DEF ReportStart, Retry, FileRows, In, At, Working, Open, Over, Steps
<1>3. PICK s : /\ Goto(r, s)
               /\ \/ At(r, "starting") /\ s \in {"context", "ready"}
                  \/ At(r, "retrying") /\ proc[r].tries < MaxTries /\ s = "ready"
                  \/ At(r, "filing") /\ s = "evaluated"
  BY DEF ReportStart, Retry, FileRows, Ready
<1> DEFINE p == [proc[r] EXCEPT !.pc = s]
<1>4. proc' = [proc EXCEPT ![r] = p]
  BY <1>3 DEF Goto, IInv, TypeOK
<1>5. s \in {"context", "ready", "evaluated"} /\ s \in Steps
  BY <1>3 DEF Steps
<1>6. /\ p \in Proc /\ p.pc = s /\ p.gen = proc[r].gen /\ p.tries = proc[r].tries
      /\ p.atts = proc[r].atts
  BY <1>2, <1>5, SameGeneration DEF Proc
<1> HIDE DEF p
<1>7. s \in Working \ {"contextSync", "syncing"}
  BY <1>5 DEF Working, Open, Over, Steps
<1>8. /\ s \in Beginnings => p.tries = 0
      /\ s = "ready" => p.tries < MaxTries
      /\ s \in HasAttempt => In(r, HasAttempt)
  BY <1>2, <1>3, <1>6, SameGeneration DEF In, At, Beginnings, HasAttempt
<1> QED
  BY <1>1, <1>2, <1>4, <1>5, <1>6, <1>7, <1>8, SameGeneration, GoesOn

LEMMA StartEvaluationStep == ASSUME IInv, NEW r \in Run, StartEvaluation(r) PROVE IInv'
<1> DEFINE p == [proc[r] EXCEPT !.pc = "freezing", !.tries = @ + 1, !.atts = @ + 1,
                                !.cond = files]
<1>1. /\ At(r, "ready") /\ UNCHANGED <<journal, knowledge, rows, lock, files, raised, faulted>>
      /\ proc[r] \in Proc /\ files \in Condition /\ proc' = [proc EXCEPT ![r] = p]
      /\ raised' \subseteq AttemptId
  BY DEF StartEvaluation, IInv, TypeOK, Proc
<1>2. proc[r].tries < MaxTries /\ proc[r].tries \in Nat /\ MaxTries \in Nat
  BY <1>1, SessionAssumption DEF IInv, RunInv, ProgressOf, Proc
<1>3. p \in Proc /\ p.pc = "freezing" /\ p.gen = proc[r].gen
  <2>1. proc[r].tries + 1 \in 0..MaxTries /\ proc[r].atts + 1 \in Nat
    BY <1>1, <1>2 DEF Proc
  <2> QED
    BY <1>1, <2>1 DEF Proc, Steps
<1> HIDE DEF p
<1>4. In(r, Working) /\ "freezing" \in Working \ {"contextSync", "syncing"}
  BY <1>1 DEF In, At, Working, Open, Over, Steps
<1> QED
  BY <1>1, <1>3, <1>4, SameGeneration, GoesOn DEF Beginnings, HasAttempt

LEMMA NextGenerationStep == ASSUME IInv, NEW r \in Run, NextGeneration(r) PROVE IInv'
<1>1. /\ At(r, "reporting") /\ UNCHANGED <<journal, knowledge, rows, lock, files, raised, faulted>>
      /\ TypeOK /\ proc[r] \in Proc /\ raised' \subseteq AttemptId
  BY DEF NextGeneration, IInv, TypeOK, Proc
<1>2. /\ proc[r].gen \in 1..Requested[r] /\ Finished(r) = 1..proc[r].gen /\ In(r, Open)
      /\ Requested[r] \in Nat /\ Registered(r) /\ ~Log!Closed(journal, r)
      /\ MaxTries \in Nat /\ 0 < MaxTries
  BY <1>1, SessionAssumption DEF IInv, RunInv, ProgressOf, In, At, Open, Over, Steps
<1>3. CASE proc[r].gen = Requested[r]
  <2> DEFINE p == [proc[r] EXCEPT !.pc = "closing"]
  <2>1. proc' = [proc EXCEPT ![r] = p]
    BY <1>1, <1>3 DEF NextGeneration, TypeOK
  <2>2. p \in Proc /\ p.pc = "closing" /\ p.gen = proc[r].gen
    BY <1>1 DEF Proc, Steps
  <2> HIDE DEF p
  <2>3. /\ proc' \in [Run -> Proc] /\ proc'[r] = p
        /\ \A q \in Run : q # r => proc'[q] = proc[q]
    BY <1>1, <2>1, <2>2, Moved
  <2>4. /\ Registered(r)' /\ ~Log!Closed(journal', r) /\ Finished(r)' = 1..Requested[r]
        /\ Requested[r] \in 0..Requested[r]
    BY <1>1, <1>2, <1>3, SameRecords
  <2>5. ProgressOf(r)'
    BY <1>2, <2>2, <2>3, <2>4 DEF ProgressOf, In, At, Working, Open, Over, Beginnings
  <2>6. GroundsOf(r)'
    BY <2>2, <2>3 DEF GroundsOf, In, At, HasAttempt
  <2> QED
    BY <1>1, <2>2, <2>3, <2>5, <2>6, MoveStep
<1>4. CASE proc[r].gen # Requested[r]
  <2> DEFINE p == [proc[r] EXCEPT !.pc = Ready(r), !.gen = @ + 1, !.tries = 0]
  <2>1. proc' = [proc EXCEPT ![r] = p]
    BY <1>1, <1>4 DEF NextGeneration, TypeOK
  <2>2. Ready(r) \in {"context", "ready"}
    BY DEF Ready
  <2>3. p \in Proc /\ p.pc = Ready(r) /\ p.gen = proc[r].gen + 1 /\ p.tries = 0
    <3>1. Ready(r) \in Steps /\ proc[r].gen + 1 \in Nat /\ 0 \in 0..MaxTries
      BY <1>2, <2>2 DEF Steps
    <3> QED
      BY <1>1, <3>1 DEF Proc
  <2> HIDE DEF p
  <2>4. /\ p.pc \in Working \ {"contextSync", "syncing"} /\ p.pc \notin HasAttempt
        /\ p.pc # "measuring"
    BY <2>2, <2>3 DEF Working, Open, Over, Steps, HasAttempt
  <2>5. p.gen \in 1..Requested[r] /\ p.gen - 1 = proc[r].gen
    BY <1>2, <1>4, <2>3
  <2> QED
    BY <1>1, <1>2, <2>1, <2>3, <2>4, <2>5, GoesOn
<1> QED
  BY <1>3, <1>4

LEMMA EvaluationRaisesStep == ASSUME IInv, NEW r \in Run, EvaluationRaises(r) PROVE IInv'
<1> DEFINE s == IF r \in Loop THEN "failing" ELSE "raised"
<1>1. /\ In(r, {"freezing", "measuring", "filing"})
      /\ UNCHANGED <<journal, knowledge, lock, files, faulted>>
      /\ rows' = rows \/ (rows' = rows \cup {Attempt(r)} /\ In(r, HasAttempt))
      /\ raised' = raised \cup {Attempt(r)} /\ Goto(r, s) /\ TypeOK
  BY DEF EvaluationRaises, HasAttempt, In, At, IInv
<1>2. raised' \subseteq AttemptId
  BY <1>1 DEF TypeOK, Attempt, AttemptId
<1>3. s \in {"failing", "raised"} /\ s \in Steps /\ (s = "raised" => r \notin Loop)
  BY DEF Steps
<1> HIDE DEF s
<1>4. /\ proc' \in [Run -> Proc] /\ proc'[r].pc = s /\ proc'[r].gen = proc[r].gen
      /\ \A q \in Run : q # r => proc'[q] = proc[q]
  BY <1>1, <1>3, GotoType DEF Proc
<1>5. /\ proc[r].gen \in 1..Requested[r] /\ Finished(r) = 1..(proc[r].gen - 1)
      /\ Registered(r) /\ ~Log!Closed(journal, r)
      /\ \E n \in 0..Requested[r] : Finished(r) = 1..n
  BY <1>1 DEF IInv, RunInv, ProgressOf, In, Working, Open, Over, Steps
<1>6. ProgressOf(r)'
  BY <1>1, <1>3, <1>4, <1>5, SameRecords
  DEF ProgressOf, In, At, Working, Open, Over, Beginnings
<1>7. GroundsOf(r)'
  BY <1>3, <1>4 DEF GroundsOf, In, At, HasAttempt
<1> QED
  BY <1>1, <1>2, <1>3, <1>4, <1>6, <1>7, MoveStep

LEMMA GiveUpStep == ASSUME IInv, NEW r \in Run, GiveUp(r) PROVE IInv'
<1>1. /\ In(r, {"context", "ready", "retrying", "reporting"}) /\ Goto(r, "aborting")
      /\ UNCHANGED <<journal, knowledge, rows, lock, files, raised, faulted>>
      /\ TypeOK /\ raised' \subseteq AttemptId /\ "aborting" \in Steps
  BY DEF GiveUp, IInv, TypeOK, Steps
<1>2. /\ proc' \in [Run -> Proc] /\ proc'[r].pc = "aborting" /\ proc'[r].gen = proc[r].gen
      /\ \A q \in Run : q # r => proc'[q] = proc[q]
  BY <1>1, GotoType DEF Proc
<1>3. /\ proc[r].gen \in 1..Requested[r] /\ Registered(r) /\ ~Log!Closed(journal, r)
      /\ \E n \in 0..Requested[r] : Finished(r) = 1..n
  BY <1>1 DEF IInv, RunInv, ProgressOf, In, Open, Over, Steps
<1>4. ProgressOf(r)'
  BY <1>1, <1>2, <1>3, SameRecords DEF ProgressOf, In, At, Working, Open, Over, Beginnings
<1>5. GroundsOf(r)'
  BY <1>2 DEF GroundsOf, In, At, HasAttempt
<1> QED
  BY <1>1, <1>2, <1>4, <1>5, MoveStep
-----------------------------------------------------------------------------
(* Steps that take or drop the lock, and the environment. *)

\* Nobody else is in the middle of a projection when the lock is free or r's.
LEMMA OneProjection ==
    ASSUME IInv, NEW r \in Run, lock \in {Free, r}, NEW q \in Run, q # r
    PROVE  ~In(q, {"contextSync", "syncing"})
BY FreeAssumption DEF IInv, RunInv, ProjectingOf

LEMMA SyncBeginStep == ASSUME IInv, NEW r \in Run, SyncBegin(r) PROVE IInv'
<1> DEFINE s == IF At(r, "context") THEN "contextSync" ELSE "syncing"
           v == Merge(knowledge, journal)
           p == [proc[r] EXCEPT !.pc = s, !.view = v]
<1>1. /\ In(r, {"context", "projecting"}) /\ lock = Free /\ lock' = r
      /\ UNCHANGED <<journal, knowledge, rows, files, raised, faulted>>
      /\ TypeOK /\ proc[r] \in Proc /\ proc' = [proc EXCEPT ![r] = p]
  BY DEF SyncBegin, IInv, TypeOK, Proc, At
<1>2. v \in Seq(Entry)
  BY <1>1, Merging DEF TypeOK
<1>3. /\ s \in {"contextSync", "syncing"} /\ s \in Steps
      /\ s = "contextSync" => At(r, "context")
      /\ s = "syncing" => At(r, "projecting")
  BY <1>1 DEF Steps, In, At
<1> HIDE DEF s, v
<1>4. /\ p \in Proc /\ p.pc = s /\ p.view = v /\ p.gen = proc[r].gen /\ p.tries = proc[r].tries
      /\ p.atts = proc[r].atts
  BY <1>1, <1>2, <1>3 DEF Proc
<1> HIDE DEF p
<1>5. /\ proc' \in [Run -> Proc] /\ proc'[r] = p
      /\ \A q \in Run : q # r => proc'[q] = proc[q]
  BY <1>1, <1>4, Moved
<1>6. /\ proc[r].gen \in 1..Requested[r] /\ Finished(r) = 1..(proc[r].gen - 1)
      /\ Registered(r) /\ ~Log!Closed(journal, r)
      /\ \E n \in 0..Requested[r] : Finished(r) = 1..n
      /\ At(r, "context") => proc[r].tries = 0
  BY <1>1 DEF IInv, RunInv, ProgressOf, In, At, Working, Open, Over, Steps, Beginnings
<1>7. ProgressOf(r)'
  BY <1>1, <1>3, <1>4, <1>5, <1>6, SameRecords
  DEF ProgressOf, In, At, Working, Open, Over, Beginnings
<1>8. GroundsOf(r)'
  <2> SUFFICES ASSUME s = "syncing" PROVE AttemptStored(r, Attempt(r), proc[r].gen)'
    BY <1>3, <1>4, <1>5 DEF GroundsOf, In, At, HasAttempt
  <2>1. PICK a, g : a = Attempt(r) /\ g = proc[r].gen
    OBVIOUS
  <2>2. AttemptStored(r, a, g)
    BY <1>3, <2>1 DEF IInv, RunInv, GroundsOf, HasAttempt, In, At
  <2>3. AttemptStored(r, a, g)'
    BY <1>1, <2>2, SameRecords
  <2>4. Attempt(r)' = a /\ proc'[r].gen = g
    BY <1>4, <1>5, <2>1 DEF Attempt
  <2> QED
    BY <2>3, <2>4 DEF AttemptStored
<1>9. ProjectingOf(r)' /\ ClosesOf(r)'
  BY <1>1, <1>3, <1>4, <1>5 DEF ProjectingOf, ClosesOf, In, v
<1>10. JournalInv' /\ EvidenceBeforeCopies'
  BY <1>1, CopiesKeep DEF IInv, JournalInv, Identities, Stored, Grounded, ManifestStored,
     AttemptStored, Finished, OfKind
<1>11. TypeOK'
  BY <1>1, <1>5 DEF TypeOK, Proc
<1> QED
  BY <1>1, <1>5, <1>7, <1>8, <1>9, <1>10, <1>11, OneProjection, Assemble DEF RunInv

\* The projection that is written is the one of the journal at that moment.
LEMMA Replaced ==
    ASSUME IInv, NEW r \in Run, SyncReplace(r)
    PROVE  /\ knowledge' = Merge(knowledge, journal) /\ knowledge' \in Seq(Entry)
           /\ journal \in Seq(Shaped) /\ knowledge \in Seq(Entry)
           /\ lock = r
<1>1. knowledge' = Merge(knowledge, journal) /\ lock = r
  BY DEF SyncReplace, IInv, RunInv, ProjectingOf
<1>2. journal \in Seq(Shaped) /\ knowledge \in Seq(Entry)
  BY DEF IInv, TypeOK
<1> QED
  BY <1>1, <1>2, Merging

LEMMA SyncReplaceStep == ASSUME IInv, NEW r \in Run, SyncReplace(r) PROVE IInv'
<1> DEFINE s == IF At(r, "contextSync") THEN "ready" ELSE "filing"
           p == [proc[r] EXCEPT !.pc = s, !.view = <<>>]
<1>1. /\ In(r, {"contextSync", "syncing"}) /\ lock' = Free
      /\ UNCHANGED <<journal, rows, files, raised, faulted>>
      /\ TypeOK /\ proc[r] \in Proc /\ proc' = [proc EXCEPT ![r] = p]
  BY DEF SyncReplace, IInv, TypeOK, Proc, At
<1>2. /\ s \in {"ready", "filing"} /\ s \in Steps
      /\ s = "ready" => At(r, "contextSync")
      /\ s = "filing" => At(r, "syncing")
  BY <1>1 DEF Steps, In, At
<1> HIDE DEF s
<1>3. /\ p \in Proc /\ p.pc = s /\ p.gen = proc[r].gen /\ p.tries = proc[r].tries
      /\ p.atts = proc[r].atts
  <2>1. <<>> \in Seq(Entry)
    OBVIOUS
  <2> QED
    BY <1>1, <1>2, <2>1 DEF Proc
<1> HIDE DEF p
<1>4. /\ proc' \in [Run -> Proc] /\ proc'[r] = p
      /\ \A q \in Run : q # r => proc'[q] = proc[q]
  BY <1>1, <1>3, Moved
<1>5. /\ proc[r].gen \in 1..Requested[r] /\ Finished(r) = 1..(proc[r].gen - 1)
      /\ Registered(r) /\ ~Log!Closed(journal, r)
      /\ \E n \in 0..Requested[r] : Finished(r) = 1..n
      /\ At(r, "contextSync") => proc[r].tries = 0
      /\ 0 < MaxTries
  BY <1>1, SessionAssumption
  DEF IInv, RunInv, ProgressOf, In, At, Working, Open, Over, Steps, Beginnings
<1>6. ProgressOf(r)'
  BY <1>1, <1>2, <1>3, <1>4, <1>5, SameRecords
  DEF ProgressOf, In, At, Working, Open, Over, Beginnings
<1>7. GroundsOf(r)'
  <2> SUFFICES ASSUME s = "filing" PROVE AttemptStored(r, Attempt(r), proc[r].gen)'
    BY <1>2, <1>3, <1>4 DEF GroundsOf, In, At, HasAttempt
  <2>1. PICK a, g : a = Attempt(r) /\ g = proc[r].gen
    OBVIOUS
  <2>2. AttemptStored(r, a, g)
    BY <1>2, <2>1 DEF IInv, RunInv, GroundsOf, HasAttempt, In, At
  <2>3. AttemptStored(r, a, g)'
    BY <1>1, <2>2, SameRecords
  <2>4. Attempt(r)' = a /\ proc'[r].gen = g
    BY <1>3, <1>4, <2>1 DEF Attempt
  <2> QED
    BY <2>3, <2>4 DEF AttemptStored
<1>8. ProjectingOf(r)' /\ ClosesOf(r)'
  BY <1>2, <1>3, <1>4 DEF ProjectingOf, ClosesOf, In
<1>9. JournalInv'
  BY <1>1 DEF IInv, JournalInv, Identities, Stored, Grounded, ManifestStored,
     AttemptStored, Finished, OfKind
<1>10. EvidenceBeforeCopies'
  <2>1. /\ ExperimentsOf(knowledge') = ExperimentsOf(knowledge) \cup Projected(journal)
        /\ Once(knowledge) => Once(knowledge')
    BY Replaced, Merging
  <2>2. Known' \subseteq Known \cup Projected(journal)
    BY <2>1 DEF Known, ExperimentsOf
  <2>3. Projected(journal') = Projected(journal)
    BY <1>1
  <2>4. Attempts("COMPLETED")' = Attempts("COMPLETED")
    BY <1>1 DEF Attempts
  <2> QED
    BY <1>1, <2>1, <2>2, <2>3, <2>4 DEF IInv, EvidenceBeforeCopies, Once
<1>11. TypeOK'
  BY <1>1, <1>4, Replaced DEF TypeOK, Proc
<1> QED
  BY <1>1, <1>4, <1>6, <1>7, <1>8, <1>9, <1>10, <1>11, Replaced, OneProjection, Assemble
  DEF RunInv

\* A failing store, a failing start and a kill: the lock is dropped if r had it.
LEMMA FailureSteps ==
    ASSUME IInv, NEW r \in Run, StoreFails(r) \/ StartFails(r) \/ Crash(r)
    PROVE  IInv'
<1>1. /\ UNCHANGED <<journal, knowledge, rows, files, raised>>
      /\ faulted' \in {faulted, faulted \cup {r}}
      /\ lock' \in {lock, IF lock = r THEN Free ELSE lock}
      /\ TypeOK /\ ProgressOf(r)
  BY DEF StoreFails, StartFails, Crash, IInv, RunInv
<1>2. /\ proc' \in [Run -> Proc] /\ \A q \in Run : q # r => proc'[q] = proc[q]
      /\ ProgressOf(r)' /\ GroundsOf(r)' /\ ProjectingOf(r)' /\ ClosesOf(r)'
  <2>1. CASE StoreFails(r)
    <3>1. /\ In(r, Open \cup {"registering"}) /\ Goto(r, FailTo(r)) /\ r \in faulted'
      BY <2>1 DEF StoreFails, In, Open, Over, Steps
    <3>2. FailTo(r) \in Steps
      BY DEF FailTo, Steps
    <3> QED
      BY <1>1, <3>1, <3>2, Fails, GotoType DEF ClosesOf, Proc
  <2>2. CASE StartFails(r)
    <3>1. Goto(r, "raised") /\ r \in faulted' /\ "raised" \in Steps
      BY <2>2 DEF StartFails, Steps
    <3>2. /\ proc' \in [Run -> Proc] /\ proc'[r].pc = "raised"
          /\ \A q \in Run : q # r => proc'[q] = proc[q]
      BY <1>1, <3>1, GotoType DEF Proc
    <3>3. \E n \in 0..Requested[r] : Finished(r)' = 1..n
      BY <1>1, SameRecords DEF ProgressOf
    <3>4. ProgressOf(r)'
      BY <3>2, <3>3 DEF ProgressOf, In, At, Working, Open, Over, Beginnings
    <3> QED
      BY <3>1, <3>2, <3>4 DEF GroundsOf, ProjectingOf, ClosesOf, In, At, HasAttempt
  <2>3. CASE Crash(r)
    <3> DEFINE p == [proc[r] EXCEPT !.pc = "dead", !.view = <<>>]
    <3>1. proc' = [proc EXCEPT ![r] = p]
      BY <2>3, <1>1 DEF Crash, TypeOK
    <3>2. p \in Proc /\ p.pc = "dead"
      <4>1. <<>> \in Seq(Entry) /\ "dead" \in Steps /\ proc[r] \in Proc
        BY <1>1 DEF TypeOK, Proc, Steps
      <4> QED
        BY <4>1 DEF Proc
    <3> HIDE DEF p
    <3>3. /\ proc' \in [Run -> Proc] /\ proc'[r] = p
          /\ \A q \in Run : q # r => proc'[q] = proc[q]
      BY <1>1, <3>1, <3>2, Moved
    <3>4. \E n \in 0..Requested[r] : Finished(r)' = 1..n
      BY <1>1, SameRecords DEF ProgressOf
    <3>5. ProgressOf(r)'
      BY <3>2, <3>3, <3>4 DEF ProgressOf, In, At, Working, Open, Over, Beginnings
    <3> QED
      BY <3>2, <3>3, <3>5 DEF GroundsOf, ProjectingOf, ClosesOf, In, At, HasAttempt
  <2> QED
    BY <2>1, <2>2, <2>3
<1>3. JournalInv' /\ EvidenceBeforeCopies'
  BY <1>1, CopiesKeep DEF IInv, JournalInv, Identities, Stored, Grounded, ManifestStored,
     AttemptStored, Finished, OfKind
<1>4. TypeOK'
  BY <1>1, <1>2 DEF TypeOK, Proc
<1>5. ASSUME NEW q \in Run, q # r, In(q, {"contextSync", "syncing"})
      PROVE  UNCHANGED <<lock, knowledge, journal>>
  BY <1>1, <1>5 DEF IInv, RunInv, ProjectingOf
<1> QED
  BY <1>1, <1>2, <1>3, <1>4, <1>5, Assemble DEF RunInv

LEMMA FilesStep == IInv /\ FilesChange => IInv'
<1> SUFFICES ASSUME IInv, FilesChange PROVE IInv'
  OBVIOUS
<1>1. UNCHANGED <<journal, knowledge, rows, lock, proc, raised, faulted>> /\ files' \in Condition
  BY DEF FilesChange
<1>2. JournalInv' /\ EvidenceBeforeCopies'
  BY <1>1, CopiesKeep DEF IInv, JournalInv, Identities, Stored, Grounded, ManifestStored,
     AttemptStored, Finished, OfKind
<1>3. \A q \in Run : RunInv(q)'
  BY <1>1, OthersKeep DEF IInv
<1>4. TypeOK'
  BY <1>1 DEF IInv, TypeOK
<1> QED
  BY <1>2, <1>3, <1>4 DEF IInv

-----------------------------------------------------------------------------
(* The invariant and its consequences. *)

LEMMA InitIInv == Init => IInv
<1> SUFFICES ASSUME Init PROVE IInv
  OBVIOUS
<1>1. /\ journal = <<>> /\ journal \in Seq(Shaped) /\ DOMAIN journal = {}
      /\ Log!Stored(journal) = {} /\ Stored = {}
      /\ \A r : Log!Related(journal, r) = {}
  BY DEF Init, Log!Stored, Log!Range, Stored, Log!Related
<1>2. \A r \in Run : /\ proc[r] \in Proc /\ proc[r].pc \in {"new", "dead"}
                     /\ proc[r].gen = 0 /\ proc[r].tries = 0
  <2>1. (CHOOSE c \in Condition : TRUE) \in Condition
    BY DEF Init
  <2>2. 0 \in 0..MaxTries /\ <<>> \in Seq(Entry)
    BY SessionAssumption
  <2> QED
    BY <2>1, <2>2 DEF Init, Proc, Steps
<1>3. DOMAIN proc = Run /\ proc = [r \in Run |-> proc[r]]
  BY DEF Init
<1>4. TypeOK
  <2>1. Legacy \in Entry
    BY DEF Legacy, Entry
  <2>2. knowledge \in Seq(Entry)
    BY <2>1 DEF Init
  <2>3. proc \in [Run -> Proc]
    BY <1>2, <1>3
  <2> QED
    BY <1>1, <2>2, <2>3 DEF Init, TypeOK, Proc
<1>5. JournalInv
  BY <1>1 DEF JournalInv, Identities, Log!Readable, Log!NoDuplicateRun, Log!NoOrphan, Log!AtMostOne
<1>6. ASSUME NEW r \in Run PROVE RunInv(r)
  <2>1. Finished(r) = {} /\ 1..0 = {} /\ 0 \in 0..Requested[r]
    BY <1>1, SessionAssumption DEF Finished, OfKind
  <2>2. ProgressOf(r)
    BY <1>1, <1>2, <2>1 DEF ProgressOf, In, At, Working, Open, Over, Beginnings
  <2> QED
    BY <1>2, <2>2 DEF RunInv, GroundsOf, ProjectingOf, ClosesOf, In, At, HasAttempt
<1>7. EvidenceBeforeCopies
  <2>1. DOMAIN knowledge = {1} /\ knowledge[1] = Legacy
    BY DEF Init
  <2> QED
    BY <2>1 DEF Init, EvidenceBeforeCopies, Known
<1> QED
  BY <1>4, <1>5, <1>6, <1>7 DEF IInv

LEMMA StepIInv == IInv /\ [Next]_vars => IInv'
<1> SUFFICES ASSUME IInv, [Next]_vars PROVE IInv'
  OBVIOUS
<1>1. ASSUME NEW r \in Run, Work(r) PROVE IInv'
  <2>1. CASE Register(r) \/ Freeze(r) \/ RecordCompleted(r) \/ RecordUnverified(r)
                \/ RecordFailed(r) \/ FinishDegraded(r) \/ FinishGeneration(r)
                \/ Close(r) \/ Abort(r)
    BY <2>1, RegisterStep, FreezeStep, RecordSteps, FinishSteps, CloseSteps
  <2>2. CASE Begin(r) \/ ReportStart(r) \/ StartEvaluation(r) \/ FileRows(r)
                \/ EvaluationRaises(r) \/ Retry(r) \/ NextGeneration(r) \/ GiveUp(r)
    BY <2>2, BeginStep, GoSteps, StartEvaluationStep, EvaluationRaisesStep,
       NextGenerationStep, GiveUpStep
  <2>3. CASE SyncBegin(r) \/ SyncReplace(r)
    BY <2>3, SyncBeginStep, SyncReplaceStep
  <2> QED
    BY <1>1, <2>1, <2>2, <2>3 DEF Work
<1>2. CASE UNCHANGED vars
  <2>1. UNCHANGED <<journal, knowledge, rows, lock, files, proc, raised, faulted>>
    BY <1>2 DEF vars
  <2>2. JournalInv' /\ EvidenceBeforeCopies'
    BY <2>1, CopiesKeep DEF IInv, JournalInv, Identities, Stored, Grounded, ManifestStored,
       AttemptStored, Finished, OfKind
  <2>3. \A q \in Run : RunInv(q)'
    BY <2>1, OthersKeep DEF IInv
  <2>4. TypeOK'
    BY <2>1 DEF IInv, TypeOK
  <2> QED
    BY <2>2, <2>3, <2>4 DEF IInv
<1> QED
  BY <1>1, <1>2, FailureSteps, FilesStep DEF Next

\* The inductive invariant holds of every behaviour of the runs.
THEOREM Invariance == Spec => []IInv
BY InitIInv, StepIInv, PTL DEF Spec

\* As many final records as generations are finished.
LEMMA Counting ==
    ASSUME IInv, NEW r \in Run, NEW n \in Nat, Finished(r) = 1..n
    PROVE  Cardinality(OfKind(r, "generation")) = n
<1> DEFINE S == OfKind(r, "generation")
           f == [e \in S |-> e.payload.generation]
<1>1. \A e, g \in S : e.payload.generation = g.payload.generation => e = g
  BY DEF OfKind, Log!Related, IInv, JournalInv, Identities, Identified, Stored
<1>2. f \in Injection(S, 1..n) /\ f \in Surjection(S, 1..n)
  <2>1. f \in [S -> 1..n]
    BY DEF Finished
  <2>2. f \in Injection(S, 1..n)
    BY <1>1, <2>1 DEF Injection, IsInjective
  <2>3. f \in Surjection(S, 1..n)
    BY <2>1 DEF Surjection, Finished
  <2> QED
    BY <2>2, <2>3
<1> HIDE DEF f, S
<1>3. IsFiniteSet(1..n) /\ Cardinality(1..n) = n
  BY FS_Interval
<1> QED
  BY <1>2, <1>3, FS_Injection DEF S

\* Whatever fails, the journal can be read, and _run_summary raises for none
\* of the runs in it.
THEOREM Readability == Spec => []ReadersAccept
<1>1. IInv => ReadersAccept
  <2> SUFFICES ASSUME IInv, NEW r \in Run, Registered(r) PROVE SummaryAccepts(r)
    BY DEF IInv, JournalInv, ReadersAccept
  <2>1. PICK n \in 0..Requested[r] : Finished(r) = 1..n
    BY DEF IInv, RunInv, ProgressOf
  <2>2. Requested[r] \in Nat
    BY SessionAssumption
  <2>3. \A m \in Nat : Finished(r) = 1..m => Cardinality(OfKind(r, "generation")) = m
    BY Counting
  <2>4. Cardinality(OfKind(r, "generation")) <= Requested[r]
    BY <2>1, <2>2, <2>3
  <2>5. \A e, f \in OfKind(r, "generation") :
            e.payload.generation = f.payload.generation => e = f
    BY DEF OfKind, Log!Related, IInv, JournalInv, Identities, Identified, Stored
  <2>6. \A e \in OfKind(r, "generation") : e.payload.attempt # NoAttempt =>
            AttemptStored(r, e.payload.attempt, e.payload.generation)
    BY DEF OfKind, Log!Related, IInv, JournalInv, Grounded, Stored
  <2>7. \A e \in OfKind(r, "end") : e.payload.status = "COMPLETED" =>
            Cardinality(OfKind(r, "generation")) = Requested[r]
    BY <2>2, <2>3 DEF OfKind, Log!Related, IInv, JournalInv, Grounded, Stored
  <2> QED
    BY <2>4, <2>5, <2>6, <2>7 DEF SummaryAccepts, AttemptStored
<1> QED
  BY <1>1, Invariance, PTL

\* A run's candidates are all measured under conditions its manifest froze.
THEOREM OneCondition == Spec => []OneConditionPerRun
<1>1. IInv => OneConditionPerRun
  BY DEF IInv, JournalInv, Grounded, ManifestStored, OneConditionPerRun, Stored
<1> QED
  BY <1>1, Invariance, PTL

\* What knowledge.json and test-records.jsonl hold is in the journal, once.
THEOREM CopiesFollow == Spec => []EvidenceBeforeCopies
<1>1. IInv => EvidenceBeforeCopies
  BY DEF IInv
<1> QED
  BY <1>1, Invariance, PTL

\* A loop that was neither killed nor cut off from its files closes its run.
THEOREM Closing == Spec => []LoopsClose
<1>1. IInv => LoopsClose
  BY DEF IInv, RunInv, ClosesOf, LoopsClose, Run, Loop
<1> QED
  BY <1>1, Invariance, PTL

\* Every variable of the runs keeps its type.
THEOREM TypeCorrect == Spec => []TypeOK
<1>1. IInv => TypeOK
  BY DEF IInv
<1> QED
  BY <1>1, Invariance, PTL

\* A projection that is written holds every experiment of the journal.
THEOREM Projections == Spec => ProjectionIsComplete
<1> DEFINE A == \A r \in Run : SyncReplace(r) => Projected(journal) \subseteq Known'
<1>1. IInv => A
  <2> SUFFICES ASSUME IInv, NEW r \in Run, SyncReplace(r)
               PROVE  Projected(journal) \subseteq Known'
    OBVIOUS
  <2>1. ExperimentsOf(knowledge') = ExperimentsOf(knowledge) \cup Projected(journal)
    BY Replaced, Merging
  <2> QED
    BY <2>1 DEF Known, ExperimentsOf
<1>2. IInv /\ [Next]_vars => [A]_vars
  BY <1>1
<1> QED
  BY <1>2, Invariance, PTL DEF Spec, ProjectionIsComplete

\* knowledge.json only ever grows at its end.
THEOREM Growth == Spec => KnowledgeGrows
<1> DEFINE A == IsPrefix(knowledge, knowledge')
<1>1. IInv /\ [Next]_vars => [A]_vars
  <2> SUFFICES ASSUME IInv, [Next]_vars PROVE A
    OBVIOUS
  <2>1. CASE \E r \in Run : SyncReplace(r)
    BY <2>1, Replaced, Merging
  <2>2. CASE ~\E r \in Run : SyncReplace(r)
    <3>1. knowledge' = knowledge
      BY <2>2 DEF Next, vars, Work, Begin, Register, ReportStart, StartEvaluation, Freeze,
         RecordCompleted, RecordUnverified, SyncBegin, FileRows, EvaluationRaises,
         RecordFailed, Retry, FinishDegraded, FinishGeneration, NextGeneration, Close,
         Abort, GiveUp, StoreFails, StartFails, Crash, FilesChange, Puts
    <3> QED
      BY <3>1 DEF IsPrefix
  <2> QED
    BY <2>1, <2>2
<1> QED
  BY <1>1, Invariance, PTL DEF Spec, KnowledgeGrows
=============================================================================
