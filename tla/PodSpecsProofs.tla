--------------------------- MODULE PodSpecsProofs ---------------------------
(* Proofs about PodSpecs, for every resource, configuration and cipher     *)
(* table.                                                                  *)
EXTENDS PodSpecs, SequenceTheorems, WellFoundedInduction, TLAPS

-----------------------------------------------------------------------------
(* Natural numbers, without induction over an operator: a non-empty set of *)
(* naturals has a least element.                                           *)

\* The least element of a non-empty set of naturals.
LEMMA LeastNatural ==
    ASSUME NEW T \in SUBSET Nat, T # {}
    PROVE  \E m \in T : \A k \in T : m <= k
<1>. DEFINE R == OpToRel(<, Nat)
<1>1. \A x, y \in Nat : x < y => <<x, y>> \in R
  BY DEF OpToRel
<1>2. IsWellFoundedOn(R, Nat)
  BY NatLessThanWellFounded
<1>. HIDE DEF R
<1>3. PICK m \in T : \A k \in T : ~(<<k, m>> \in R)
  BY <1>2, WFMin
<1>4. ASSUME NEW k \in T PROVE m <= k
  <2>1. k \in Nat /\ m \in Nat /\ ~(k < m)
    BY <1>1, <1>3
  <2>. QED
    BY <2>1
<1>. QED
  BY <1>4

\* The greatest element of a non-empty set of positions.
LEMMA LastPosition ==
    ASSUME NEW n \in Nat, NEW T \in SUBSET (1..n), T # {}
    PROVE  \E m \in T : \A k \in T : k <= m
<1>. DEFINE U == {n - k : k \in T}
<1>1. U \in SUBSET Nat /\ U # {}
  <2>1. PICK k \in T : TRUE
    OBVIOUS
  <2>2. n - k \in U
    BY <2>1
  <2>3. \A j \in T : n - j \in Nat
    OBVIOUS
  <2>. QED
    BY <2>2, <2>3
<1>2. PICK u \in U : \A v \in U : u <= v
  BY <1>1, LeastNatural
<1>3. PICK m \in T : u = n - m
  OBVIOUS
<1>4. \A k \in T : k <= m
  <2>. SUFFICES ASSUME NEW k \in T PROVE k <= m
    OBVIOUS
  <2>1. n - m <= n - k
    BY <1>2, <1>3
  <2>. QED
    BY <2>1
<1>. QED
  BY <1>4

-----------------------------------------------------------------------------
(* Argument lists.                                                         *)

\* A sequence over any set is one over the set of its elements.
LEMMA AnySequence ==
    ASSUME NEW A, NEW q \in Seq(A)
    PROVE  IsSequence(q)
<1>. DEFINE S == {q[i] : i \in 1..Len(q)}
<1>1. Len(q) \in Nat /\ q \in [1..Len(q) -> A]
  BY LenProperties
<1>2. q \in [1..Len(q) -> S]
  BY <1>1
<1>3. q \in Seq(S)
  BY <1>1, <1>2, SeqDef
<1>. QED
  BY <1>3 DEF IsSequence

\* Appending one argument list to another.
LEMMA ConcatSequence ==
    ASSUME NEW p, NEW q, IsSequence(p), IsSequence(q)
    PROVE  /\ IsSequence(p \o q) /\ Len(p) \in Nat /\ Len(q) \in Nat
           /\ Len(p \o q) = Len(p) + Len(q)
           /\ \A i \in 1..(Len(p) + Len(q)) :
                 (p \o q)[i] = IF i <= Len(p) THEN p[i] ELSE q[i - Len(p)]
<1>. DEFINE P == {p[i] : i \in 1..Len(p)}
            Q == {q[i] : i \in 1..Len(q)}
<1>1. p \in Seq(P) /\ q \in Seq(Q)
  BY DEF IsSequence
<1>. HIDE DEF P, Q
<1>2. p \in Seq(P \union Q) /\ q \in Seq(P \union Q)
  BY <1>1, SeqMonotonic
<1>3. /\ p \o q \in Seq(P \union Q)
      /\ Len(p \o q) = Len(p) + Len(q)
      /\ \A i \in 1..(Len(p) + Len(q)) :
            (p \o q)[i] = IF i <= Len(p) THEN p[i] ELSE q[i - Len(p)]
  BY <1>2, ConcatProperties
<1>4. IsSequence(p \o q)
  BY <1>3, AnySequence
<1>5. Len(p) \in Nat /\ Len(q) \in Nat
  BY <1>2, LenProperties
<1>. QED
  BY <1>3, <1>4, <1>5

\* The value of a flag is that of its last occurrence, which exists.
LEMMA LastOccurrence ==
    ASSUME NEW args, IsSequence(args), NEW f
    PROVE  /\ \A i \in Occurrences(args, f) :
                 (\A j \in Occurrences(args, f) : j <= i) =>
                     Effective(args, f) = args[i].value
           /\ Given(args, f) => \E i \in Occurrences(args, f) :
                                   \A j \in Occurrences(args, f) : j <= i
<1>. DEFINE at == Occurrences(args, f)
<1>1. Len(args) \in Nat /\ at \in SUBSET (1..Len(args))
  BY LenProperties DEF IsSequence, Occurrences
<1>2. ASSUME NEW i \in at, \A j \in at : j <= i
      PROVE  Effective(args, f) = args[i].value
  <2>. DEFINE last == CHOOSE k \in at : \A j \in at : j <= k
  <2>1. last \in at /\ \A j \in at : j <= last
    BY <1>2
  <2>2. last = i
    BY <1>1, <1>2, <2>1
  <2>. QED
    BY <2>2 DEF Effective, Given
<1>3. Given(args, f) => \E i \in at : \A j \in at : j <= i
  BY <1>1, LastPosition DEF Given
<1>. QED
  BY <1>2, <1>3

\* Of two lists one after the other, the second has the say on the flags it
\* gives and the first on all others.
LEMMA LaterWins ==
    ASSUME NEW p, NEW q, IsSequence(p), IsSequence(q), NEW f
    PROVE  /\ IsSequence(p \o q)
           /\ Given(p \o q, f) <=> Given(p, f) \/ Given(q, f)
           /\ Effective(p \o q, f) =
                 IF Given(q, f) THEN Effective(q, f) ELSE Effective(p, f)
<1>. DEFINE r == p \o q
            n == Len(p)
<1>1. /\ IsSequence(r) /\ n \in Nat /\ Len(q) \in Nat /\ Len(r) = n + Len(q)
      /\ \A i \in 1..(n + Len(q)) : r[i] = IF i <= n THEN p[i] ELSE q[i - n]
  BY ConcatSequence
<1>. HIDE DEF r, n
<1>2. \A i \in Occurrences(p, f) : i \in Occurrences(r, f) /\ r[i] = p[i] /\ i <= n
  BY <1>1 DEF Occurrences, n
<1>3. \A i \in Occurrences(q, f) : n + i \in Occurrences(r, f) /\ r[n + i] = q[i]
  <2>. SUFFICES ASSUME NEW i \in Occurrences(q, f)
                PROVE  n + i \in Occurrences(r, f) /\ r[n + i] = q[i]
    OBVIOUS
  <2>1. i \in 1..Len(q) /\ q[i].flag = f
    BY DEF Occurrences
  <2>2. n + i \in 1..(n + Len(q)) /\ ~(n + i <= n) /\ (n + i) - n = i
    BY <1>1, <2>1
  <2>3. r[n + i] = q[i]
    BY <1>1, <2>2
  <2>. QED
    BY <1>1, <2>1, <2>2, <2>3 DEF Occurrences
<1>4. ASSUME NEW i \in Occurrences(r, f)
      PROVE  \/ i \in Occurrences(p, f)
             \/ i > n /\ i - n \in Occurrences(q, f)
  <2>1. i \in 1..(n + Len(q)) /\ r[i].flag = f
    BY <1>1 DEF Occurrences
  <2>2. CASE i <= n
    BY <1>1, <2>1, <2>2 DEF Occurrences, n
  <2>3. CASE ~(i <= n)
    <3>1. i - n \in 1..Len(q) /\ r[i] = q[i - n]
      BY <1>1, <2>1, <2>3
    <3>. QED
      BY <1>1, <2>1, <2>3, <3>1 DEF Occurrences
  <2>. QED
    BY <2>2, <2>3
<1>5. Given(r, f) <=> Given(p, f) \/ Given(q, f)
  BY <1>2, <1>3, <1>4 DEF Given
<1>6. CASE Given(q, f)
  <2>1. PICK i \in Occurrences(q, f) : \A j \in Occurrences(q, f) : j <= i
    BY <1>6, LastOccurrence
  <2>2. i \in Nat /\ \A j \in Occurrences(r, f) : j \in Nat /\ j <= n + i
    <3>1. i \in Nat
      BY <1>1 DEF Occurrences
    <3>2. ASSUME NEW j \in Occurrences(r, f) PROVE j \in Nat /\ j <= n + i
      <4>1. j \in Nat
        BY <1>1 DEF Occurrences
      <4>2. CASE j \in Occurrences(p, f)
        BY <1>1, <1>2, <3>1, <4>1, <4>2
      <4>3. CASE j > n /\ j - n \in Occurrences(q, f)
        <5>1. j - n <= i
          BY <2>1, <4>3
        <5>. QED
          BY <1>1, <3>1, <4>1, <5>1
      <4>. QED
        BY <1>4, <4>2, <4>3
    <3>. QED
      BY <3>1, <3>2
  <2>3. Effective(r, f) = r[n + i].value /\ Effective(q, f) = q[i].value
    BY <1>1, <1>3, <2>1, <2>2, LastOccurrence
  <2>. QED
    BY <1>1, <1>3, <1>5, <1>6, <2>3 DEF r
<1>7. CASE ~Given(q, f) /\ Given(p, f)
  <2>1. PICK i \in Occurrences(p, f) : \A j \in Occurrences(p, f) : j <= i
    BY <1>7, LastOccurrence
  <2>2. \A j \in Occurrences(r, f) : j <= i
    BY <1>4, <1>7, <2>1 DEF Given
  <2>3. Effective(r, f) = r[i].value /\ Effective(p, f) = p[i].value
    BY <1>1, <1>2, <2>1, <2>2, LastOccurrence
  <2>. QED
    BY <1>1, <1>2, <1>5, <1>7, <2>3 DEF r
<1>8. CASE ~Given(q, f) /\ ~Given(p, f)
  BY <1>1, <1>5, <1>8 DEF Effective, r
<1>. QED
  BY <1>6, <1>7, <1>8

\* Lists of no, one, two and four arguments.
LEMMA ShortLists ==
    /\ IsSequence(<<>>) /\ \A f : ~Given(<<>>, f) /\ Effective(<<>>, f) = Nil
    /\ \A a : /\ IsSequence(<<a>>)
              /\ \A f : /\ Given(<<a>>, f) <=> a.flag = f
                        /\ Effective(<<a>>, f) = IF a.flag = f THEN a.value ELSE Nil
    /\ \A a, b : /\ IsSequence(<<a, b>>)
                 /\ \A f : Given(<<a, b>>, f) <=> f \in {a.flag, b.flag}
                 /\ \A f : f # a.flag =>
                       Effective(<<a, b>>, f) = IF b.flag = f THEN b.value ELSE Nil
    /\ \A a, b, c, d :
          /\ IsSequence(<<a, b, c, d>>)
          /\ \A f : Given(<<a, b, c, d>>, f) <=> f \in {a.flag, b.flag, c.flag, d.flag}
<1>1. IsSequence(<<>>) /\ \A f : ~Given(<<>>, f) /\ Effective(<<>>, f) = Nil
  BY EmptySeq DEF IsSequence, Given, Occurrences, Effective
<1>2. ASSUME NEW a
      PROVE  /\ IsSequence(<<a>>)
             /\ \A f : /\ Given(<<a>>, f) <=> a.flag = f
                       /\ Effective(<<a>>, f) = IF a.flag = f THEN a.value ELSE Nil
  <2>1. IsSequence(<<a>>)
    <3>1. <<a>> \in Seq({a})
      OBVIOUS
    <3>. QED
      BY <3>1, AnySequence
  <2>2. \A f : Occurrences(<<a>>, f) = IF a.flag = f THEN {1} ELSE {}
    BY DEF Occurrences
  <2>3. ASSUME NEW f, a.flag = f PROVE Effective(<<a>>, f) = a.value
    <3>1. 1 \in Occurrences(<<a>>, f) /\ \A j \in Occurrences(<<a>>, f) : j <= 1
      BY <2>2, <2>3
    <3>. QED
      BY <2>1, <3>1, LastOccurrence
  <2>. QED
    BY <2>1, <2>2, <2>3 DEF Given, Effective
<1>3. ASSUME NEW a, NEW b
      PROVE  /\ IsSequence(<<a, b>>)
             /\ \A f : Given(<<a, b>>, f) <=> f \in {a.flag, b.flag}
             /\ \A f : f # a.flag =>
                   Effective(<<a, b>>, f) = IF b.flag = f THEN b.value ELSE Nil
  <2>1. IsSequence(<<a, b>>)
    <3>1. <<a, b>> \in Seq({a, b})
      OBVIOUS
    <3>. QED
      BY <3>1, AnySequence
  <2>2. \A f : Given(<<a, b>>, f) <=> f \in {a.flag, b.flag}
    BY DEF Occurrences, Given
  <2>3. ASSUME NEW f, f # a.flag, b.flag = f PROVE Effective(<<a, b>>, f) = b.value
    <3>1. 2 \in Occurrences(<<a, b>>, f) /\ \A j \in Occurrences(<<a, b>>, f) : j <= 2
      BY <2>3 DEF Occurrences
    <3>. QED
      BY <2>1, <3>1, LastOccurrence
  <2>4. ASSUME NEW f, f # a.flag, b.flag # f PROVE Effective(<<a, b>>, f) = Nil
    BY <2>2, <2>4 DEF Effective
  <2>. QED
    BY <2>1, <2>2, <2>3, <2>4
<1>4. ASSUME NEW a, NEW b, NEW c, NEW d
      PROVE  /\ IsSequence(<<a, b, c, d>>)
             /\ \A f : Given(<<a, b, c, d>>, f) <=> f \in {a.flag, b.flag, c.flag, d.flag}
  <2>1. IsSequence(<<a, b, c, d>>)
    <3>1. <<a, b, c, d>> \in Seq({a, b, c, d})
      OBVIOUS
    <3>. QED
      BY <3>1, AnySequence
  <2>2. \A f : Given(<<a, b, c, d>>, f) <=> f \in {a.flag, b.flag, c.flag, d.flag}
    BY DEF Occurrences, Given
  <2>. QED
    BY <2>1, <2>2
<1>. QED
  BY <1>1, <1>2, <1>3, <1>4

\* IfSet passes a field on, and says nothing of other flags.
LEMMA IfSetSays ==
    ASSUME NEW g, NEW v, NEW f
    PROVE  /\ IsSequence(IfSet(g, v))
           /\ Given(IfSet(g, v), f) <=> f = g /\ v # Nil
           /\ Effective(IfSet(g, v), f) = IF f = g THEN v ELSE Nil
<1>1. Arg(g, v).flag = g /\ Arg(g, v).value = v
  BY DEF Arg
<1>2. CASE v = Nil
  BY <1>2, ShortLists DEF IfSet
<1>3. CASE v # Nil
  BY <1>1, <1>3, ShortLists DEF IfSet
<1>. QED
  BY <1>2, <1>3

\* The arguments all operands have set the verbosity and no other managed flag.
LEMMA CommonArgsSay ==
    ASSUME NEW c, NEW f \in ManagedFlags \union {"--tls-ciphers"}
    PROVE  /\ IsSequence(CommonArgs(c))
           /\ Given(CommonArgs(c), f) <=> f = "--v"
           /\ Effective(CommonArgs(c), f) = IF f = "--v" THEN c.verbosity ELSE Nil
<1>. DEFINE a == [Arg("--logtostderr", Nil) EXCEPT !.joined = FALSE]
            b == Arg("--v", c.verbosity)
<1>1. a.flag = "--logtostderr" /\ b.flag = "--v" /\ b.value = c.verbosity
  BY DEF Arg
<1>2. CommonArgs(c) = <<a, b>>
  BY DEF CommonArgs
<1>3. f # "--logtostderr"
  BY DEF ManagedFlags
<1>. HIDE DEF a, b
<1>. QED
  BY <1>1, <1>2, <1>3, ShortLists

-----------------------------------------------------------------------------
(* The operator's own arguments, per operand.                              *)

\* RecommenderArgs passes on the recommender's fields and the verbosity.
LEMMA RecommenderSays ==
    ASSUME NEW f \in ManagedFlags
    PROVE  /\ IsSequence(RecommenderArgs(spec, cfg))
           /\ Effective(RecommenderArgs(spec, cfg), f) = SetBy("recommender", f)
<1>. DEFINE A == IfSet("--recommendation-margin-fraction", spec.safetyMarginFraction)
            B == IfSet("--pod-recommendation-min-cpu-millicores", spec.podMinCPUMillicores)
            C == IfSet("--pod-recommendation-min-memory-mb", spec.podMinMemoryMb)
            D == CommonArgs(cfg)
<1>1. /\ IsSequence(A)
      /\ Given(A, f) <=> f = "--recommendation-margin-fraction" /\ spec.safetyMarginFraction # Nil
      /\ Effective(A, f) = IF f = "--recommendation-margin-fraction"
                           THEN spec.safetyMarginFraction ELSE Nil
  BY IfSetSays
<1>2. /\ IsSequence(B)
      /\ Given(B, f) <=> f = "--pod-recommendation-min-cpu-millicores" /\ spec.podMinCPUMillicores # Nil
      /\ Effective(B, f) = IF f = "--pod-recommendation-min-cpu-millicores"
                           THEN spec.podMinCPUMillicores ELSE Nil
  BY IfSetSays
<1>3. /\ IsSequence(C)
      /\ Given(C, f) <=> f = "--pod-recommendation-min-memory-mb" /\ spec.podMinMemoryMb # Nil
      /\ Effective(C, f) = IF f = "--pod-recommendation-min-memory-mb"
                           THEN spec.podMinMemoryMb ELSE Nil
  BY IfSetSays
<1>4. /\ IsSequence(D)
      /\ Effective(D, f) = IF f = "--v" THEN cfg.verbosity ELSE Nil
  BY CommonArgsSay
<1>5. RecommenderArgs(spec, cfg) = ((D \o A) \o B) \o C
  BY DEF RecommenderArgs
<1>. HIDE DEF A, B, C, D
<1>6. /\ IsSequence(D \o A)
      /\ Effective(D \o A, f) = IF Given(A, f) THEN Effective(A, f) ELSE Effective(D, f)
  BY <1>1, <1>4, LaterWins
<1>7. /\ IsSequence((D \o A) \o B)
      /\ Effective((D \o A) \o B, f) =
            IF Given(B, f) THEN Effective(B, f) ELSE Effective(D \o A, f)
  BY <1>2, <1>6, LaterWins
<1>8. /\ IsSequence(((D \o A) \o B) \o C)
      /\ Effective(((D \o A) \o B) \o C, f) =
            IF Given(C, f) THEN Effective(C, f) ELSE Effective((D \o A) \o B, f)
  BY <1>3, <1>7, LaterWins
<1>. QED
  BY <1>1, <1>2, <1>3, <1>4, <1>5, <1>6, <1>7, <1>8 DEF SetBy, ManagedFlags

\* UpdaterArgs passes on minReplicas and the verbosity.
LEMMA UpdaterSays ==
    ASSUME NEW f \in ManagedFlags
    PROVE  /\ IsSequence(UpdaterArgs(spec, cfg))
           /\ Effective(UpdaterArgs(spec, cfg), f) = SetBy("updater", f)
<1>. DEFINE A == IfSet("--min-replicas", spec.minReplicas)
            D == CommonArgs(cfg)
<1>1. /\ IsSequence(A)
      /\ Given(A, f) <=> f = "--min-replicas" /\ spec.minReplicas # Nil
      /\ Effective(A, f) = IF f = "--min-replicas" THEN spec.minReplicas ELSE Nil
  BY IfSetSays
<1>2. /\ IsSequence(D)
      /\ Effective(D, f) = IF f = "--v" THEN cfg.verbosity ELSE Nil
  BY CommonArgsSay
<1>3. UpdaterArgs(spec, cfg) = D \o A
  BY DEF UpdaterArgs
<1>. HIDE DEF A, D
<1>4. /\ IsSequence(D \o A)
      /\ Effective(D \o A, f) = IF Given(A, f) THEN Effective(A, f) ELSE Effective(D, f)
  BY <1>1, <1>2, LaterWins
<1>. QED
  BY <1>1, <1>2, <1>3, <1>4 DEF SetBy, ManagedFlags

\* AdmissionPluginArgs passes on the verbosity and the profile, and the API
\* server limits unless the user gives them.
LEMMA AdmissionSays ==
    ASSUME NEW f \in ManagedFlags \union {"--tls-ciphers"},
           ~Given(UserArgs("admission-controller"), f)
    PROVE  /\ IsSequence(AdmissionPluginArgs(spec, cfg))
           /\ f \in ManagedFlags =>
                 Effective(AdmissionPluginArgs(spec, cfg), f) = SetBy("admission-controller", f)
           /\ f = "--tls-ciphers" =>
                 Effective(AdmissionPluginArgs(spec, cfg), f) =
                    IF cfg.tls = Nil \/ cfg.tls.ciphers = <<>> THEN Nil
                    ELSE TLSCiphersToArgs(cfg.tls.ciphers)
<1>. DEFINE user == spec.overrides["admission-controller"].args
            Default(g, v) == IF ArgExists(user, g) THEN <<>> ELSE <<Arg(g, v)>>
            A == <<Arg("--tls-cert-file", "/data/tls-certs/tls.crt"),
                   Arg("--tls-private-key", "/data/tls-certs/tls.key"),
                   Arg("--client-ca-file", "/data/tls-ca-certs/service-ca.crt"),
                   Arg("--webhook-timeout-seconds", "10")>>
            B == Default("--kube-api-qps", "25.0")
            C == Default("--kube-api-burst", "50.0")
            D == CommonArgs(cfg)
            E == IF cfg.tls = Nil \/ cfg.tls.minTLSVersion = NoVersion THEN <<>>
                 ELSE <<Arg("--min-tls-version", TLSVersionToArg(cfg.tls.minTLSVersion))>>
            F == IF cfg.tls = Nil \/ cfg.tls.ciphers = <<>> THEN <<>>
                 ELSE <<Arg("--tls-ciphers", TLSCiphersToArgs(cfg.tls.ciphers))>>
<1>a. \A g, v : Arg(g, v).flag = g /\ Arg(g, v).value = v
  BY DEF Arg
<1>b. ~ArgExists(user, f)
  BY DEF ArgExists, UserArgs, Given, Occurrences
<1>c. AdmissionPluginArgs(spec, cfg) = ((((D \o A) \o B) \o C) \o E) \o F
  BY DEF AdmissionPluginArgs
<1>1. IsSequence(A) /\ ~Given(A, f)
  BY <1>a, ShortLists DEF ManagedFlags
<1>2. ASSUME NEW g, NEW v
      PROVE  /\ IsSequence(Default(g, v))
             /\ Given(Default(g, v), f) <=> f = g
             /\ f = g => Effective(Default(g, v), f) = v
  <2>1. CASE ArgExists(user, g)
    BY <1>b, <2>1, ShortLists
  <2>2. CASE ~ArgExists(user, g)
    BY <1>a, <2>2, ShortLists
  <2>. QED
    BY <2>1, <2>2
<1>3. /\ IsSequence(B)
      /\ Given(B, f) <=> f = "--kube-api-qps"
      /\ f = "--kube-api-qps" => Effective(B, f) = "25.0"
  BY <1>2
<1>4. /\ IsSequence(C)
      /\ Given(C, f) <=> f = "--kube-api-burst"
      /\ f = "--kube-api-burst" => Effective(C, f) = "50.0"
  BY <1>2
<1>5. /\ IsSequence(D)
      /\ Effective(D, f) = IF f = "--v" THEN cfg.verbosity ELSE Nil
  BY CommonArgsSay
<1>6. /\ IsSequence(E)
      /\ Given(E, f) <=> /\ f = "--min-tls-version"
                         /\ cfg.tls # Nil /\ cfg.tls.minTLSVersion # NoVersion
      /\ Given(E, f) => Effective(E, f) = TLSVersionToArg(cfg.tls.minTLSVersion)
  BY <1>a, ShortLists
<1>7. /\ IsSequence(F)
      /\ Given(F, f) <=> /\ f = "--tls-ciphers"
                         /\ cfg.tls # Nil /\ cfg.tls.ciphers # <<>>
      /\ Given(F, f) => Effective(F, f) = TLSCiphersToArgs(cfg.tls.ciphers)
  BY <1>a, ShortLists
<1>. HIDE DEF A, B, C, D, E, F
<1>8. IsSequence(D \o A) /\ Effective(D \o A, f) = Effective(D, f)
  BY <1>1, <1>5, LaterWins
<1>9. /\ IsSequence((D \o A) \o B)
      /\ Effective((D \o A) \o B, f) =
            IF Given(B, f) THEN Effective(B, f) ELSE Effective(D, f)
  BY <1>3, <1>8, LaterWins
<1>10. /\ IsSequence(((D \o A) \o B) \o C)
       /\ Effective(((D \o A) \o B) \o C, f) =
             IF Given(C, f) THEN Effective(C, f) ELSE Effective((D \o A) \o B, f)
  BY <1>4, <1>9, LaterWins
<1>11. /\ IsSequence((((D \o A) \o B) \o C) \o E)
       /\ Effective((((D \o A) \o B) \o C) \o E, f) =
             IF Given(E, f) THEN Effective(E, f) ELSE Effective(((D \o A) \o B) \o C, f)
  BY <1>6, <1>10, LaterWins
<1>12. /\ IsSequence(((((D \o A) \o B) \o C) \o E) \o F)
       /\ Effective(((((D \o A) \o B) \o C) \o E) \o F, f) =
             IF Given(F, f) THEN Effective(F, f)
             ELSE Effective((((D \o A) \o B) \o C) \o E, f)
  BY <1>7, <1>11, LaterWins
<1>13. Effective(((((D \o A) \o B) \o C) \o E) \o F, f) =
          IF Given(F, f) THEN TLSCiphersToArgs(cfg.tls.ciphers)
          ELSE IF Given(E, f) THEN TLSVersionToArg(cfg.tls.minTLSVersion)
          ELSE IF f = "--kube-api-burst" THEN "50.0"
          ELSE IF f = "--kube-api-qps" THEN "25.0"
          ELSE IF f = "--v" THEN cfg.verbosity ELSE Nil
  BY <1>3, <1>4, <1>5, <1>6, <1>7, <1>9, <1>10, <1>11, <1>12
<1>14. f \in ManagedFlags =>
          Effective(((((D \o A) \o B) \o C) \o E) \o F, f) = SetBy("admission-controller", f)
  BY <1>6, <1>7, <1>13 DEF SetBy, ManagedFlags
<1>15. f = "--tls-ciphers" =>
          Effective(((((D \o A) \o B) \o C) \o E) \o F, f) =
             IF cfg.tls = Nil \/ cfg.tls.ciphers = <<>> THEN Nil
             ELSE TLSCiphersToArgs(cfg.tls.ciphers)
  BY <1>6, <1>7, <1>13
<1>. QED
  BY <1>c, <1>12, <1>14, <1>15

-----------------------------------------------------------------------------
(* The ciphers.  The library's induction theorems cannot be instantiated,  *)
(* so what the recursive function computes is shown by a least             *)
(* counterexample, and so is that it is well defined.                      *)

\* The names of a list so far, with the next cipher considered.
WithNext(names, x) == IF x \in DOMAIN IANA THEN Append(names, IANA[x]) ELSE names

\* g[n] holds the names of the first n ciphers.
NamesPrefixes(g, ciphers, k) ==
    g = [n \in 0..k |-> IF n = 0 THEN <<>> ELSE WithNext(g[n - 1], ciphers[n])]

\* What the first n ciphers should be named.
NamesOf(ciphers, n) ==
    {IANA[ciphers[i]] : i \in {j \in 1..n : ciphers[j] \in DOMAIN IANA}}

\* The recursion is well founded: such a function exists.
LEMMA NamesExist ==
    ASSUME NEW ciphers, NEW k \in Nat
    PROVE  \E g : NamesPrefixes(g, ciphers, k)
<1>. DEFINE T == {n \in Nat : ~\E g : NamesPrefixes(g, ciphers, n)}
<1>. SUFFICES ASSUME T # {} PROVE FALSE
  OBVIOUS
<1>1. PICK m \in T : \A n \in T : m <= n
  BY LeastNatural
<1>2. CASE m = 0
  <2>. DEFINE g == [n \in 0..0 |-> <<>>]
  <2>1. NamesPrefixes(g, ciphers, 0)
    BY DEF NamesPrefixes
  <2>. QED
    BY <1>1, <1>2, <2>1
<1>3. CASE m # 0
  <2>1. m \in Nat /\ m - 1 \in Nat /\ m - 1 \notin T
    BY <1>1, <1>3
  <2>2. PICK h : NamesPrefixes(h, ciphers, m - 1)
    BY <2>1
  <2>. DEFINE last == WithNext(h[m - 1], ciphers[m])
              g == [n \in 0..m |-> IF n = m THEN last ELSE h[n]]
  <2>3. \A n \in 0..(m - 1) :
           h[n] = IF n = 0 THEN <<>> ELSE WithNext(h[n - 1], ciphers[n])
    BY <2>2 DEF NamesPrefixes
  <2>. HIDE DEF last
  <2>4. \A n \in 0..m : n # m => g[n] = h[n]
    OBVIOUS
  <2>5. g[m] = last
    BY <2>1
  <2>6. ASSUME NEW n \in 0..m
        PROVE  g[n] = IF n = 0 THEN <<>> ELSE WithNext(g[n - 1], ciphers[n])
    <3>1. CASE n = m
      <4>1. m - 1 \in 0..m /\ m - 1 # m
        BY <2>1
      <4>. QED
        BY <1>3, <2>4, <2>5, <3>1, <4>1 DEF last
    <3>2. CASE n # m
      <4>1. n \in 0..(m - 1) /\ (n # 0 => n - 1 \in 0..m /\ n - 1 # m)
        BY <2>1, <3>2
      <4>. QED
        BY <2>3, <2>4, <3>2, <4>1
    <3>. QED
      BY <3>1, <3>2
  <2>7. NamesPrefixes(g, ciphers, m)
    <3>1. g = [n \in 0..m |-> g[n]]
      OBVIOUS
    <3>. HIDE DEF g
    <3>. QED
      BY <2>6, <3>1 DEF NamesPrefixes
  <2>. QED
    BY <1>1, <2>7
<1>. QED
  BY <1>2, <1>3

\* OpenSSLToIANACipherSuites is the last of the prefixes.
LEMMA NamesOfAll ==
    ASSUME NEW ciphers, IsSequence(ciphers)
    PROVE  \E g : /\ NamesPrefixes(g, ciphers, Len(ciphers))
                  /\ OpenSSLToIANACipherSuites(ciphers) = g[Len(ciphers)]
<1>. DEFINE iana == CHOOSE g : NamesPrefixes(g, ciphers, Len(ciphers))
<1>1. Len(ciphers) \in Nat
  BY LenProperties DEF IsSequence
<1>2. NamesPrefixes(iana, ciphers, Len(ciphers))
  BY <1>1, NamesExist
<1>3. OpenSSLToIANACipherSuites(ciphers) = iana[Len(ciphers)]
  BY DEF OpenSSLToIANACipherSuites, NamesPrefixes, WithNext
<1>. QED
  BY <1>2, <1>3

\* The list holds the names of the known ciphers and nothing else.
LEMMA CiphersNamed ==
    ASSUME NEW ciphers, IsSequence(ciphers)
    PROVE  LET iana == OpenSSLToIANACipherSuites(ciphers)
           IN  /\ IsSequence(iana)
               /\ {iana[i] : i \in 1..Len(iana)} = NamesOf(ciphers, Len(ciphers))
<1>0. Len(ciphers) \in Nat
  BY LenProperties DEF IsSequence
<1>1. PICK g : /\ NamesPrefixes(g, ciphers, Len(ciphers))
               /\ OpenSSLToIANACipherSuites(ciphers) = g[Len(ciphers)]
  BY NamesOfAll
<1>2. \A n \in 0..Len(ciphers) :
         g[n] = IF n = 0 THEN <<>> ELSE WithNext(g[n - 1], ciphers[n])
  BY <1>1 DEF NamesPrefixes
<1>. DEFINE Right(n) == /\ IsSequence(g[n])
                        /\ {g[n][i] : i \in 1..Len(g[n])} = NamesOf(ciphers, n)
            T == {n \in 0..Len(ciphers) : ~Right(n)}
<1>. SUFFICES ASSUME T # {} PROVE FALSE
  BY <1>0, <1>1
<1>3. PICK m \in T : \A n \in T : m <= n
  <2>1. T \in SUBSET Nat
    BY <1>0
  <2>. HIDE DEF T
  <2>. QED
    BY <2>1, LeastNatural
<1>4. m # 0
  <2>1. g[0] = <<>>
    BY <1>0, <1>2
  <2>2. IsSequence(<<>>) /\ Len(<<>>) = 0
    BY EmptySeq DEF IsSequence
  <2>3. NamesOf(ciphers, 0) = {}
    BY DEF NamesOf
  <2>4. Right(0)
    BY <2>1, <2>2, <2>3
  <2>. QED
    BY <2>4
<1>5. m \in 1..Len(ciphers) /\ m - 1 \in 0..Len(ciphers) /\ Right(m - 1)
  BY <1>0, <1>3, <1>4
<1>. DEFINE s == g[m - 1]
            x == ciphers[m]
<1>6. g[m] = WithNext(s, x)
  BY <1>0, <1>2, <1>4, <1>5
<1>7. 1..m = (1..(m - 1)) \union {m}
  BY <1>5
<1>8. CASE x \notin DOMAIN IANA
  <2>1. g[m] = s
    BY <1>6, <1>8 DEF WithNext
  <2>2. NamesOf(ciphers, m) = NamesOf(ciphers, m - 1)
    BY <1>7, <1>8 DEF NamesOf
  <2>. QED
    BY <1>3, <1>5, <2>1, <2>2
<1>9. CASE x \in DOMAIN IANA
  <2>. DEFINE S == {s[i] : i \in 1..Len(s)}
              e == IANA[x]
              r == Append(s, e)
  <2>1. g[m] = r
    BY <1>6, <1>9 DEF WithNext
  <2>2. NamesOf(ciphers, m) = NamesOf(ciphers, m - 1) \union {e}
    BY <1>7, <1>9 DEF NamesOf
  <2>3. s \in Seq(S \union {e}) /\ Len(s) \in Nat
    <3>1. s \in Seq(S)
      BY <1>5 DEF IsSequence
    <3>. QED
      BY <3>1, SeqMonotonic, LenProperties
  <2>. HIDE DEF s, e
  <2>4. /\ r \in Seq(S \union {e}) /\ Len(r) = Len(s) + 1
        /\ \A i \in 1..Len(s) : r[i] = s[i]
        /\ r[Len(s) + 1] = e
    BY <2>3, AppendProperties
  <2>5. IsSequence(r)
    BY <2>4, AnySequence
  <2>. HIDE DEF r
  <2>6. {r[i] : i \in 1..Len(r)} = S \union {e}
    <3>1. 1..Len(r) = (1..Len(s)) \union {Len(s) + 1}
      BY <2>3, <2>4
    <3>. QED
      BY <2>4, <3>1
  <2>7. S = NamesOf(ciphers, m - 1)
    BY <1>5 DEF s
  <2>. QED
    BY <1>3, <2>1, <2>2, <2>5, <2>6, <2>7
<1>. QED
  BY <1>8, <1>9

-----------------------------------------------------------------------------
(* The rendered pod specs.                                                 *)

\* What has been rendered is what the functions of the code yield.
RenderedRight ==
    /\ spec \in SpecInputs /\ cfg \in ConfigInputs
    /\ rendered # Nil =>
          \A o \in Operands : rendered[o].pod = PodSpecMethod(o, spec, cfg)

\* It stays so.
LEMMA RenderedInvariant == Spec => []RenderedRight
<1>1. Init => RenderedRight
  BY DEF Init, RenderedRight
<1>2. RenderedRight /\ [Render]_vars => RenderedRight'
  BY DEF RenderedRight, Render, vars
<1>. QED
  BY <1>1, <1>2, PTL DEF Spec

\* The order of the arguments in a pod: the operator's own, its extra
\* argument, the user's.
LEMMA ArgsOfPod ==
    ASSUME NEW o \in Operands
    PROVE  PodSpecMethod(o, spec, cfg).args =
              (GetArgs(o, spec, cfg) \o ExtraArgs) \o UserArgs(o)
<1>. DEFINE pod == VPAPodSpec(o, spec, cfg)
<1>1. pod.args = GetArgs(o, spec, cfg) \o ExtraArgs
  BY DEF VPAPodSpec, ExtraArgs
<1>2. Overridden(pod, spec.overrides[o]).args = pod.args \o UserArgs(o)
  BY DEF Overridden, UserArgs, VPAPodSpec
<1>3. PodSpecMethod(o, spec, cfg).args = Overridden(pod, spec.overrides[o]).args
  <2>. DEFINE p == Overridden(pod, spec.overrides[o])
  <2>1. {"args", "ports", "secrets", "configMaps"} \subseteq DOMAIN p
    BY DEF Overridden, VPAPodSpec
  <2>2. PodSpecMethod(o, spec, cfg) =
           IF o # "admission-controller" THEN p
           ELSE [p EXCEPT !.ports = @ \union {8000},
                           !.secrets = @ \union {"vpa-tls-certs"},
                           !.configMaps = @ \union {"vpa-tls-ca-certs"}]
    BY DEF PodSpecMethod
  <2>. HIDE DEF p
  <2>3. PodSpecMethod(o, spec, cfg).args = p.args
    BY <2>1, <2>2
  <2>. QED
    BY <2>3 DEF p
<1>. QED
  BY <1>1, <1>2, <1>3

\* The user has the last word on a flag, then the extra argument, then the
\* operator.
LEMMA UserThenExtra ==
    ASSUME spec \in SpecInputs, NEW o \in Operands, NEW f,
           IsSequence(GetArgs(o, spec, cfg))
    PROVE  Effective(PodSpecMethod(o, spec, cfg).args, f) =
              IF Given(UserArgs(o), f) THEN Effective(UserArgs(o), f)
              ELSE IF Given(ExtraArgs, f) THEN Effective(ExtraArgs, f)
              ELSE Effective(GetArgs(o, spec, cfg), f)
<1>1. IsSequence(UserArgs(o))
  BY InputAssumption DEF UserArgs
<1>2. IsSequence(ExtraArgs)
  BY ShortLists DEF ExtraArgs
<1>3. /\ IsSequence(GetArgs(o, spec, cfg) \o ExtraArgs)
      /\ Effective(GetArgs(o, spec, cfg) \o ExtraArgs, f) =
            IF Given(ExtraArgs, f) THEN Effective(ExtraArgs, f)
            ELSE Effective(GetArgs(o, spec, cfg), f)
  BY <1>2, LaterWins
<1>4. Effective((GetArgs(o, spec, cfg) \o ExtraArgs) \o UserArgs(o), f) =
         IF Given(UserArgs(o), f) THEN Effective(UserArgs(o), f)
         ELSE Effective(GetArgs(o, spec, cfg) \o ExtraArgs, f)
  BY <1>1, <1>3, LaterWins
<1>. QED
  BY <1>3, <1>4, ArgsOfPod

\* The admission controller's list is a sequence, whatever the user gives.
LEMMA AdmissionSequence == IsSequence(AdmissionPluginArgs(spec, cfg))
<1>. DEFINE user == spec.overrides["admission-controller"].args
            Default(g, v) == IF ArgExists(user, g) THEN <<>> ELSE <<Arg(g, v)>>
            A == <<Arg("--tls-cert-file", "/data/tls-certs/tls.crt"),
                   Arg("--tls-private-key", "/data/tls-certs/tls.key"),
                   Arg("--client-ca-file", "/data/tls-ca-certs/service-ca.crt"),
                   Arg("--webhook-timeout-seconds", "10")>>
            B == Default("--kube-api-qps", "25.0")
            C == Default("--kube-api-burst", "50.0")
            D == CommonArgs(cfg)
            E == IF cfg.tls = Nil \/ cfg.tls.minTLSVersion = NoVersion THEN <<>>
                 ELSE <<Arg("--min-tls-version", TLSVersionToArg(cfg.tls.minTLSVersion))>>
            F == IF cfg.tls = Nil \/ cfg.tls.ciphers = <<>> THEN <<>>
                 ELSE <<Arg("--tls-ciphers", TLSCiphersToArgs(cfg.tls.ciphers))>>
<1>1. AdmissionPluginArgs(spec, cfg) = ((((D \o A) \o B) \o C) \o E) \o F
  BY DEF AdmissionPluginArgs
<1>2. IsSequence(A) /\ IsSequence(B) /\ IsSequence(C) /\ IsSequence(E) /\ IsSequence(F)
  BY ShortLists
<1>3. IsSequence(D)
  BY CommonArgsSay DEF ManagedFlags
<1>. HIDE DEF A, B, C, D, E, F
<1>4. IsSequence((D \o A) \o B)
  BY <1>2, <1>3, ConcatSequence
<1>5. IsSequence((((D \o A) \o B) \o C) \o E)
  BY <1>2, <1>4, ConcatSequence
<1>. QED
  BY <1>1, <1>2, <1>5, ConcatSequence

\* The list of the operator's own arguments is one, whatever the user gives.
LEMMA OwnArgsSequence ==
    ASSUME NEW o \in Operands
    PROVE  IsSequence(GetArgs(o, spec, cfg))
<1>1. CASE o = "recommender"
  BY <1>1, RecommenderSays DEF GetArgs, ManagedFlags
<1>2. CASE o = "updater"
  BY <1>2, UpdaterSays DEF GetArgs, ManagedFlags
<1>3. CASE o = "admission-controller"
  BY <1>3, AdmissionSequence DEF GetArgs
<1>. QED
  BY <1>1, <1>2, <1>3 DEF Operands

\* Every flag with a field, a default or a profile behind it reaches the
\* operand it is meant for, and is the user's to override.
THEOREM FlagsRight == Spec => []FlagsAsAsked
<1>1. ASSUME RenderedRight PROVE FlagsAsAsked
  <2>. SUFFICES ASSUME rendered # Nil, NEW o \in Operands, NEW f \in ManagedFlags
                PROVE  Effective(rendered[o].pod.args, f) =
                          IF Given(UserArgs(o), f) THEN Effective(UserArgs(o), f)
                          ELSE IF Given(ExtraArgs, f) THEN Effective(ExtraArgs, f)
                          ELSE SetBy(o, f)
    BY DEF FlagsAsAsked
  <2>1. rendered[o].pod.args = PodSpecMethod(o, spec, cfg).args
    BY <1>1 DEF RenderedRight
  <2>2. ~Given(UserArgs(o), f) => Effective(GetArgs(o, spec, cfg), f) = SetBy(o, f)
    <3>1. CASE o = "recommender"
      BY <3>1, RecommenderSays DEF GetArgs
    <3>2. CASE o = "updater"
      BY <3>2, UpdaterSays DEF GetArgs
    <3>3. CASE o = "admission-controller"
      BY <3>3, AdmissionSays DEF GetArgs
    <3>. QED
      BY <3>1, <3>2, <3>3 DEF Operands
  <2>3. spec \in SpecInputs
    BY <1>1 DEF RenderedRight
  <2>. QED
    BY <2>1, <2>2, <2>3, OwnArgsSequence, UserThenExtra
<1>. QED
  BY <1>1, RenderedInvariant, PTL

\* Unless overridden, the webhook is given exactly the ciphers of an honoured
\* profile that have an IANA name, all of them as they stand if none has one,
\* and no list without a profile.
THEOREM CiphersRight == Spec => []CiphersOfProfile
<1>1. ASSUME RenderedRight PROVE CiphersOfProfile
  <2>. DEFINE o == "admission-controller"
              f == "--tls-ciphers"
              used == Effective(rendered[o].pod.args, f)
  <2>. SUFFICES ASSUME rendered # Nil
                PROVE  IF Given(UserArgs(o), f) THEN used = Effective(UserArgs(o), f)
                       ELSE IF Given(ExtraArgs, f) THEN used = Effective(ExtraArgs, f)
                       ELSE IF cfg.tls = Nil \/ cfg.tls.ciphers = <<>> THEN used = Nil
                       ELSE {used[i] : i \in 1..Len(used)} =
                               IF ProfileCiphers # {} THEN ProfileCiphers ELSE RawCiphers
    BY DEF CiphersOfProfile
  <2>0. o \in Operands /\ spec \in SpecInputs /\ cfg \in ConfigInputs
    BY <1>1 DEF RenderedRight, Operands
  <2>1. rendered[o].pod.args = PodSpecMethod(o, spec, cfg).args
    BY <1>1, <2>0 DEF RenderedRight
  <2>2. used = IF Given(UserArgs(o), f) THEN Effective(UserArgs(o), f)
               ELSE IF Given(ExtraArgs, f) THEN Effective(ExtraArgs, f)
               ELSE Effective(GetArgs(o, spec, cfg), f)
    BY <2>0, <2>1, OwnArgsSequence, UserThenExtra
  <2>3. ~Given(UserArgs(o), f) =>
           Effective(GetArgs(o, spec, cfg), f) =
              IF cfg.tls = Nil \/ cfg.tls.ciphers = <<>> THEN Nil
              ELSE TLSCiphersToArgs(cfg.tls.ciphers)
    BY AdmissionSays DEF GetArgs
  <2>4. ASSUME cfg.tls # Nil
        PROVE  LET t == TLSCiphersToArgs(cfg.tls.ciphers)
               IN  {t[i] : i \in 1..Len(t)} =
                      IF ProfileCiphers # {} THEN ProfileCiphers ELSE RawCiphers
    <3>. DEFINE ciphers == cfg.tls.ciphers
                iana == OpenSSLToIANACipherSuites(ciphers)
    <3>1. ProfileCiphers = NamesOf(ciphers, Len(ciphers))
      BY <2>4 DEF ProfileCiphers, NamesOf
    <3>2. IsSequence(ciphers)
      BY <2>0, <2>4, InputAssumption
    <3>3. {iana[i] : i \in 1..Len(iana)} = ProfileCiphers /\ IsSequence(iana)
      BY <3>1, <3>2, CiphersNamed
    <3>. HIDE DEF iana
    <3>4. Len(iana) = 0 <=> ProfileCiphers = {}
      <4>1. Len(iana) \in Nat
        BY <3>3, LenProperties DEF IsSequence
      <4>2. CASE Len(iana) = 0
        BY <3>3, <4>2
      <4>3. CASE Len(iana) # 0
        <5>1. 1 \in 1..Len(iana)
          BY <4>1, <4>3
        <5>2. iana[1] \in ProfileCiphers
          BY <3>3, <5>1
        <5>. QED
          BY <4>3, <5>2
      <4>. QED
        BY <4>2, <4>3
    <3>5. TLSCiphersToArgs(ciphers) = IF Len(iana) = 0 THEN ciphers ELSE iana
      BY DEF TLSCiphersToArgs, iana
    <3>. QED
      BY <3>3, <3>4, <3>5 DEF RawCiphers
  <2>. QED
    BY <2>2, <2>3, <2>4
<1>. QED
  BY <1>1, RenderedInvariant, PTL
=============================================================================
