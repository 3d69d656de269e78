--------------------------- MODULE TestBenchProofs ---------------------------
(***************************************************************************)
(* Proofs about TestBench for every request a message can hold, every      *)
(* session, every size of the buffers and any number of clients.           *)
(***************************************************************************)
EXTENDS TestBench, SequenceTheorems, WellFoundedInduction, TLAPS

-----------------------------------------------------------------------------
(* Recursive functions.                                                    *)

(* Numbers below one another, as a relation. *)
Below == OpToRel(<, Nat)

(* The relation, spelled out. *)
LEMMA BelowIs == Below = {ss \in Nat \X Nat : ss[1] < ss[2]}
BY Zenon DEF Below, OpToRel

(* A set of numbers has a least one: what every induction here rests on. *)
LEMMA LeastOfSet ==
  ASSUME NEW S \in SUBSET Nat, S # {}
  PROVE  \E n \in S : \A m \in S : n <= m
<1>1. IsWellFoundedOn(Below, Nat)
  BY NatLessThanWellFounded, Zenon DEF Below
<1>2. \E x \in S : \A y \in S : ~(<<y, x>> \in Below)
  BY <1>1, WFMin
<1>3. PICK x \in S : \A y \in S : ~(<<y, x>> \in Below)
  BY <1>2
<1>4. ASSUME NEW y \in S PROVE x <= y
  <2>1. x \in Nat /\ y \in Nat
    OBVIOUS
  <2>2. ~(<<y, x>> \in {ss \in Nat \X Nat : ss[1] < ss[2]})
    BY <1>3, BelowIs
  <2>3. ~(y < x)
    BY <2>1, <2>2
  <2> QED BY <2>1, <2>3
<1> QED BY <1>4

(* A function defined by recursion over the rounds of a loop: next[k] is   *)
(* what round k makes of the result of the one before.                     *)
LoopHasResults(n, V, base, next) ==
  \E f \in [0..n -> V] :
    /\ f[0] = base
    /\ \A k \in 1..n : f[k] = next[k][f[k - 1]]

(* Such a function exists. *)
LEMMA FunctionByRecursion ==
  ASSUME NEW n \in Nat, NEW V, NEW base \in V, NEW next \in [1..n -> [V -> V]]
  PROVE  LoopHasResults(n, V, base, next)
<1> DEFINE Good(f, m) == /\ f \in [0..m -> V] /\ f[0] = base
                         /\ \A k \in 1..m : f[k] = next[k][f[k - 1]]
           Bad == {m \in 0..n : ~\E f \in [0..m -> V] : Good(f, m)}
<1> HIDE DEF Good
<1>1. SUFFICES Bad = {}
  <2>1. n \notin Bad
    BY <1>1
  <2>2. \E f \in [0..n -> V] : Good(f, n)
    BY <2>1
  <2> QED BY <2>2 DEF Good, LoopHasResults
<1>2. SUFFICES ASSUME Bad # {} PROVE FALSE
  OBVIOUS
<1>3. PICK m \in Bad : \A x \in Bad : m <= x
  <2>1. Bad \in SUBSET Nat
    OBVIOUS
  <2> QED BY <2>1, <1>2, LeastOfSet
<1>4. m # 0
  <2>1. Good([k \in 0..0 |-> base], 0)
    <3> DEFINE h == [k \in 0..0 |-> base]
    <3>1. h \in [0..0 -> V] /\ h[0] = base
      OBVIOUS
    <3> HIDE DEF h
    <3>2. \A k \in 1..0 : h[k] = next[k][h[k - 1]]
      OBVIOUS
    <3>3. Good(h, 0)
      BY <3>1, <3>2 DEF Good
    <3> QED BY <3>3 DEF h
  <2>2. [k \in 0..0 |-> base] \in [0..0 -> V]
    OBVIOUS
  <2> QED BY <1>3, <2>1, <2>2
<1>5. m \in 1..n /\ m - 1 \in 0..n /\ m - 1 \notin Bad
  <2>1. m \in 1..n /\ m - 1 \in 0..n /\ ~(m <= m - 1)
    BY <1>4
  <2> QED BY <2>1, <1>3
<1>6. PICK f \in [0..(m - 1) -> V] : Good(f, m - 1)
  BY <1>5
<1> DEFINE g == [k \in 0..m |-> IF k = m THEN next[m][f[m - 1]] ELSE f[k]]
<1>7. g \in [0..m -> V]
  <2>1. f[m - 1] \in V /\ m \in 1..n
    BY <1>5
  <2>2. next[m][f[m - 1]] \in V
    BY <2>1
  <2>3. ASSUME NEW k \in 0..m, k # m PROVE f[k] \in V
    <3>1. k \in 0..(m - 1)
      BY <2>3, <1>5
    <3> QED BY <3>1
  <2> QED BY <2>2, <2>3, <1>5
<1> HIDE DEF g
<1>8. Good(g, m)
  <2>0. g[m] = next[m][f[m - 1]] /\ \A k \in 0..m : k # m => g[k] = f[k]
    BY <1>5 DEF g
  <2>1. g[0] = base
    <3>1. 0 \in 0..m /\ 0 # m
      BY <1>5
    <3> QED BY <1>6, <2>0, <3>1 DEF Good
  <2>2. ASSUME NEW k \in 1..m PROVE g[k] = next[k][g[k - 1]]
    <3>1. g[k - 1] = f[k - 1]
      <4>1. k - 1 \in 0..m /\ k - 1 # m
        BY <1>5
      <4> QED BY <4>1, <2>0
    <3>2. CASE k = m
      BY <3>1, <3>2, <2>0
    <3>3. CASE k # m
      <4>1. k \in 1..(m - 1)
        BY <3>3, <1>5
      <4>2. f[k] = next[k][f[k - 1]]
        BY <4>1, <1>6 DEF Good
      <4>3. g[k] = f[k]
        BY <4>1, <3>3, <2>0
      <4> QED BY <4>2, <4>3, <3>1
    <3> QED BY <3>2, <3>3
  <2> QED BY <1>7, <2>1, <2>2 DEF Good
<1> QED BY <1>7, <1>8, <1>3

(* A sequence of byte strings joined, one after the other. *)
LEMMA FlattenByRecursion ==
  ASSUME NEW V, NEW seqs \in Seq(Seq(V))
  PROVE  \E f \in [0..Len(seqs) -> Seq(V)] :
           /\ f[0] = <<>>
           /\ \A k \in 1..Len(seqs) : f[k] = f[k - 1] \o seqs[k]
           /\ FlattenSeq(seqs) = f[Len(seqs)]
<1> DEFINE n == Len(seqs)
           next == [k \in 1..n |-> [s \in Seq(V) |-> s \o seqs[k]]]
<1>1. n \in Nat /\ \A k \in 1..n : seqs[k] \in Seq(V)
  BY ElementOfSeq
<1>2. next \in [1..n -> [Seq(V) -> Seq(V)]]
  BY <1>1
<1>3. PICK f \in [0..n -> Seq(V)] :
        f[0] = <<>> /\ \A k \in 1..n : f[k] = next[k][f[k - 1]]
  <2>1. <<>> \in Seq(V)
    OBVIOUS
  <2> DEFINE all == Seq(V)
  <2>2. n \in Nat /\ <<>> \in all /\ next \in [1..n -> [all -> all]]
    BY <1>1, <1>2, <2>1
  <2> HIDE DEF next, n, all
  <2>3. LoopHasResults(n, all, <<>>, next)
    BY <2>2, FunctionByRecursion
  <2> QED BY <2>3 DEF all, LoopHasResults
<1>4. ASSUME NEW k \in 1..n PROVE f[k] = f[k - 1] \o seqs[k]
  <2>1. f[k - 1] \in Seq(V)
    <3>1. k - 1 \in 0..n
      BY <1>1
    <3> QED BY <3>1
  <2>2. next[k][f[k - 1]] = f[k - 1] \o seqs[k]
    BY <2>1
  <2> QED BY <1>3, <2>2
<1>5. FlattenSeq(seqs) = f[n]
  <2>1. CASE n = 0
    <3>1. seqs = <<>>
      BY <2>1
    <3> QED BY <2>1, <3>1, <1>3 DEF FlattenSeq
  <2>2. CASE n # 0
    <3> DEFINE Flat(g) == g = [i \in 1..n |-> IF i = 1 THEN seqs[i]
                                               ELSE g[i - 1] \o seqs[i]]
               h == [i \in 1..n |-> f[i]]
    <3>1. FlattenSeq(seqs) = (CHOOSE g : Flat(g))[n]
      BY <2>2 DEF FlattenSeq
    <3> HIDE DEF Flat
    <3>2. Flat(h)
      <4>1. ASSUME NEW i \in 1..n
            PROVE  h[i] = IF i = 1 THEN seqs[i] ELSE h[i - 1] \o seqs[i]
        <5>1. CASE i = 1
          <6>1. f[i] = <<>> \o seqs[i]
            BY <1>3, <1>4, <5>1, 1 - 1 = 0
          <6>2. seqs[i] \in Seq(V)
            BY <1>1
          <6> QED BY <5>1, <6>1, <6>2, ConcatEmptySeq
        <5>2. CASE i # 1
          <6>1. i - 1 \in 1..n
            BY <5>2, <1>1
          <6> QED BY <5>2, <6>1, <1>4
        <5> QED BY <5>1, <5>2
      <4> QED BY <4>1 DEF Flat
    <3>3. Flat(CHOOSE g : Flat(g))
      BY <3>2
    <3> DEFINE g == CHOOSE g : Flat(g)
    <3> HIDE DEF g
    <3>4. \A i \in 1..n : g[i] = IF i = 1 THEN seqs[i] ELSE g[i - 1] \o seqs[i]
      BY <3>3 DEF Flat, g
    <3>5. \A i \in 1..n : g[i] = f[i]
      <4> DEFINE Bad == {i \in 1..n : g[i] # f[i]}
      <4>1. SUFFICES ASSUME Bad # {} PROVE FALSE
        OBVIOUS
      <4>2. PICK i \in Bad : \A j \in Bad : i <= j
        <5>1. Bad \in SUBSET Nat
          OBVIOUS
        <5> QED BY <5>1, <4>1, LeastOfSet
      <4>3. i \in 1..n /\ i # 1
        <5>1. CASE i = 1
          <6>1. g[1] = seqs[1]
            BY <3>4, <5>1
          <6>2. f[1] = <<>> \o seqs[1]
            BY <1>3, <1>4, <5>1, 1 - 1 = 0
          <6>3. seqs[1] \in Seq(V)
            BY <1>1, <5>1
          <6>4. g[1] = f[1]
            BY <6>1, <6>2, <6>3, ConcatEmptySeq
          <6> QED BY <5>1, <6>4
        <5> QED BY <5>1
      <4>4. i - 1 \in 1..n /\ ~(i <= i - 1)
        BY <4>3, <1>1
      <4>5. g[i - 1] = f[i - 1]
        BY <4>2, <4>4
      <4> QED BY <3>4, <1>4, <4>3, <4>5
    <3>6. FlattenSeq(seqs) = g[n]
      BY <3>1 DEF g
    <3>7. n \in 1..n
      BY <2>2, <1>1
    <3> QED BY <3>5, <3>6, <3>7
  <2> QED BY <2>1, <2>2
<1> QED BY <1>3, <1>4, <1>5

-----------------------------------------------------------------------------
(* What the handlers answer, as bytes.                                     *)

Bytes == 0..255

(* A negative response is three bytes, and none of its codes is the one    *)
(* the client library keeps for a timeout.                                 *)
LEMMA NegativeIsBytes ==
  ASSUME NEW sid \in Bytes, NEW nrc \in NRCs
  PROVE  /\ NegativeBytes(sid, nrc) \in Seq(Bytes)
         /\ Len(NegativeBytes(sid, nrc)) = 3
         /\ NegativeBytes(sid, nrc)[1] = 127
         /\ NegativeBytes(sid, nrc)[2] = sid
         /\ NegativeBytes(sid, nrc)[3] = NrcOf[nrc]
         /\ nrc # "TIMEOUT" => NrcOf[nrc] # 1
<1>1. NrcOf[nrc] \in Bytes /\ (nrc # "TIMEOUT" => NrcOf[nrc] # 1)
  BY DEF NRCs, NrcOf, Bytes
<1>2. 127 \in Bytes
  BY DEF Bytes
<1> QED BY <1>1, <1>2 DEF NegativeBytes

(* The values of both programs are bytes. *)
LEMMA ServiceValues ==
  \A d \in DOMAIN ServiceValue : ServiceValue[d] \in Seq(Bytes)
<1>1. DOMAIN ServiceValue = {\h5678, \h1234, \hABCD, \h0123, \h3456}
  BY DEF ServiceValue
<1>2. ServiceValue[\h5678] \in Seq(Bytes)
  <2>1. ServiceValue[\h5678] = <<\h0C, \h30>>
    BY DEF ServiceValue
  <2> QED BY <2>1 DEF Bytes
<1>3. ServiceValue[\h1234] \in Seq(Bytes)
  <2>1. ServiceValue[\h1234] = <<\h00, \h64>>
    BY DEF ServiceValue
  <2> QED BY <2>1 DEF Bytes
<1>4. ServiceValue[\hABCD] \in Seq(Bytes)
  <2>1. ServiceValue[\hABCD] = <<\h3C>>
    BY DEF ServiceValue
  <2> QED BY <2>1 DEF Bytes
<1>5. ServiceValue[\h0123] \in Seq(Bytes)
  <2>1. ServiceValue[\h0123] = <<\h01, \h00>>
    BY DEF ServiceValue
  <2> QED BY <2>1 DEF Bytes
<1>6. ServiceValue[\h3456] \in Seq(Bytes)
  <2>1. ServiceValue[\h3456] = <<\h27>>
    BY DEF ServiceValue
  <2> QED BY <2>1 DEF Bytes
<1> QED BY <1>1, <1>2, <1>3, <1>4, <1>5, <1>6

(* What server_test reads its identifiers as. *)
LEMMA TestValues ==
  /\ DOMAIN TestValue = {\hF190, \h1234, \h5678}
  /\ TestValue[\hF190] = <<\h01, \h02, \h03, \h04>>
  /\ TestValue[\h1234] = <<\hAA, \hBB>>
  /\ TestValue[\h5678] = <<\h11, \h22, \h33>>
BY DEF TestValue

(* Two bytes make an identifier that gives them back. *)
LEMMA DidParts ==
  ASSUME NEW high \in Bytes, NEW low \in Bytes
  PROVE  /\ Did(high, low) \in Nat
         /\ Did(high, low) \div 256 = high
         /\ Did(high, low) % 256 = low
BY DEF Did, Bytes

(* Concatenation, of bytes. *)
LEMMA JoinedInTurn ==
  ASSUME NEW s \in Seq(Bytes), NEW t \in Seq(Bytes), NEW u \in Seq(Bytes)
  PROVE  (s \o t) \o u = s \o (t \o u)
BY ConcatAssociative

-----------------------------------------------------------------------------
(* The loop of read_data_handler.                                          *)

(* The identifiers of a request with a whole number of them. *)
DidsOf(request) ==
  [i \in 1..((Len(request) - 1) \div 2) |->
     Did(request[2 * i], request[2 * i + 1])]

(* The response after each of its rounds, which ReadDids takes the last of. *)
LoopResults(request, f) ==
  LET rounds == (Len(request) - 1) \div 2
  IN /\ f \in [0..rounds -> Seq(Bytes)]
     /\ f[0] = <<request[1] + \h40>>
     /\ \A k \in 1..rounds : f[k] = ReadDid(request, k, f[k - 1])
     /\ ReadDids(request) = f[rounds]

(* A round of the loop makes bytes of bytes. *)
LEMMA ReadDidIsBytes ==
  ASSUME NEW request \in Seq(Bytes), NEW k \in Nat, k > 0, 2 * k + 1 <= Len(request),
         NEW response \in Seq(Bytes)
  PROVE  ReadDid(request, k, response) \in Seq(Bytes)
<1>1. request[2 * k] \in Bytes /\ request[2 * k + 1] \in Bytes /\ request[1] \in Bytes
  BY ElementOfSeq
<1>2. <<request[2 * k], request[2 * k + 1]>> \in Seq(Bytes)
  BY <1>1
<1>3. NegativeBytes(request[1], "REQUEST_OUT_OF_RANGE") \in Seq(Bytes)
  BY <1>1, NegativeIsBytes DEF NRCs
<1>4. ASSUME NEW did \in DOMAIN ServiceValue
      PROVE  response \o <<request[2 * k], request[2 * k + 1]>> \o ServiceValue[did]
               \in Seq(Bytes)
  BY <1>2, ServiceValues, ConcatProperties
<1> QED BY <1>3, <1>4 DEF ReadDid

(* The loop of read_data_handler, as a function of its rounds. *)
LEMMA ReadDidsByRecursion ==
  ASSUME NEW request \in Seq(Bytes), request # <<>>, request[1] + 64 \in Bytes
  PROVE  \E f : LoopResults(request, f)
<1> DEFINE n == (Len(request) - 1) \div 2
           all == Seq(Bytes)
           base == <<request[1] + 64>>
           next == [k \in 1..n |-> [r \in all |-> ReadDid(request, k, r)]]
           Fits(g) == g = [k \in 0..n |-> IF k = 0 THEN <<request[1] + 64>>
                                         ELSE ReadDid(request, k, g[k - 1])]
           h == CHOOSE g : Fits(g)
<1>1. n \in Nat /\ \A k \in 1..n : k \in Nat /\ k > 0 /\ 2 * k + 1 <= Len(request)
  <2>1. Len(request) \in Nat /\ Len(request) > 0
    BY EmptySeq
  <2> QED BY <2>1
<1>2. base \in all /\ next \in [1..n -> [all -> all]]
  BY <1>1, ReadDidIsBytes
<1>3. LoopHasResults(n, all, base, next)
  <2> HIDE DEF n, all, base, next
  <2> QED BY <1>1, <1>2, FunctionByRecursion
<1>4. PICK f \in [0..n -> all] :
        f[0] = base /\ \A k \in 1..n : f[k] = next[k][f[k - 1]]
  BY <1>3 DEF LoopHasResults
<1>5. ASSUME NEW k \in 1..n PROVE f[k] = ReadDid(request, k, f[k - 1])
  <2>1. k - 1 \in 0..n
    BY <1>1
  <2>2. f[k - 1] \in all
    BY <2>1
  <2> QED BY <1>4, <2>2
<1>6. Fits(f)
  <2>1. ASSUME NEW k \in 0..n
        PROVE  f[k] = IF k = 0 THEN <<request[1] + 64>>
                      ELSE ReadDid(request, k, f[k - 1])
    <3>1. CASE k = 0
      BY <3>1, <1>4
    <3>2. CASE k # 0
      <4>1. k \in 1..n
        BY <3>2, <1>1
      <4> QED BY <3>2, <4>1, <1>5
    <3> QED BY <3>1, <3>2
  <2> QED BY <2>1
<1>7. Fits(h)
  <2> HIDE DEF Fits
  <2> QED BY <1>6
<1> HIDE DEF h
<1>8. \A k \in 0..n : h[k] = IF k = 0 THEN <<request[1] + 64>>
                              ELSE ReadDid(request, k, h[k - 1])
  BY <1>7
<1>9. \A k \in 0..n : h[k] = f[k]
  <2> DEFINE Bad == {k \in 0..n : h[k] # f[k]}
  <2>1. SUFFICES ASSUME Bad # {} PROVE FALSE
    OBVIOUS
  <2>2. PICK k \in Bad : \A j \in Bad : k <= j
    <3>1. Bad \in SUBSET Nat
      OBVIOUS
    <3> QED BY <3>1, <2>1, LeastOfSet
  <2>3. k \in 1..n
    BY <1>1, <1>4, <1>8
  <2>4. k - 1 \in 0..n /\ ~(k <= k - 1)
    BY <2>3, <1>1
  <2>5. h[k - 1] = f[k - 1]
    BY <2>2, <2>4
  <2>6. h[k] = ReadDid(request, k, h[k - 1])
    BY <2>3, <1>8
  <2> QED BY <2>6, <1>5, <2>3, <2>5
<1>10. ReadDids(request) = f[n]
  <2>1. ReadDids(request) = h[n]
    BY DEF ReadDids, h
  <2> QED BY <2>1, <1>9, <1>1
<1> QED BY <1>4, <1>5, <1>10 DEF LoopResults

(* A request for n identifiers is taken apart into them. *)
LEMMA DidsAre ==
  ASSUME NEW request \in Seq(Bytes), NEW n \in Nat, Len(request) = 2 * n + 1
  PROVE  /\ (Len(request) - 1) \div 2 = n
         /\ DidsOf(request) \in Seq(Nat) /\ Len(DidsOf(request)) = n
         /\ DOMAIN DidsOf(request) = 1..n
         /\ \A k \in 1..n :
              /\ request[2 * k] \in Bytes /\ request[2 * k + 1] \in Bytes
              /\ DidsOf(request)[k] = Did(request[2 * k], request[2 * k + 1])
<1>1. (Len(request) - 1) \div 2 = n
  OBVIOUS
<1>2. ASSUME NEW k \in 1..n
      PROVE  request[2 * k] \in Bytes /\ request[2 * k + 1] \in Bytes
  BY ElementOfSeq
<1>3. ASSUME NEW k \in 1..n
      PROVE  Did(request[2 * k], request[2 * k + 1]) \in Nat
  <2> DEFINE high == request[2 * k]
             low  == request[2 * k + 1]
  <2>1. high \in Bytes /\ low \in Bytes
    BY <1>2
  <2> HIDE DEF high, low
  <2>2. Did(high, low) \in Nat
    BY <2>1, DidParts, Zenon
  <2> QED BY <2>2, Zenon DEF high, low
<1> DEFINE dids == [k \in 1..n |-> Did(request[2 * k], request[2 * k + 1])]
<1>4. DidsOf(request) = dids
  BY <1>1 DEF DidsOf
<1>5. dids \in [1..n -> Nat]
  BY <1>3, Zenon
<1>6. dids \in Seq(Nat) /\ Len(dids) = n /\ DOMAIN dids = 1..n
  <2> HIDE DEF dids
  <2> QED BY <1>5
<1> QED BY <1>1, <1>2, <1>4, <1>6

(* The first m identifiers have values. *)
KnownUpTo(request, m) ==
  \A k \in 1..m : DidsOf(request)[k] \in DOMAIN ServiceValue

(* As long as every identifier has a value the response grows by it. *)
LEMMA LoopGrows ==
  ASSUME NEW request \in Seq(Bytes), request # <<>>, request[1] = 34,
         NEW n \in Nat, Len(request) = 2 * n + 1,
         NEW f, LoopResults(request, f), NEW m \in 0..n, KnownUpTo(request, m)
  PROVE  f[m] # <<>> /\ f[m][1] = 98
<1> DEFINE Bad == {k \in 0..m : ~(f[k] # <<>> /\ f[k][1] = 98)}
<1>1. SUFFICES ASSUME Bad # {} PROVE FALSE
  OBVIOUS
<1>2. PICK k \in Bad : \A j \in Bad : k <= j
  <2>1. Bad \in SUBSET Nat
    OBVIOUS
  <2> QED BY <2>1, <1>1, LeastOfSet
<1>3. /\ f[0] = <<98>> /\ f \in [0..n -> Seq(Bytes)]
      /\ \A j \in 1..n : f[j] = ReadDid(request, j, f[j - 1])
  <2>1. (Len(request) - 1) \div 2 = n
    OBVIOUS
  <2> QED BY <2>1 DEF LoopResults
<1>4. k \in 1..m
  BY <1>3
<1>5. k - 1 \in 0..m /\ ~(k <= k - 1) /\ k \in 1..n /\ k - 1 \in 0..n
  BY <1>4
<1>6. f[k - 1] # <<>> /\ f[k - 1][1] = 98
  BY <1>2, <1>5
<1> DEFINE pair == <<request[2 * k], request[2 * k + 1]>>
           did == Did(request[2 * k], request[2 * k + 1])
<1>7. did \in DOMAIN ServiceValue /\ pair \in Seq(Bytes)
  <2>1. /\ request[2 * k] \in Bytes /\ request[2 * k + 1] \in Bytes
        /\ DidsOf(request)[k] = did
    BY <1>5, DidsAre
  <2> QED BY <2>1, <1>4 DEF KnownUpTo
<1>8. f[k] = f[k - 1] \o pair \o ServiceValue[did]
  <2>1. f[k] = ReadDid(request, k, f[k - 1])
    BY <1>3, <1>5
  <2> QED BY <2>1, <1>6, <1>7 DEF ReadDid
<1>9. f[k] # <<>> /\ f[k][1] = 98
  <2>1. f[k - 1] \in Seq(Bytes) /\ ServiceValue[did] \in Seq(Bytes)
    BY <1>3, <1>5, <1>7, ServiceValues
  <2> HIDE DEF pair, did
  <2>2. f[k - 1] \o pair \in Seq(Bytes) /\ f[k - 1] \o pair # <<>>
          /\ (f[k - 1] \o pair)[1] = 98
    BY <1>6, <1>7, <2>1
  <2> DEFINE grown == f[k - 1] \o pair
             value == ServiceValue[did]
  <2>3. ASSUME NEW s \in Seq(Bytes), s # <<>>, s[1] = 98, NEW v \in Seq(Bytes)
        PROVE  s \o v # <<>> /\ (s \o v)[1] = 98
    BY <2>3
  <2>4. grown \in Seq(Bytes) /\ grown # <<>> /\ grown[1] = 98 /\ value \in Seq(Bytes)
    BY <2>1, <2>2
  <2> HIDE DEF grown, value
  <2>5. grown \o value # <<>> /\ (grown \o value)[1] = 98
    BY <2>3, <2>4
  <2> QED BY <1>8, <2>5 DEF grown, value
<1> QED BY <1>2, <1>9

(* From the first identifier that has none on the response is negative. *)
LEMMA LoopStops ==
  ASSUME NEW request \in Seq(Bytes), request # <<>>, request[1] = 34,
         NEW n \in Nat, Len(request) = 2 * n + 1,
         NEW f, LoopResults(request, f),
         NEW u \in 1..n, DidsOf(request)[u] \notin DOMAIN ServiceValue,
         NEW m \in u..n
  PROVE  f[m] = NegativeBytes(34, "REQUEST_OUT_OF_RANGE")
<1> DEFINE Unknown == {k \in 1..n : DidsOf(request)[k] \notin DOMAIN ServiceValue}
           refusal == NegativeBytes(34, "REQUEST_OUT_OF_RANGE")
<1>1. PICK first \in Unknown : \A j \in Unknown : first <= j
  <2>1. Unknown \in SUBSET Nat /\ Unknown # {}
    OBVIOUS
  <2> QED BY <2>1, LeastOfSet
<1>2. first \in 1..n /\ first <= u /\ m \in first..n /\ first - 1 \in 0..n
  BY <1>1
<1>3. \A j \in 1..n : f[j] = ReadDid(request, j, f[j - 1])
  <2>1. (Len(request) - 1) \div 2 = n
    OBVIOUS
  <2> QED BY <2>1 DEF LoopResults
<1>4. f[first] = refusal
  <2>1. ASSUME NEW k \in 1..(first - 1)
        PROVE  DidsOf(request)[k] \in DOMAIN ServiceValue
    <3>1. k \in 1..n /\ ~(first <= k)
      BY <1>2
    <3> QED BY <3>1, <1>1
  <2>2. f[first - 1] # <<>> /\ f[first - 1][1] = 98
    <3> DEFINE before == first - 1
    <3>1. before \in 0..n /\ KnownUpTo(request, before)
      BY <1>2, <2>1 DEF KnownUpTo
    <3> HIDE DEF before
    <3>2. f[before] # <<>> /\ f[before][1] = 98
      BY <3>1, LoopGrows
    <3> QED BY <3>2 DEF before
  <2>3. Did(request[2 * first], request[2 * first + 1]) \notin DOMAIN ServiceValue
    BY <1>1, <1>2, DidsAre
  <2>4. f[first] = ReadDid(request, first, f[first - 1])
    BY <1>2, <1>3
  <2> QED BY <2>2, <2>3, <2>4 DEF ReadDid
<1>5. refusal[1] = 127
  <2>1. 34 \in Bytes /\ "REQUEST_OUT_OF_RANGE" \in NRCs
    BY DEF NRCs, Bytes
  <2> QED BY <2>1, NegativeIsBytes
<1> DEFINE Bad == {k \in first..n : f[k] # refusal}
<1>6. SUFFICES ASSUME Bad # {} PROVE FALSE
  BY <1>2
<1> HIDE DEF refusal
<1>7. PICK k \in Bad : \A j \in Bad : k <= j
  <2>1. Bad \in SUBSET Nat
    BY <1>2
  <2> QED BY <2>1, <1>6, LeastOfSet
<1>8. k \in 1..n /\ k - 1 \in first..n /\ ~(k <= k - 1)
  BY <1>2, <1>4
<1>9. f[k - 1] = refusal
  BY <1>7, <1>8
<1> QED BY <1>3, <1>5, <1>7, <1>8, <1>9 DEF ReadDid

(* With a value for every identifier the response is all the values. *)
LEMMA LoopEnds ==
  ASSUME NEW request \in Seq(Bytes), request # <<>>, request[1] = 34,
         NEW n \in Nat, Len(request) = 2 * n + 1,
         KnownUpTo(request, n)
  PROVE  /\ ValuesRead(DidsOf(request)) \in Seq(Bytes)
         /\ ReadDids(request) = <<98>> \o ValuesRead(DidsOf(request))
<1> DEFINE dids == DidsOf(request)
           values == [i \in 1..n |->
                        <<dids[i] \div 256, dids[i] % 256>> \o ServiceValue[dids[i]]]
<1>1. PICK f : LoopResults(request, f)
  <2>1. request[1] + 64 \in Bytes
    BY DEF Bytes
  <2> QED BY <2>1, ReadDidsByRecursion
<1>2. /\ f[0] = <<98>> /\ f \in [0..n -> Seq(Bytes)] /\ ReadDids(request) = f[n]
      /\ \A k \in 1..n : f[k] = ReadDid(request, k, f[k - 1])
  <2>1. (Len(request) - 1) \div 2 = n
    OBVIOUS
  <2> QED BY <1>1, <2>1 DEF LoopResults
<1>3. ASSUME NEW k \in 1..n
      PROVE  /\ values[k] \in Seq(Bytes)
             /\ f[k] = f[k - 1] \o values[k]
  <2> DEFINE high == request[2 * k]
             low  == request[2 * k + 1]
             did  == Did(high, low)
  <2>1. /\ high \in Bytes /\ low \in Bytes /\ dids[k] = did
        /\ did \in DOMAIN ServiceValue
    BY <1>3, DidsAre DEF KnownUpTo
  <2>2. f[k] = ReadDid(request, k, f[k - 1])
    BY <1>2
  <2>3. f[k - 1] # <<>> /\ f[k - 1][1] = 98 /\ f[k - 1] \in Seq(Bytes)
    <3> DEFINE before == k - 1
    <3>1. before \in 0..n /\ KnownUpTo(request, before)
      BY DEF KnownUpTo
    <3> HIDE DEF before, values, dids, high, low, did
    <3>2. f[before] # <<>> /\ f[before][1] = 98
      BY <1>1, <3>1, LoopGrows
    <3>3. f[before] \in Seq(Bytes)
      BY <1>2, <3>1
    <3> QED BY <3>2, <3>3 DEF before
  <2>4. f[k] = (f[k - 1] \o <<high, low>>) \o ServiceValue[did]
    <3> HIDE DEF values, dids
    <3>1. f[k - 1][1] # 127
      BY <2>3
    <3> QED BY <2>1, <2>2, <3>1 DEF ReadDid
  <2>5. values[k] = <<high, low>> \o ServiceValue[did]
    <3>1. did \div 256 = high /\ did % 256 = low
      <4> HIDE DEF high, low
      <4> QED BY <2>1, DidParts
    <3> QED BY <2>1, <3>1
  <2>6. <<high, low>> \in Seq(Bytes) /\ ServiceValue[did] \in Seq(Bytes)
    <3>1. ServiceValue[did] \in Seq(Bytes)
      BY <2>1, ServiceValues
    <3> QED BY <2>1, <3>1
  <2> DEFINE pair == <<high, low>>
             value == ServiceValue[did]
  <2>7. pair \o value \in Seq(Bytes)
    <3> HIDE DEF pair, value
    <3>1. pair \in Seq(Bytes) /\ value \in Seq(Bytes)
      BY <2>6 DEF pair, value
    <3> QED BY <3>1
  <2>8. (f[k - 1] \o pair) \o value = f[k - 1] \o (pair \o value)
    <3> HIDE DEF pair, value
    <3>1. pair \in Seq(Bytes) /\ value \in Seq(Bytes)
      BY <2>6 DEF pair, value
    <3> DEFINE before == f[k - 1]
    <3>2. before \in Seq(Bytes)
      BY <2>3
    <3> HIDE DEF before
    <3>3. (before \o pair) \o value = before \o (pair \o value)
      BY <3>1, <3>2, JoinedInTurn
    <3> QED BY <3>3 DEF before
  <2> QED BY <2>4, <2>5, <2>7, <2>8
<1>4. /\ values \in Seq(Seq(Bytes)) /\ Len(values) = n
      /\ ValuesRead(dids) = FlattenSeq(values)
  <2>1. DOMAIN dids = 1..n
    BY DidsAre
  <2>2. ValuesRead(dids) = FlattenSeq(values)
    BY <2>1 DEF ValuesRead
  <2>3. values \in [1..n -> Seq(Bytes)]
    <3> DEFINE value(i) == <<dids[i] \div 256, dids[i] % 256>> \o ServiceValue[dids[i]]
    <3>1. \A i \in 1..n : value(i) \in Seq(Bytes)
      BY <1>3
    <3> HIDE DEF value
    <3>2. [i \in 1..n |-> value(i)] \in [1..n -> Seq(Bytes)]
      BY <3>1
    <3> QED BY <3>2 DEF value
  <2> HIDE DEF values, dids
  <2> QED BY <2>2, <2>3
<1>5. PICK g \in [0..n -> Seq(Bytes)] :
        /\ g[0] = <<>>
        /\ \A k \in 1..n : g[k] = g[k - 1] \o values[k]
        /\ FlattenSeq(values) = g[n]
  <2> HIDE DEF values
  <2> QED BY <1>4, FlattenByRecursion
<1> HIDE DEF values, dids
<1>6. \A k \in 0..n : f[k] = <<98>> \o g[k]
  <2> DEFINE Bad == {k \in 0..n : f[k] # <<98>> \o g[k]}
  <2>1. SUFFICES ASSUME Bad # {} PROVE FALSE
    OBVIOUS
  <2>2. PICK k \in Bad : \A j \in Bad : k <= j
    <3>1. Bad \in SUBSET Nat
      OBVIOUS
    <3> QED BY <3>1, <2>1, LeastOfSet
  <2>3. <<98>> \in Seq(Bytes)
    BY DEF Bytes
  <2>4. k \in 1..n
    <3>1. <<98>> \o <<>> = <<98>>
      BY <2>3, ConcatEmptySeq
    <3>2. k # 0
      BY <1>2, <1>5, <3>1
    <3> QED BY <3>2
  <2>5. k - 1 \in 0..n /\ ~(k <= k - 1)
    BY <2>4
  <2>6. f[k - 1] = <<98>> \o g[k - 1]
    BY <2>2, <2>5
  <2>7. f[k] = (<<98>> \o g[k - 1]) \o values[k]
    BY <2>4, <2>6, <1>3
  <2>8. g[k - 1] \in Seq(Bytes) /\ values[k] \in Seq(Bytes)
    BY <2>4, <2>5, <1>3
  <2>9. f[k] = <<98>> \o (g[k - 1] \o values[k])
    <3> DEFINE head == <<98>>
    <3> HIDE DEF head
    <3>1. ASSUME NEW s \in Seq(Bytes), NEW t \in Seq(Bytes)
          PROVE  (head \o s) \o t = head \o (s \o t)
      BY <2>3, JoinedInTurn DEF head
    <3> QED BY <2>7, <2>8, <3>1 DEF head
  <2> QED BY <2>2, <2>4, <2>9, <1>5
<1>7. f[n] = <<98>> \o g[n] /\ g[n] \in Seq(Bytes)
  <2>1. n \in 0..n
    OBVIOUS
  <2> QED BY <1>5, <1>6, <2>1
<1> QED BY <1>2, <1>4, <1>5, <1>7 DEF dids

-----------------------------------------------------------------------------
(* The handlers and the abstract protocol.                                 *)

(* The identifiers Decode finds behind the service of a read request. *)
LEMMA DecodedRead ==
  ASSUME NEW request \in Seq(Bytes), NEW len \in Nat, Len(request) = len, len > 0,
         request[1] = 34
  PROVE  /\ Decode(request).sid = ReadData
         /\ len % 2 = 1 => Decode(request).args = DidsOf(request)
         /\ len % 2 = 0 => \E i \in DOMAIN Decode(request).args :
                            Decode(request).args[i] = HalfDid
<1> DEFINE args == Tail(request)
           pairs == Len(args) \div 2
           dids == [i \in 1..pairs |-> Did(args[2 * i - 1], args[2 * i])]
<1>1. /\ args \in Seq(Bytes) /\ Len(args) = len - 1
      /\ \A i \in 1..(len - 1) : args[i] = request[i + 1]
  BY HeadTailProperties
<1>2. /\ Decode(request).sid = ReadData
      /\ Decode(request).args =
           IF Len(args) % 2 = 0 THEN dids ELSE Append(dids, HalfDid)
  <2>1. request # <<>> /\ request[1] # SidOf[SessionControl]
          /\ request[1] = SidOf[ReadData]
    BY DEF SidOf, SessionControl, ReadData
  <2>2. Decode(request) =
          [sid |-> ReadData,
           args |-> IF Len(args) % 2 = 0 THEN dids ELSE Append(dids, HalfDid)]
    BY <2>1 DEF Decode
  <2> HIDE DEF args, dids
  <2> QED BY <2>2
<1>3. pairs = (len - 1) \div 2 /\ pairs \in Nat
  BY <1>1
<1>4. dids = DidsOf(request)
  <2>1. ASSUME NEW i \in 1..pairs
        PROVE  args[2 * i - 1] = request[2 * i] /\ args[2 * i] = request[2 * i + 1]
    <3>1. 2 * i - 1 \in 1..(len - 1) /\ 2 * i \in 1..(len - 1)
      <4> HIDE DEF pairs
      <4> QED BY <1>3
    <3>2. 2 * i - 1 + 1 = 2 * i
      BY <1>3
    <3> HIDE DEF args, pairs
    <3> QED BY <1>1, <3>1, <3>2
  <2>2. pairs = (Len(request) - 1) \div 2
    BY <1>3
  <2> HIDE DEF args, pairs
  <2> QED BY <2>1, <2>2 DEF DidsOf
<1>5. len % 2 = 1 <=> Len(args) % 2 = 0
  BY <1>1
<1>6. Append(dids, HalfDid)[pairs + 1] = HalfDid
        /\ pairs + 1 \in DOMAIN Append(dids, HalfDid)
  <2> DEFINE S == Nat \union {HalfDid}
  <2>1. \A i \in 1..pairs : args[2 * i - 1] \in Bytes /\ args[2 * i] \in Bytes
    <3> SUFFICES ASSUME NEW i \in 1..pairs
                 PROVE  args[2 * i - 1] \in Bytes /\ args[2 * i] \in Bytes
      OBVIOUS
    <3>1. 2 * i - 1 \in 1..(len - 1) /\ 2 * i \in 1..(len - 1)
      <4> HIDE DEF pairs
      <4> QED BY <1>3
    <3> HIDE DEF args, pairs
    <3> QED BY <1>1, <3>1, ElementOfSeq
  <2>2. \A i \in 1..pairs : Did(args[2 * i - 1], args[2 * i]) \in Nat
    <3> HIDE DEF args, pairs
    <3> QED BY <2>1, DidParts
  <2>3. dids \in Seq(S) /\ Len(dids) = pairs
    <3> HIDE DEF args, pairs
    <3> QED BY <1>3, <2>2
  <2>4. HalfDid \in S
    OBVIOUS
  <2> HIDE DEF dids, pairs, S
  <2>5. /\ Append(dids, HalfDid) \in Seq(S)
        /\ Len(Append(dids, HalfDid)) = pairs + 1
        /\ Append(dids, HalfDid)[pairs + 1] = HalfDid
    BY <2>3, <2>4, AppendProperties
  <2> QED BY <2>5, <1>3
<1> HIDE DEF args, dids, pairs
<1> QED BY <1>2, <1>4, <1>5, <1>6

(* read_data_handler answers what the abstract protocol does. *)
LEMMA ServiceReadFollows ==
  ASSUME NEW request \in Seq(Bytes), request # <<>>, request[1] = 34
  PROVE  /\ ServiceRead(request) = Encode(ReadDataHandler(Decode(request)), request)
         /\ \/ /\ ServiceRead(request) = <<98>> \o ValuesRead(Decode(request).args)
               /\ ValuesRead(Decode(request).args) \in Seq(Bytes)
            \/ \E nrc \in NRCs \ {"TIMEOUT"} :
                 ServiceRead(request) = NegativeBytes(34, nrc)
<1> DEFINE asked == {Decode(request).args[i] : i \in DOMAIN Decode(request).args}
           format == "INCORRECT_MESSAGE_LENGTH_OR_INVALID_FORMAT"
           range == "REQUEST_OUT_OF_RANGE"
<1>1. PICK len \in Nat : len = Len(request) /\ len > 0
  BY EmptySeq
<1>2. /\ asked = {} \/ HalfDid \in asked =>
           ReadDataHandler(Decode(request)) = Negative(ReadData, format)
      /\ asked # {} /\ HalfDid \notin asked =>
           ReadDataHandler(Decode(request)) =
             IF asked \subseteq KnownDids THEN Positive(ReadData, Decode(request).args)
             ELSE Negative(ReadData, range)
  <2> DEFINE args == Decode(request).args
  <2>0. HalfDid \notin KnownDids
    BY ProtocolAssumption
  <2>1. ASSUME asked = {} \/ HalfDid \in asked
        PROVE  ReadDataHandler(Decode(request)) = Negative(ReadData, format)
    <3>1. ~(asked # {} /\ asked \subseteq KnownDids)
      BY <2>0, <2>1
    <3> QED BY <2>1, <3>1 DEF ReadDataHandler
  <2>2. ASSUME asked # {}, HalfDid \notin asked, asked \subseteq KnownDids
        PROVE  ReadDataHandler(Decode(request)) = Positive(ReadData, args)
    BY <2>2 DEF ReadDataHandler
  <2>3. ASSUME asked # {}, HalfDid \notin asked, ~(asked \subseteq KnownDids)
        PROVE  ReadDataHandler(Decode(request)) = Negative(ReadData, range)
    BY <2>3 DEF ReadDataHandler
  <2> QED BY <2>1, <2>2, <2>3
<1>3. ASSUME NEW nrc \in NRCs \ {"TIMEOUT", "NO_ERROR"}
      PROVE  Encode(Negative(ReadData, nrc), request) = NegativeBytes(34, nrc)
  BY DEF Encode, Negative, IsPositive
<1>4. Encode(Positive(ReadData, Decode(request).args), request)
        = <<98>> \o ValuesRead(Decode(request).args)
  <2> DEFINE args == Decode(request).args
  <2> HIDE DEF args
  <2>1. Positive(ReadData, args).nrc = "NO_ERROR" /\ Positive(ReadData, args).sid = ReadData
          /\ Positive(ReadData, args).args = args
    BY DEF Positive
  <2>2. Encode(Positive(ReadData, args), request) = <<request[1] + 64>> \o ValuesRead(args)
    BY <2>1 DEF Encode, IsPositive
  <2>3. request[1] + 64 = 98
    OBVIOUS
  <2> QED BY <2>2, <2>3 DEF args
<1>5. format \in NRCs \ {"TIMEOUT", "NO_ERROR"} /\ range \in NRCs \ {"TIMEOUT", "NO_ERROR"}
  BY DEF NRCs
<1>6. CASE len < 3 \/ len % 2 = 0
  <2>1. ServiceRead(request) = NegativeBytes(34, format)
    BY <1>1, <1>6 DEF ServiceRead
  <2>2. asked = {} \/ HalfDid \in asked
    <3>1. CASE len % 2 = 0
      BY <1>1, <3>1, DecodedRead
    <3>2. CASE len % 2 # 0
      <4>1. len = 2 * 0 + 1 /\ 0 \in Nat
        BY <1>1, <1>6, <3>2
      <4>2. Decode(request).args = DidsOf(request)
        <5>1. len % 2 = 1
          BY <4>1
        <5> HIDE DEF asked
        <5> QED BY <1>1, <5>1, DecodedRead
      <4>3. DOMAIN DidsOf(request) = 1..0
        BY <1>1, <4>1, DidsAre
      <4> QED BY <4>2, <4>3
    <3> QED BY <3>1, <3>2
  <2> QED BY <1>2, <1>3, <1>5, <2>1, <2>2
<1>7. CASE len >= 3 /\ len % 2 = 1
  <2>1. ServiceRead(request) = ReadDids(request)
    BY <1>1, <1>7 DEF ServiceRead
  <2>2. PICK n \in Nat : n > 0 /\ len = 2 * n + 1
    <3>1. len \div 2 \in Nat /\ len \div 2 > 0 /\ len = 2 * (len \div 2) + 1
      BY <1>1, <1>7
    <3> QED BY <3>1
  <2>3. Decode(request).args = DidsOf(request)
    BY <1>1, <1>7, DecodedRead
  <2>4. /\ DOMAIN DidsOf(request) = 1..n /\ DidsOf(request) \in Seq(Nat)
        /\ \A k \in 1..n : DidsOf(request)[k] \in Nat
    <3>1. DOMAIN DidsOf(request) = 1..n /\ DidsOf(request) \in Seq(Nat)
            /\ Len(DidsOf(request)) = n
      BY <1>1, <2>2, DidsAre
    <3> DEFINE dids == DidsOf(request)
    <3> HIDE DEF dids
    <3>2. \A k \in 1..n : dids[k] \in Nat
      BY <3>1, ElementOfSeq DEF dids
    <3> QED BY <3>1, <3>2 DEF dids
  <2>5. asked # {} /\ HalfDid \notin asked
    <3>1. 1 \in 1..n
      BY <2>2
    <3>2. HalfDid \notin Nat
      BY BenchAssumption
    <3> QED BY <2>3, <2>4, <3>1, <3>2
  <2>6. asked \subseteq KnownDids
          <=> \A k \in 1..n : DidsOf(request)[k] \in DOMAIN ServiceValue
    <3>1. KnownDids = DOMAIN ServiceValue
      BY BenchAssumption
    <3> QED BY <2>3, <2>4, <3>1
  <2>7. CASE asked \subseteq KnownDids
    <3>1. /\ ValuesRead(DidsOf(request)) \in Seq(Bytes)
          /\ ReadDids(request) = <<98>> \o ValuesRead(DidsOf(request))
      <4>1. KnownUpTo(request, n)
        BY <2>6, <2>7 DEF KnownUpTo
      <4>2. Len(request) = 2 * n + 1
        BY <1>1, <2>2
      <4> QED BY <4>1, <4>2, LoopEnds
    <3> QED BY <1>2, <1>4, <2>1, <2>3, <2>5, <2>7, <3>1
  <2>8. CASE ~(asked \subseteq KnownDids)
    <3>1. ReadDids(request) = NegativeBytes(34, range)
      <4>1. PICK u \in 1..n : DidsOf(request)[u] \notin DOMAIN ServiceValue
        BY <2>6, <2>8
      <4>2. PICK f : LoopResults(request, f)
        <5>1. request[1] + 64 \in Bytes
          BY DEF Bytes
        <5> QED BY <5>1, ReadDidsByRecursion
      <4>3. n \in u..n /\ (Len(request) - 1) \div 2 = n
        BY <1>1, <2>2
      <4>4. f[n] = NegativeBytes(34, range)
        <5> HIDE DEF asked, format
        <5>1. Len(request) = 2 * n + 1
          BY <1>1, <2>2
        <5>2. f[n] = NegativeBytes(34, "REQUEST_OUT_OF_RANGE")
          BY <4>1, <4>2, <4>3, <5>1, LoopStops
        <5> QED BY <5>2
      <4> QED BY <4>2, <4>3, <4>4 DEF LoopResults
    <3> QED BY <1>2, <1>3, <1>5, <2>1, <2>5, <2>8, <3>1
  <2> QED BY <2>7, <2>8
<1> QED BY <1>1, <1>6, <1>7

(* The bytes of the sessions reading is allowed in are those sessions. *)
LEMMA ReadingIsAllowed ==
  ASSUME NEW byte \in Bytes
  PROVE  ReadAllowed(byte) <=> SessionOf(byte) \in AllowedSessions[ReadData]
<1>1. AllowedSessions[ReadData] = {"DEFAULT", "EXTENDED"}
  BY DEF AllowedSessions, ReadData, SessionControl
<1>2. DOMAIN SessionName = 1..5
  BY DEF SessionName
<1>3. CASE byte \in 1..5
  BY <1>1, <1>2, <1>3 DEF ReadAllowed, SessionOf
<1>4. CASE byte \notin 1..5
  <2>1. SessionOf(byte) \in ForeignSessions
    BY <1>2, <1>4, BenchAssumption DEF SessionOf
  <2>2. ForeignSessions \intersect AllowedSessions[ReadData] = {}
    BY <1>1, ProtocolAssumption DEF SupportedSessions
  <2> QED BY <1>2, <1>4, <2>1, <2>2 DEF ReadAllowed
<1> QED BY <1>3, <1>4

(* service_handler answers every request in every session as the abstract  *)
(* protocol does.                                                          *)
LEMMA HandlersFollowProtocol ==
  ASSUME NEW request \in Seq(Bytes), request # <<>>, NEW byte \in Bytes
  PROVE  HandleBytes("service_handler", request, byte)
           = Encode(HandleRequest(Decode(request), SessionOf(byte)), request)
<1> DEFINE decoded == Decode(request)
<1>1. SidOf[SessionControl] = 16 /\ SidOf[ReadData] = 34
  BY DEF SidOf, SessionControl, ReadData
<1>2. CASE request[1] = 16
  <2> DEFINE args == Tail(request)
  <2>1. decoded = [sid |-> SessionControl,
                   args |-> [i \in DOMAIN args |-> SessionOf(args[i])]]
    BY <1>1, <1>2 DEF Decode
  <2>2. HandleRequest(decoded, SessionOf(byte)) = HandleSessionControl(decoded)
    <3>1. decoded.sid = SessionControl
      BY <2>1
    <3> HIDE DEF decoded
    <3> QED BY <3>1 DEF HandleRequest, SessionControl, NoService, ReadData, EcuReset
  <2>3. CASE Len(request) < 2
    <3>1. args = <<>>
      BY <2>3, EmptySeq, HeadTailProperties
    <3>2. decoded.args = <<>>
      BY <2>1, <3>1
    <3>3. HandleSessionControl(decoded)
            = Negative(SessionControl, "INCORRECT_MESSAGE_LENGTH_OR_INVALID_FORMAT")
      BY <3>2 DEF HandleSessionControl
    <3>4. HandleBytes("service_handler", request, byte)
            = NegativeBytes(request[1], "INCORRECT_MESSAGE_LENGTH_OR_INVALID_FORMAT")
      BY <1>1, <1>2, <2>3 DEF HandleBytes
    <3> QED BY <2>2, <3>3, <3>4 DEF Encode, Negative, IsPositive
  <2>4. CASE Len(request) >= 2
    <3>1. args \in Seq(Bytes) /\ Len(args) = Len(request) - 1 /\ args # <<>>
      <4> HIDE DEF decoded
      <4>1. args \in Seq(Bytes) /\ Len(args) = Len(request) - 1
        BY HeadTailProperties
      <4> HIDE DEF args
      <4> QED BY <2>4, <4>1
    <3>2. decoded.args # <<>>
      <4>1. 1 \in DOMAIN args
        <5> HIDE DEF args
        <5> QED BY <3>1
      <4> HIDE DEF args
      <4> QED BY <2>1, <4>1
    <3>3. HandleSessionControl(decoded) = Positive(SessionControl, <<Head(decoded.args)>>)
      BY <3>2 DEF HandleSessionControl
    <3>4. HandleBytes("service_handler", request, byte) = <<request[1] + 64, request[2]>>
      BY <1>1, <1>2, <2>4 DEF HandleBytes
    <3>5. SessionControl # ReadData
      BY DEF SessionControl, ReadData
    <3> DEFINE echo == <<Head(decoded.args)>>
               answer == Positive(SessionControl, echo)
    <3> HIDE DEF decoded, echo
    <3>6. answer.nrc = "NO_ERROR" /\ answer.sid = SessionControl
      BY DEF Positive
    <3>7. Encode(answer, request) = <<request[1] + 64, request[2]>>
      <4> HIDE DEF answer
      <4> QED BY <3>5, <3>6 DEF Encode, IsPositive
    <3>8. HandleRequest(decoded, SessionOf(byte)) = answer
      BY <2>2, <3>3 DEF echo
    <3> HIDE DEF answer
    <3> QED BY <3>4, <3>7, <3>8 DEF decoded
  <2> QED BY <2>3, <2>4
<1>3. CASE request[1] = 34
  <2>1. decoded.sid = ReadData
    BY <1>3, EmptySeq, DecodedRead
  <2>2. HandleRequest(decoded, SessionOf(byte)) =
          IF ReadAllowed(byte) THEN ReadDataHandler(decoded)
          ELSE Negative(ReadData, "SERVICE_NOT_SUPPORTED_IN_ACTIVE_SESSION")
    <3> HIDE DEF decoded
    <3> QED BY <2>1, ReadingIsAllowed
          DEF HandleRequest, SessionControl, NoService, ReadData, EcuReset
  <2>3. HandleBytes("service_handler", request, byte) =
          IF ~ReadAllowed(byte)
          THEN NegativeBytes(request[1], "SERVICE_NOT_SUPPORTED_IN_ACTIVE_SESSION")
          ELSE ServiceRead(request)
    BY <1>1, <1>3 DEF HandleBytes
  <2>4. CASE ReadAllowed(byte)
    BY <1>3, <2>2, <2>3, <2>4, ServiceReadFollows
  <2>5. CASE ~ReadAllowed(byte)
    <3> HIDE DEF decoded
    <3> DEFINE nrc == "SERVICE_NOT_SUPPORTED_IN_ACTIVE_SESSION"
    <3>1. HandleRequest(decoded, SessionOf(byte)) = Negative(ReadData, nrc)
      BY <2>2, <2>5
    <3>2. HandleBytes("service_handler", request, byte) = NegativeBytes(request[1], nrc)
      BY <2>3, <2>5
    <3>3. Encode(Negative(ReadData, nrc), request) = NegativeBytes(request[1], nrc)
      BY DEF Encode, Negative, IsPositive
    <3> QED BY <3>1, <3>2, <3>3 DEF decoded
  <2> QED BY <2>4, <2>5
<1>4. CASE request[1] # 16 /\ request[1] # 34
  <2>1. decoded = [sid |-> EcuReset, args |-> <<>>]
    BY <1>1, <1>4 DEF Decode
  <2>2. HandleRequest(decoded, SessionOf(byte)) = Negative(EcuReset, "SERVICE_NOT_SUPPORTED")
    <3>1. decoded.sid = EcuReset
      BY <2>1
    <3> HIDE DEF decoded
    <3> QED BY <3>1 DEF HandleRequest, SessionControl, NoService, ReadData, EcuReset
  <2>3. HandleBytes("service_handler", request, byte)
          = NegativeBytes(request[1], "SERVICE_NOT_SUPPORTED")
    BY <1>1, <1>4 DEF HandleBytes
  <2> QED BY <2>2, <2>3 DEF Encode, Negative, IsPositive
<1> QED BY <1>2, <1>3, <1>4

(* The session a request leaves is the one it leaves in the protocol.      *)
LEMMA SessionFollows ==
  ASSUME NEW request \in Seq(Bytes), request # <<>>, NEW byte \in Bytes
  PROVE  SessionOf(SessionByteAfter(request, byte))
           = SessionAfter(Decode(request), SessionOf(byte))
<1> DEFINE args == Tail(request)
           names == [i \in DOMAIN args |-> SessionOf(args[i])]
<1>1. SidOf[SessionControl] = 16 /\ SidOf[ReadData] = 34
  BY DEF SidOf, SessionControl, ReadData
<1>2. args \in Seq(Bytes) /\ Len(args) = Len(request) - 1
        /\ \A i \in 1..Len(args) : args[i] = request[i + 1]
  BY HeadTailProperties
<1>3. CASE request[1] = 16
  <2>1. Decode(request) = [sid |-> SessionControl, args |-> names]
    BY <1>1, <1>3 DEF Decode
  <2> HIDE DEF args
  <2>2. CASE Len(request) < 2
    <3>1. args = <<>>
      <4>1. Len(args) = 0
        BY <1>2, <2>2, EmptySeq
      <4> QED BY <1>2, <4>1, EmptySeq
    <3>2. Decode(request).args = <<>>
      BY <2>1, <3>1
    <3> QED BY <2>2, <3>2 DEF SessionByteAfter, SessionAfter
  <2>3. CASE Len(request) >= 2
    <3>1. 1 \in DOMAIN args /\ args[1] = request[2]
      BY <1>2, <2>3
    <3>2. names # <<>> /\ names[1] = SessionOf(request[2])
      BY <3>1
    <3>3. Head(names) = SessionOf(request[2])
      BY <3>2
    <3> HIDE DEF names
    <3>4. SessionAfter(Decode(request), SessionOf(byte)) = SessionOf(request[2])
      BY <2>1, <3>2, <3>3 DEF SessionAfter
    <3>5. SessionByteAfter(request, byte) = request[2]
      BY <1>1, <1>3, <2>3 DEF SessionByteAfter
    <3> QED BY <3>4, <3>5
  <2> QED BY <1>2, <2>2, <2>3
<1>4. CASE request[1] # 16
  <2>1. Decode(request).sid # SessionControl
    <3>1. CASE request[1] = 34
      BY <3>1, DecodedRead DEF ReadData, SessionControl
    <3>2. CASE request[1] # 34
      <4>1. Decode(request) = [sid |-> EcuReset, args |-> <<>>]
        BY <1>1, <1>4, <3>2 DEF Decode
      <4> QED BY <4>1 DEF EcuReset, SessionControl
    <3> QED BY <3>1, <3>2
  <2>2. SessionAfter(Decode(request), SessionOf(byte)) = SessionOf(byte)
    BY <2>1 DEF SessionAfter
  <2>3. SessionByteAfter(request, byte) = byte
    BY <1>1, <1>4 DEF SessionByteAfter
  <2> QED BY <2>2, <2>3
<1> QED BY <1>3, <1>4

(* What the client library may be sent: if it is negative it names the     *)
(* service, and its code is none of the client's own.                      *)
IsResponse(sid, response) ==
  /\ response \in Seq(Bytes) /\ response # <<>>
  /\ response[1] = 127 =>
       Len(response) = 3 /\ response[2] = sid /\ response[3] # 1

(* A negative response is one. *)
LEMMA NegativeIsResponse ==
  ASSUME NEW sid \in Bytes, NEW nrc \in NRCs \ {"TIMEOUT"}
  PROVE  IsResponse(sid, NegativeBytes(sid, nrc))
<1> DEFINE response == NegativeBytes(sid, nrc)
<1>1. /\ response \in Seq(Bytes) /\ Len(response) = 3 /\ response[2] = sid
      /\ response[3] # 1
  BY NegativeIsBytes
<1> HIDE DEF response
<1>2. response # <<>>
  BY <1>1
<1>3. IsResponse(sid, response)
  BY <1>1, <1>2 DEF IsResponse
<1> QED BY <1>3 DEF response

(* What server_test answers a read with is one. *)
LEMMA TestReadIsResponse ==
  ASSUME NEW request \in Seq(Bytes), request # <<>>, request[1] = 34
  PROVE  IsResponse(34, TestRead(request))
<1>1. 34 \in Bytes /\ "REQUEST_OUT_OF_RANGE" \in NRCs \ {"TIMEOUT"}
        /\ "INCORRECT_MESSAGE_LENGTH_OR_INVALID_FORMAT" \in NRCs \ {"TIMEOUT"}
  BY DEF Bytes, NRCs
<1>2. CASE Len(request) < 3
  BY <1>1, <1>2, NegativeIsResponse DEF TestRead
<1>3. CASE Len(request) >= 3
  <2> DEFINE did == Did(request[2], request[3])
             head == <<98, request[2], request[3]>>
  <2>1. head \in Seq(Bytes) /\ head # <<>> /\ head[1] = 98
    <3>1. request[2] \in Bytes /\ request[3] \in Bytes /\ 98 \in Bytes
      <4>1. 2 \in 1..Len(request) /\ 3 \in 1..Len(request)
        BY <1>3
      <4>2. request[2] \in Bytes /\ request[3] \in Bytes
        BY <4>1, ElementOfSeq
      <4> QED BY <4>2 DEF Bytes
    <3> QED BY <3>1
  <2>2. TestRead(request) = IF did \in DOMAIN TestValue THEN head \o TestValue[did]
                            ELSE NegativeBytes(34, "REQUEST_OUT_OF_RANGE")
    <3>1. request[1] + 64 = 98
      OBVIOUS
    <3> QED BY <1>3, <3>1 DEF TestRead
  <2> HIDE DEF head, did
  <2>3. CASE did \in DOMAIN TestValue
    <3>1. TestValue[did] \in Seq(Bytes)
      <4>1. TestValue[\hF190] \in Seq(Bytes)
        BY TestValues DEF Bytes
      <4>2. TestValue[\h1234] \in Seq(Bytes)
        BY TestValues DEF Bytes
      <4>3. TestValue[\h5678] \in Seq(Bytes)
        BY TestValues DEF Bytes
      <4>4. did \in {\hF190, \h1234, \h5678}
        BY <2>3, TestValues
      <4> QED BY <4>1, <4>2, <4>3, <4>4
    <3>2. head \o TestValue[did] \in Seq(Bytes) /\ head \o TestValue[did] # <<>>
            /\ (head \o TestValue[did])[1] = 98
      BY <2>1, <3>1
    <3> QED BY <2>2, <2>3, <3>2 DEF IsResponse
  <2>4. CASE did \notin DOMAIN TestValue
    BY <1>1, <2>2, <2>4, NegativeIsResponse
  <2> QED BY <2>3, <2>4
<1> QED BY <1>2, <1>3, EmptySeq

(* What service_handler answers a read with is one. *)
LEMMA ServiceReadIsResponse ==
  ASSUME NEW request \in Seq(Bytes), request # <<>>, request[1] = 34
  PROVE  IsResponse(34, ServiceRead(request))
<1>1. 34 \in Bytes
  BY DEF Bytes
<1>2. CASE \E nrc \in NRCs \ {"TIMEOUT"} : ServiceRead(request) = NegativeBytes(34, nrc)
  BY <1>1, <1>2, NegativeIsResponse
<1>3. CASE /\ ServiceRead(request) = <<98>> \o ValuesRead(Decode(request).args)
           /\ ValuesRead(Decode(request).args) \in Seq(Bytes)
  <2> DEFINE whole == ValuesRead(Decode(request).args)
  <2> HIDE DEF whole
  <2>1. <<98>> \in Seq(Bytes)
    BY DEF Bytes
  <2>2. /\ <<98>> \o whole \in Seq(Bytes) /\ <<98>> \o whole # <<>>
        /\ (<<98>> \o whole)[1] = 98
    BY <1>3, <2>1 DEF whole
  <2> QED BY <1>3, <2>2 DEF IsResponse, whole
<1> QED BY <1>2, <1>3, ServiceReadFollows

(* Whatever a server of either program answers is a response. *)
LEMMA HandledIsResponse ==
  ASSUME NEW program \in {"server_test", "service_handler"},
         NEW request \in Seq(Bytes), request # <<>>, NEW byte
  PROVE  IsResponse(request[1], HandleBytes(program, request, byte))
<1> DEFINE sid == request[1]
<1>1. sid \in Bytes
  BY EmptySeq, ElementOfSeq
<1>2. SidOf[SessionControl] = 16 /\ SidOf[ReadData] = 34
  BY DEF SidOf, SessionControl, ReadData
<1>3. ASSUME NEW nrc \in {"INCORRECT_MESSAGE_LENGTH_OR_INVALID_FORMAT",
                          "SERVICE_NOT_SUPPORTED_IN_ACTIVE_SESSION",
                          "SERVICE_NOT_SUPPORTED"}
      PROVE  IsResponse(sid, NegativeBytes(sid, nrc))
  <2>1. nrc \in NRCs \ {"TIMEOUT"}
    BY DEF NRCs
  <2> HIDE DEF sid
  <2> QED BY <1>1, <2>1, NegativeIsResponse
<1>4. CASE sid = 16
  <2>1. CASE Len(request) < 2
    BY <1>2, <1>3, <1>4, <2>1 DEF HandleBytes
  <2>2. CASE Len(request) >= 2
    <3>1. HandleBytes(program, request, byte) = <<80, request[2]>>
      <4>1. sid + 64 = 80
        BY <1>4
      <4> QED BY <1>2, <1>4, <2>2, <4>1 DEF HandleBytes
    <3>2. request[2] \in Bytes /\ 80 \in Bytes
      BY <2>2, ElementOfSeq DEF Bytes
    <3> QED BY <3>1, <3>2 DEF IsResponse
  <2> QED BY <2>1, <2>2, EmptySeq
<1>5. CASE sid = 34
  <2>1. HandleBytes(program, request, byte) =
          IF ~ReadAllowed(byte)
          THEN NegativeBytes(sid, "SERVICE_NOT_SUPPORTED_IN_ACTIVE_SESSION")
          ELSE IF program = "server_test" THEN TestRead(request) ELSE ServiceRead(request)
    BY <1>2, <1>5 DEF HandleBytes
  <2> QED BY <1>3, <1>5, <2>1, TestReadIsResponse, ServiceReadIsResponse
<1>6. CASE sid # 16 /\ sid # 34
  <2>1. HandleBytes(program, request, byte) = NegativeBytes(sid, "SERVICE_NOT_SUPPORTED")
    BY <1>2, <1>6 DEF HandleBytes
  <2> QED BY <1>3, <2>1
<1> QED BY <1>4, <1>5, <1>6

-----------------------------------------------------------------------------
(* What the client makes of a response.                                    *)

Outcomes == [success : BOOLEAN, nrc : Bytes, payload : Seq(Bytes)]

(* receive() gives the bytes there is room for, in particular the first    *)
(* seven.                                                                  *)
LEMMA ReceivedBytes ==
  ASSUME NEW message \in Seq(Bytes)
  PROVE  /\ Received(message) \in Seq(Bytes)
         /\ message # <<>> => Received(message) # <<>>
         /\ Len(message) < BufferSize => Received(message) = message
         /\ Len(message) >= BufferSize =>
              Received(message) = SubSeq(message, 1, BufferSize)
         /\ Len(Received(message)) <= Len(message)
         /\ \A i \in 1..Len(message) : i < 8 =>
              i <= Len(Received(message)) /\ Received(message)[i] = message[i]
<1>1. BufferSize \in Nat /\ BufferSize > 7
  BY CanTpAssumption
<1>2. CASE Len(message) < BufferSize
  <2>1. Received(message) = message
    BY <1>2, SubSeqFull DEF Received
  <2> QED BY <1>1, <1>2, <2>1
<1>3. CASE Len(message) >= BufferSize
  <2>1. Received(message) = SubSeq(message, 1, BufferSize)
    BY <1>1, <1>3 DEF Received
  <2>2. \A i \in 1..BufferSize : message[i] \in Bytes
    <3>1. \A i \in 1..BufferSize : i \in 1..Len(message)
      BY <1>1, <1>3
    <3> QED BY <3>1, ElementOfSeq
  <2>3. /\ SubSeq(message, 1, BufferSize) \in Seq(Bytes)
        /\ Len(SubSeq(message, 1, BufferSize)) = BufferSize
        /\ \A i \in 1..BufferSize : SubSeq(message, 1, BufferSize)[i] = message[i]
    BY <1>1, <2>2, SubSeqProperties
  <2> QED BY <1>1, <1>3, <2>1, <2>3
<1> QED BY <1>1, <1>2, <1>3

(* The two answers a call looks for. *)
Confirmed(op, request, response) ==
  /\ response # <<>> /\ response[1] = request[1] + 64
  /\ op = "set_session" => Len(response) >= 2 /\ response[2] = request[2]

Refused(request, response) ==
  Len(response) >= 3 /\ response[1] = 127 /\ response[2] = request[1]

(* The three ways a call ends that was answered. *)
LEMMA OutcomeCases ==
  ASSUME NEW op, NEW request, NEW response
  PROVE  /\ Confirmed(op, request, response) =>
              OutcomeOf(op, request, response) =
                Outcome(TRUE, 0, IF op = "set_session" THEN <<>> ELSE Tail(response))
         /\ ~Confirmed(op, request, response) /\ Refused(request, response) =>
              OutcomeOf(op, request, response) = Outcome(FALSE, response[3], <<>>)
         /\ ~Confirmed(op, request, response) /\ ~Refused(request, response) =>
              OutcomeOf(op, request, response) = Outcome(FALSE, 16, <<>>)
<1>1. NrcOf.NO_ERROR = 0 /\ NrcOf.GENERAL_REJECT = 16
  BY DEF NrcOf
<1>2. ASSUME Confirmed(op, request, response)
      PROVE  OutcomeOf(op, request, response) =
               Outcome(TRUE, 0, IF op = "set_session" THEN <<>> ELSE Tail(response))
  BY <1>1, <1>2 DEF OutcomeOf, Confirmed
<1>3. ASSUME ~Confirmed(op, request, response), Refused(request, response)
      PROVE  OutcomeOf(op, request, response) = Outcome(FALSE, response[3], <<>>)
  BY <1>3 DEF OutcomeOf, Confirmed, Refused
<1>4. ASSUME ~Confirmed(op, request, response), ~Refused(request, response)
      PROVE  OutcomeOf(op, request, response) = Outcome(FALSE, 16, <<>>)
  BY <1>1, <1>4 DEF OutcomeOf, Confirmed, Refused, Rejected
<1> QED BY <1>2, <1>3, <1>4

(* An outcome is one, whatever was asked and however it was answered. *)
LEMMA OutcomeIsOutcome ==
  ASSUME NEW op, NEW request, NEW response \in Seq(Bytes)
  PROVE  OutcomeOf(op, request, response) \in Outcomes
<1>1. 0 \in Bytes /\ 16 \in Bytes
  BY DEF Bytes
<1>2. \A nrc \in Bytes : Outcome(FALSE, nrc, <<>>) \in Outcomes
  BY DEF Outcome, Outcomes
<1>3. CASE Confirmed(op, request, response)
  <2>1. Tail(response) \in Seq(Bytes)
    BY <1>3, HeadTailProperties DEF Confirmed
  <2>2. Outcome(TRUE, 0, IF op = "set_session" THEN <<>> ELSE Tail(response)) \in Outcomes
    BY <1>1, <2>1 DEF Outcome, Outcomes
  <2> QED BY <1>3, <2>2, OutcomeCases
<1>4. CASE ~Confirmed(op, request, response) /\ Refused(request, response)
  <2>1. response[3] \in Bytes
    <3>1. 3 \in 1..Len(response)
      BY <1>4 DEF Refused
    <3> QED BY <3>1, ElementOfSeq
  <2> QED BY <1>2, <1>4, <2>1, OutcomeCases
<1>5. CASE ~Confirmed(op, request, response) /\ ~Refused(request, response)
  BY <1>1, <1>2, <1>5, OutcomeCases
<1> QED BY <1>3, <1>4, <1>5

(* An answer is never taken for a timeout. *)
LEMMA AnswerIsNoTimeout ==
  ASSUME NEW op, NEW request, NEW sid, NEW response, IsResponse(sid, response)
  PROVE  OutcomeOf(op, request, Received(response)) # TimedOut
<1> DEFINE received == Received(response)
<1>1. response \in Seq(Bytes) /\ response # <<>>
  BY DEF IsResponse
<1>2. /\ received \in Seq(Bytes) /\ received # <<>> /\ received[1] = response[1]
      /\ Len(response) >= 3 => Len(received) >= 3 /\ received[3] = response[3]
      /\ Len(received) <= Len(response)
  <2>1. 1 \in 1..Len(response)
    BY <1>1, EmptySeq
  <2>2. Len(response) >= 3 => 3 \in 1..Len(response)
    OBVIOUS
  <2> QED BY <1>1, <2>1, <2>2, ReceivedBytes
<1> HIDE DEF received
<1>3. TimedOut = Outcome(FALSE, 1, <<>>)
  BY DEF TimedOut, NrcOf
<1>4. CASE Confirmed(op, request, received)
  BY <1>3, <1>4, OutcomeCases DEF Outcome, received
<1>5. CASE ~Confirmed(op, request, received) /\ Refused(request, received)
  <2>1. received[3] # 1
    BY <1>2, <1>5 DEF Refused, IsResponse
  <2>2. OutcomeOf(op, request, received) = Outcome(FALSE, received[3], <<>>)
    BY <1>5, OutcomeCases
  <2> QED BY <1>3, <2>1, <2>2 DEF Outcome, received
<1>6. CASE ~Confirmed(op, request, received) /\ ~Refused(request, received)
  <2>1. OutcomeOf(op, request, received) = Outcome(FALSE, 16, <<>>)
    BY <1>6, OutcomeCases
  <2> QED BY <1>3, <2>1 DEF Outcome, received
<1> QED BY <1>4, <1>5, <1>6 DEF received

-----------------------------------------------------------------------------
(* The calls of client_test.                                               *)

TestAnswer(k) == HandleBytes("server_test", Script[k].request, 3)
TestResult(k) == OutcomeOf(Script[k].op, Script[k].request, TestAnswer(k))

(* The calls, one by one. *)
LEMMA ScriptCalls ==
  /\ DOMAIN Script = 1..7
  /\ Script[1] = Call("set_session", <<16, 3>>)
  /\ Script[2] = Call("send_request", <<34, \hF1, \h90>>)
  /\ Script[3] = Call("send_request", <<34, \h12, \h34>>)
  /\ Script[4] = Call("send_request", <<34, \h56, \h78>>)
  /\ Script[5] = Call("send_request", <<34, \h99, \h88>>)
  /\ Script[6] = Call("send_request", <<16, \h99>>)
  /\ Script[7] = Call("send_request_no_response", <<17, 1, 2, 3>>)
BY DEF Script

(* Session 3, the one client_test sets, allows reading. *)
LEMMA ReadInSession3 == ReadAllowed(3)
<1>1. DOMAIN SessionName = 1..5 /\ SessionName[3] = "EXTENDED"
  BY DEF SessionName
<1>2. "EXTENDED" \in AllowedSessions[ReadData]
  BY DEF AllowedSessions, ReadData, SessionControl
<1> QED BY <1>1, <1>2 DEF ReadAllowed

(* A read of three bytes by server_test, in session 3. *)
LEMMA TestReads ==
  ASSUME NEW high \in Bytes, NEW low \in Bytes
  PROVE  HandleBytes("server_test", <<34, high, low>>, 3) =
           IF Did(high, low) \in DOMAIN TestValue
           THEN <<98, high, low>> \o TestValue[Did(high, low)]
           ELSE NegativeBytes(34, "REQUEST_OUT_OF_RANGE")
<1> DEFINE request == <<34, high, low>>
<1>1. request # <<>> /\ Len(request) = 3 /\ request[1] = 34 /\ request[2] = high
        /\ request[3] = low
  OBVIOUS
<1> HIDE DEF request
<1>2. SidOf[SessionControl] = 16 /\ SidOf[ReadData] = 34
  BY DEF SidOf, SessionControl, ReadData
<1>3. HandleBytes("server_test", request, 3) = TestRead(request)
  BY <1>1, <1>2, ReadInSession3 DEF HandleBytes
<1>4. TestRead(request) =
        IF Did(high, low) \in DOMAIN TestValue
        THEN <<98, high, low>> \o TestValue[Did(high, low)]
        ELSE NegativeBytes(34, "REQUEST_OUT_OF_RANGE")
  <2>1. request[1] + 64 = 98 /\ ~(Len(request) < 3)
    BY <1>1
  <2> QED BY <1>1, <2>1 DEF TestRead
<1> QED BY <1>3, <1>4 DEF request

(* Such a read of an identifier that is known. *)
LEMMA TestReadAnswers ==
  ASSUME NEW high \in Bytes, NEW low \in Bytes, Did(high, low) \in DOMAIN TestValue
  PROVE  HandleBytes("server_test", <<34, high, low>>, 3)
           = <<98, high, low>> \o TestValue[Did(high, low)]
<1> DEFINE value == TestValue[Did(high, low)]
<1> HIDE DEF value
<1>1. HandleBytes("server_test", <<34, high, low>>, 3) =
        IF Did(high, low) \in DOMAIN TestValue THEN <<98, high, low>> \o value
        ELSE NegativeBytes(34, "REQUEST_OUT_OF_RANGE")
  BY TestReads DEF value
<1> QED BY <1>1 DEF value

(* What the calls get for an answer. *)
LEMMA TestAnswers ==
  /\ TestAnswer(1) = <<80, 3>>
  /\ TestAnswer(2) = <<98, \hF1, \h90, 1, 2, 3, 4>>
  /\ TestAnswer(3) = <<98, \h12, \h34, \hAA, \hBB>>
  /\ TestAnswer(4) = <<98, \h56, \h78, \h11, \h22, \h33>>
  /\ TestAnswer(5) = <<127, 34, \h31>>
  /\ TestAnswer(6) = <<80, \h99>>
<1>1. SidOf[SessionControl] = 16 /\ SidOf[ReadData] = 34
  BY DEF SidOf, SessionControl, ReadData
<1>2. ASSUME NEW byte, NEW new \in Bytes
      PROVE  HandleBytes("server_test", <<16, new>>, byte) = <<80, new>>
  <2> DEFINE request == <<16, new>>
  <2>1. request # <<>> /\ Len(request) = 2 /\ request[1] = 16 /\ request[2] = new
    OBVIOUS
  <2> HIDE DEF request
  <2>2. HandleBytes("server_test", request, byte) = <<request[1] + 64, request[2]>>
    <3>1. ~(Len(request) < 2)
      BY <2>1
    <3> QED BY <1>1, <2>1, <3>1 DEF HandleBytes
  <2>3. request[1] + 64 = 80
    BY <2>1
  <2> QED BY <2>1, <2>2, <2>3 DEF request
<1>3. TestAnswer(1) = <<80, 3>>
  <2>1. 3 \in Bytes /\ Script[1].request = <<16, 3>>
    BY ScriptCalls DEF Call, Bytes
  <2> QED BY <1>2, <2>1 DEF TestAnswer
<1>4. TestAnswer(6) = <<80, \h99>>
  <2>1. \h99 \in Bytes /\ Script[6].request = <<16, \h99>>
    BY ScriptCalls DEF Call, Bytes
  <2> QED BY <1>2, <2>1 DEF TestAnswer
<1>5. TestAnswer(2) = <<98, \hF1, \h90, 1, 2, 3, 4>>
  <2>1. Script[2].request = <<34, \hF1, \h90>>
    BY ScriptCalls DEF Call
  <2>2. \hF1 \in Bytes /\ \h90 \in Bytes /\ Did(\hF1, \h90) = \hF190
    BY DEF Bytes, Did
  <2>3. TestAnswer(2) = <<98, \hF1, \h90>> \o TestValue[\hF190]
    <3>1. Did(\hF1, \h90) \in DOMAIN TestValue
      BY <2>2, TestValues
    <3> DEFINE high == \hF1
               low  == \h90
    <3>2. high \in Bytes /\ low \in Bytes /\ Did(high, low) = \hF190
      BY <2>2
    <3>3. Script[2].request = <<34, high, low>>
      BY <2>1
    <3>6. high \in Bytes /\ low \in Bytes /\ Did(high, low) \in DOMAIN TestValue
      BY <2>2, <3>1
    <3> HIDE DEF high, low
    <3>4. HandleBytes("server_test", <<34, high, low>>, 3)
            = <<98, high, low>> \o TestValue[Did(high, low)]
      BY <3>6, TestReadAnswers
    <3>5. TestAnswer(2) = <<98, high, low>> \o TestValue[Did(high, low)]
      BY <3>3, <3>4 DEF TestAnswer
    <3> QED BY <3>2, <3>5 DEF high, low
  <2>4. TestValue[\hF190] = <<1, 2, 3, 4>>
    BY TestValues
  <2> QED BY <2>3, <2>4
<1>6. TestAnswer(3) = <<98, \h12, \h34, \hAA, \hBB>>
  <2>1. Script[3].request = <<34, \h12, \h34>>
    BY ScriptCalls DEF Call
  <2>2. \h12 \in Bytes /\ \h34 \in Bytes /\ Did(\h12, \h34) = \h1234
    BY DEF Bytes, Did
  <2>3. TestAnswer(3) = <<98, \h12, \h34>> \o TestValue[\h1234]
    <3>1. Did(\h12, \h34) \in DOMAIN TestValue
      BY <2>2, TestValues
    <3> DEFINE high == \h12
               low  == \h34
    <3>2. high \in Bytes /\ low \in Bytes /\ Did(high, low) = \h1234
      BY <2>2
    <3>3. Script[3].request = <<34, high, low>>
      BY <2>1
    <3>6. high \in Bytes /\ low \in Bytes /\ Did(high, low) \in DOMAIN TestValue
      BY <2>2, <3>1
    <3> HIDE DEF high, low
    <3>4. HandleBytes("server_test", <<34, high, low>>, 3)
            = <<98, high, low>> \o TestValue[Did(high, low)]
      BY <3>6, TestReadAnswers
    <3>5. TestAnswer(3) = <<98, high, low>> \o TestValue[Did(high, low)]
      BY <3>3, <3>4 DEF TestAnswer
    <3> QED BY <3>2, <3>5 DEF high, low
  <2>4. TestValue[\h1234] = <<\hAA, \hBB>>
    BY TestValues
  <2> QED BY <2>3, <2>4
<1>7. TestAnswer(4) = <<98, \h56, \h78, \h11, \h22, \h33>>
  <2>1. Script[4].request = <<34, \h56, \h78>>
    BY ScriptCalls DEF Call
  <2>2. \h56 \in Bytes /\ \h78 \in Bytes /\ Did(\h56, \h78) = \h5678
    BY DEF Bytes, Did
  <2>3. TestAnswer(4) = <<98, \h56, \h78>> \o TestValue[\h5678]
    <3>1. Did(\h56, \h78) \in DOMAIN TestValue
      BY <2>2, TestValues
    <3> DEFINE high == \h56
               low  == \h78
    <3>2. high \in Bytes /\ low \in Bytes /\ Did(high, low) = \h5678
      BY <2>2
    <3>3. Script[4].request = <<34, high, low>>
      BY <2>1
    <3>6. high \in Bytes /\ low \in Bytes /\ Did(high, low) \in DOMAIN TestValue
      BY <2>2, <3>1
    <3> HIDE DEF high, low
    <3>4. HandleBytes("server_test", <<34, high, low>>, 3)
            = <<98, high, low>> \o TestValue[Did(high, low)]
      BY <3>6, TestReadAnswers
    <3>5. TestAnswer(4) = <<98, high, low>> \o TestValue[Did(high, low)]
      BY <3>3, <3>4 DEF TestAnswer
    <3> QED BY <3>2, <3>5 DEF high, low
  <2>4. TestValue[\h5678] = <<\h11, \h22, \h33>>
    BY TestValues
  <2> QED BY <2>3, <2>4
<1>8. TestAnswer(5) = <<127, 34, \h31>>
  <2>1. Script[5].request = <<34, \h99, \h88>>
    BY ScriptCalls DEF Call
  <2>2. \h99 \in Bytes /\ \h88 \in Bytes /\ Did(\h99, \h88) \notin DOMAIN TestValue
    BY TestValues DEF Bytes, Did
  <2>3. TestAnswer(5) = NegativeBytes(34, "REQUEST_OUT_OF_RANGE")
    <3>1. HandleBytes("server_test", <<34, \h99, \h88>>, 3)
            = NegativeBytes(34, "REQUEST_OUT_OF_RANGE")
      BY <2>2, TestReads
    <3> QED BY <2>1, <3>1 DEF TestAnswer
  <2>4. NrcOf["REQUEST_OUT_OF_RANGE"] = \h31
    BY DEF NrcOf
  <2> QED BY <2>3, <2>4 DEF NegativeBytes
<1> QED BY <1>3, <1>4, <1>5, <1>6, <1>7, <1>8

Messages == Seq(Bytes) \ {<<>>}

Calls == [op : {"set_session", "send_request", "send_request_no_response"},
          request : Messages]

FitsInFrame(call) == call \in Calls /\ Len(call.request) < 8

(* Each call of client_test is one, and what it sends fits in a frame; the *)
(* last alone waits for nothing.                                           *)
LEMMA TestCalls ==
  ASSUME NEW k \in 1..7
  PROVE  /\ FitsInFrame(Script[k])
         /\ k < 7 <=> Script[k].op # "send_request_no_response"
<1>1. \A n \in {1, 2, 3, 4, 16, 17, 34, \h12, \h34, \h56, \h78, \h88, \h90, \h99, \hF1} :
        n \in Bytes
  BY DEF Bytes
<1>2. ASSUME NEW op \in {"set_session", "send_request", "send_request_no_response"},
             NEW request \in Seq(Bytes), request # <<>>, Len(request) < 8
      PROVE  FitsInFrame(Call(op, request)) /\ Call(op, request).op = op
  <2>1. /\ Call(op, request) = [op |-> op, request |-> request]
        /\ request \in Messages
    BY <1>2 DEF Call, Messages
  <2> QED BY <1>2, <2>1 DEF Calls, FitsInFrame
<1>3. CASE k = 1
  <2> DEFINE request == <<16, 3>>
  <2>1. request \in Seq(Bytes) /\ request # <<>> /\ Len(request) < 8
    BY <1>1
  <2>2. Script[1] = Call("set_session", request)
    BY ScriptCalls
  <2> HIDE DEF request
  <2>3. FitsInFrame(Script[1]) /\ Script[1].op = "set_session"
    BY <1>2, <2>1, <2>2
  <2> QED BY <1>3, <2>3
<1>4. CASE k = 2
  <2> DEFINE request == <<34, \hF1, \h90>>
  <2>1. request \in Seq(Bytes) /\ request # <<>> /\ Len(request) < 8
    BY <1>1
  <2>2. Script[2] = Call("send_request", request)
    BY ScriptCalls
  <2> HIDE DEF request
  <2>3. FitsInFrame(Script[2]) /\ Script[2].op = "send_request"
    BY <1>2, <2>1, <2>2
  <2> QED BY <1>4, <2>3
<1>5. CASE k = 3
  <2> DEFINE request == <<34, \h12, \h34>>
  <2>1. request \in Seq(Bytes) /\ request # <<>> /\ Len(request) < 8
    BY <1>1
  <2>2. Script[3] = Call("send_request", request)
    BY ScriptCalls
  <2> HIDE DEF request
  <2>3. FitsInFrame(Script[3]) /\ Script[3].op = "send_request"
    BY <1>2, <2>1, <2>2
  <2> QED BY <1>5, <2>3
<1>6. CASE k = 4
  <2> DEFINE request == <<34, \h56, \h78>>
  <2>1. request \in Seq(Bytes) /\ request # <<>> /\ Len(request) < 8
    BY <1>1
  <2>2. Script[4] = Call("send_request", request)
    BY ScriptCalls
  <2> HIDE DEF request
  <2>3. FitsInFrame(Script[4]) /\ Script[4].op = "send_request"
    BY <1>2, <2>1, <2>2
  <2> QED BY <1>6, <2>3
<1>7. CASE k = 5
  <2> DEFINE request == <<34, \h99, \h88>>
  <2>1. request \in Seq(Bytes) /\ request # <<>> /\ Len(request) < 8
    BY <1>1
  <2>2. Script[5] = Call("send_request", request)
    BY ScriptCalls
  <2> HIDE DEF request
  <2>3. FitsInFrame(Script[5]) /\ Script[5].op = "send_request"
    BY <1>2, <2>1, <2>2
  <2> QED BY <1>7, <2>3
<1>8. CASE k = 6
  <2> DEFINE request == <<16, \h99>>
  <2>1. request \in Seq(Bytes) /\ request # <<>> /\ Len(request) < 8
    BY <1>1
  <2>2. Script[6] = Call("send_request", request)
    BY ScriptCalls
  <2> HIDE DEF request
  <2>3. FitsInFrame(Script[6]) /\ Script[6].op = "send_request"
    BY <1>2, <2>1, <2>2
  <2> QED BY <1>8, <2>3
<1>9. CASE k = 7
  <2> DEFINE request == <<17, 1, 2, 3>>
  <2>1. request \in Seq(Bytes) /\ request # <<>> /\ Len(request) < 8
    BY <1>1
  <2>2. Script[7] = Call("send_request_no_response", request)
    BY ScriptCalls
  <2> HIDE DEF request
  <2>3. FitsInFrame(Script[7]) /\ Script[7].op = "send_request_no_response"
    BY <1>2, <2>1, <2>2
  <2> QED BY <1>9, <2>3
<1> QED BY <1>3, <1>4, <1>5, <1>6, <1>7, <1>8, <1>9

(* A call has the answer it has in session 3 in whichever session it is    *)
(* served, but for those that read; the first one sets that session.       *)
LEMMA AnswersToTests ==
  ASSUME NEW k \in 1..6, NEW byte \in Bytes, k \in 2..5 => byte = 3
  PROVE  /\ HandleBytes("server_test", Script[k].request, byte) = TestAnswer(k)
         /\ k = 1 => SessionByteAfter(Script[k].request, byte) = 3
         /\ k \in 2..5 => SessionByteAfter(Script[k].request, byte) = byte
<1>1. SidOf[SessionControl] = 16
  BY DEF SidOf, SessionControl
<1>2. ASSUME NEW request \in Seq(Bytes), Len(request) = 2, request[1] = 16
      PROVE  HandleBytes("server_test", request, byte)
               = HandleBytes("server_test", request, 3)
  <2>1. request # <<>> /\ ~(Len(request) < 2)
    BY <1>2
  <2> QED BY <1>1, <1>2, <2>1 DEF HandleBytes
<1>3. CASE k = 1
  <2> DEFINE request == Script[1].request
  <2>1. request \in Seq(Bytes) /\ Len(request) = 2 /\ request[1] = 16 /\ request[2] = 3
    <3>1. request = <<16, 3>>
      BY ScriptCalls DEF Call
    <3>2. FitsInFrame(Script[1])
      BY TestCalls
    <3>3. request \in Seq(Bytes)
      BY <3>2 DEF FitsInFrame, Calls, Messages
    <3> HIDE DEF request
    <3> QED BY <3>1, <3>3
  <2> HIDE DEF request
  <2>2. SessionByteAfter(request, byte) = 3
    BY <1>1, <2>1 DEF SessionByteAfter
  <2>3. HandleBytes("server_test", request, byte) = TestAnswer(1)
    BY <1>2, <2>1 DEF TestAnswer, request
  <2> QED BY <1>3, <2>2, <2>3 DEF request
<1>4. CASE k = 6
  <2> DEFINE request == Script[6].request
  <2>1. request \in Seq(Bytes) /\ Len(request) = 2 /\ request[1] = 16
    <3>1. request = <<16, \h99>>
      BY ScriptCalls DEF Call
    <3>2. FitsInFrame(Script[6])
      BY TestCalls
    <3>3. request \in Seq(Bytes)
      BY <3>2 DEF FitsInFrame, Calls, Messages
    <3> HIDE DEF request
    <3> QED BY <3>1, <3>3
  <2> HIDE DEF request
  <2>2. HandleBytes("server_test", request, byte) = TestAnswer(6)
    BY <1>2, <2>1 DEF TestAnswer, request
  <2> QED BY <1>4, <2>2 DEF request
<1>5. CASE k \in 2..5
  <2>1. Script[k].request[1] = 34
    <3>1. CASE k = 2
      BY <3>1, ScriptCalls DEF Call
    <3>2. CASE k = 3
      BY <3>2, ScriptCalls DEF Call
    <3>3. CASE k = 4
      BY <3>3, ScriptCalls DEF Call
    <3>4. CASE k = 5
      BY <3>4, ScriptCalls DEF Call
    <3> QED BY <1>5, <3>1, <3>2, <3>3, <3>4
  <2>2. SessionByteAfter(Script[k].request, byte) = byte
    BY <1>1, <2>1 DEF SessionByteAfter
  <2> QED BY <1>5, <2>2 DEF TestAnswer
<1> QED BY <1>3, <1>4, <1>5

(* What the calls return is what client_test wants them to.                *)
LEMMA TestResults ==
  /\ TestResult(1).success
  /\ TestResult(2).success /\ Len(TestResult(2).payload) = 6
  /\ TestResult(3).success /\ Len(TestResult(3).payload) = 4
  /\ TestResult(4).success /\ Len(TestResult(4).payload) = 5
  /\ TestResult(5).nrc = \h31
<1>1. TestResult(1).success
  <2>1. TestResult(1) = OutcomeOf("set_session", <<16, 3>>, <<80, 3>>)
    BY ScriptCalls, TestAnswers DEF TestResult, Call
  <2>2. Confirmed("set_session", <<16, 3>>, <<80, 3>>)
    BY DEF Confirmed
  <2> QED BY <2>1, <2>2, OutcomeCases DEF Outcome
<1>2. ASSUME NEW request, NEW response, request[1] = 34, response # <<>>, response[1] = 98
      PROVE  OutcomeOf("send_request", request, response) = Outcome(TRUE, 0, Tail(response))
  <2>1. Confirmed("send_request", request, response)
    BY <1>2 DEF Confirmed
  <2> QED BY <2>1, OutcomeCases
<1>3. TestResult(2).success /\ Len(TestResult(2).payload) = 6
  <2>1. TestResult(2) = OutcomeOf("send_request", <<34, \hF1, \h90>>,
                                  <<98, \hF1, \h90, 1, 2, 3, 4>>)
    BY ScriptCalls, TestAnswers DEF TestResult, Call
  <2>2. TestResult(2) = Outcome(TRUE, 0, Tail(<<98, \hF1, \h90, 1, 2, 3, 4>>))
    BY <1>2, <2>1
  <2> QED BY <2>2 DEF Outcome
<1>4. TestResult(3).success /\ Len(TestResult(3).payload) = 4
  <2>1. TestResult(3) = OutcomeOf("send_request", <<34, \h12, \h34>>,
                                  <<98, \h12, \h34, \hAA, \hBB>>)
    BY ScriptCalls, TestAnswers DEF TestResult, Call
  <2>2. TestResult(3) = Outcome(TRUE, 0, Tail(<<98, \h12, \h34, \hAA, \hBB>>))
    BY <1>2, <2>1
  <2> QED BY <2>2 DEF Outcome
<1>5. TestResult(4).success /\ Len(TestResult(4).payload) = 5
  <2>1. TestResult(4) = OutcomeOf("send_request", <<34, \h56, \h78>>,
                                  <<98, \h56, \h78, \h11, \h22, \h33>>)
    BY ScriptCalls, TestAnswers DEF TestResult, Call
  <2>2. TestResult(4) = Outcome(TRUE, 0, Tail(<<98, \h56, \h78, \h11, \h22, \h33>>))
    BY <1>2, <2>1
  <2> QED BY <2>2 DEF Outcome
<1>6. TestResult(5).nrc = \h31
  <2>1. TestResult(5) = OutcomeOf("send_request", <<34, \h99, \h88>>, <<127, 34, \h31>>)
    BY ScriptCalls, TestAnswers DEF TestResult, Call
  <2> DEFINE request  == <<34, \h99, \h88>>
             response == <<127, 34, \h31>>
  <2>2. ~Confirmed("send_request", request, response)
    BY DEF Confirmed
  <2>3. Refused(request, response)
    BY DEF Refused
  <2>4. response[3] = \h31
    OBVIOUS
  <2> HIDE DEF request, response
  <2>5. OutcomeOf("send_request", request, response) = Outcome(FALSE, response[3], <<>>)
    BY <2>2, <2>3, OutcomeCases
  <2>6. TestResult(5) = Outcome(FALSE, \h31, <<>>)
    BY <2>1, <2>4, <2>5 DEF request, response
  <2> QED BY <2>6 DEF Outcome
<1> QED BY <1>1, <1>3, <1>4, <1>5, <1>6

(* receive() cuts a positive response to a read off behind the values      *)
(* there is room for.                                                      *)
LEMMA PayloadOfRead ==
  ASSUME NEW whole \in Seq(Bytes)
  PROVE  Tail(Received(<<98>> \o whole)) =
           IF Len(whole) < BufferSize THEN whole ELSE SubSeq(whole, 1, BufferSize - 1)
<1> DEFINE response == <<98>> \o whole
<1>1. BufferSize \in Nat /\ BufferSize > 7
  BY CanTpAssumption
<1>2. /\ response \in Seq(Bytes) /\ Len(response) = Len(whole) + 1 /\ Len(whole) \in Nat
      /\ \A i \in 1..Len(whole) : response[i + 1] = whole[i]
  <2>1. <<98>> \in Seq(Bytes) /\ Len(<<98>>) = 1
    BY DEF Bytes
  <2> QED BY <2>1
<1> HIDE DEF response
<1>3. CASE Len(whole) < BufferSize
  <2>1. Received(response) = response
    <3>1. CASE Len(response) < BufferSize
      BY <1>2, <3>1, ReceivedBytes
    <3>2. CASE Len(response) = BufferSize
      BY <1>1, <1>2, <3>2, ReceivedBytes, SubSeqFull
    <3> QED BY <1>1, <1>2, <1>3, <3>1, <3>2
  <2>2. response # <<>>
    BY <1>2
  <2>3. Tail(response) \in Seq(Bytes) /\ Len(Tail(response)) = Len(whole)
    BY <1>2, <2>2, HeadTailProperties
  <2>4. \A i \in 1..Len(whole) : Tail(response)[i] = whole[i]
    BY <1>2, <2>2, <2>3, HeadTailProperties
  <2>5. Tail(response) = whole
    BY <2>3, <2>4, SeqEqual
  <2> QED BY <1>3, <2>1, <2>5 DEF response
<1>4. CASE Len(whole) >= BufferSize
  <2> DEFINE received == SubSeq(response, 1, BufferSize)
             cut      == SubSeq(whole, 1, BufferSize - 1)
  <2>1. Received(response) = received
    BY <1>1, <1>2, <1>4, ReceivedBytes
  <2>2. /\ received \in Seq(Bytes) /\ Len(received) = BufferSize
        /\ \A i \in 1..BufferSize : received[i] = response[i]
    <3>1. \A i \in 1..BufferSize : response[i] \in Bytes
      <4>1. \A i \in 1..BufferSize : i \in 1..Len(response)
        BY <1>1, <1>2, <1>4
      <4> QED BY <1>2, <4>1, ElementOfSeq
    <3> QED BY <1>1, <3>1, SubSeqProperties
  <2>3. /\ cut \in Seq(Bytes) /\ Len(cut) = BufferSize - 1
        /\ \A i \in 1..(BufferSize - 1) : cut[i] = whole[i]
    <3>1. \A i \in 1..(BufferSize - 1) : whole[i] \in Bytes
      <4>1. \A i \in 1..(BufferSize - 1) : i \in 1..Len(whole)
        BY <1>1, <1>2, <1>4
      <4> QED BY <4>1, ElementOfSeq
    <3> QED BY <1>1, <3>1, SubSeqProperties
  <2> HIDE DEF received, cut
  <2>4. received # <<>>
    BY <1>1, <2>2
  <2>5. /\ Tail(received) \in Seq(Bytes) /\ Len(Tail(received)) = BufferSize - 1
        /\ \A i \in 1..(BufferSize - 1) : Tail(received)[i] = received[i + 1]
    BY <1>1, <2>2, <2>4, HeadTailProperties
  <2>6. ASSUME NEW i \in 1..(BufferSize - 1) PROVE Tail(received)[i] = cut[i]
    <3>1. i \in 1..Len(whole) /\ i + 1 \in 1..BufferSize
      BY <1>1, <1>2, <1>4
    <3>2. Tail(received)[i] = received[i + 1]
      BY <2>5
    <3>3. received[i + 1] = response[i + 1]
      BY <2>2, <3>1
    <3>4. response[i + 1] = whole[i] /\ cut[i] = whole[i]
      BY <1>2, <2>3, <3>1
    <3> QED BY <3>2, <3>3, <3>4
  <2>7. Tail(received) = cut
    BY <2>3, <2>5, <2>6, SeqEqual
  <2>8. ~(Len(whole) < BufferSize)
    BY <1>1, <1>2, <1>4
  <2> QED BY <2>1, <2>7, <2>8 DEF response, cut
<1> QED BY <1>1, <1>2, <1>3, <1>4

(* A read service_handler answers with success gives the values in full,   *)
(* or what the buffer has room for.                                        *)
LEMMA ReadsWhole ==
  ASSUME NEW request \in Messages, NEW byte, Received(request)[1] = 34,
         NEW response,
         response = HandleBytes("service_handler", Received(request), byte),
         OutcomeOf("send_request", request, Received(response)).success
  PROVE  OutcomeOf("send_request", request, Received(response)).payload =
           LET whole == ValuesRead(Decode(Received(request)).args)
           IN IF Len(whole) < BufferSize THEN whole
              ELSE SubSeq(whole, 1, BufferSize - 1)
<1> DEFINE asked == Received(request)
           whole == ValuesRead(Decode(asked).args)
           received == Received(response)
<1>1. asked \in Seq(Bytes) /\ asked # <<>> /\ asked[1] = 34 /\ request[1] = 34
  <2>1. request \in Seq(Bytes) /\ request # <<>> /\ 1 \in 1..Len(request)
    BY EmptySeq DEF Messages
  <2> QED BY <2>1, ReceivedBytes
<1>2. /\ Confirmed("send_request", request, received)
      /\ OutcomeOf("send_request", request, received) = Outcome(TRUE, 0, Tail(received))
  <2> HIDE DEF received
  <2>1. OutcomeOf("send_request", request, received).success
    BY DEF received
  <2>2. Confirmed("send_request", request, received)
    BY <2>1, OutcomeCases DEF Outcome
  <2> QED BY <2>2, OutcomeCases
<1>3. received # <<>> /\ received[1] = 98
  BY <1>1, <1>2 DEF Confirmed
<1>4. response \in Seq(Bytes) /\ response # <<>> /\ response[1] = 98
  <2> HIDE DEF asked
  <2>1. IsResponse(asked[1], response)
    BY <1>1, HandledIsResponse DEF asked
  <2>2. response \in Seq(Bytes) /\ response # <<>> /\ 1 \in 1..Len(response)
    BY <2>1, EmptySeq DEF IsResponse
  <2> QED BY <1>3, <2>2, ReceivedBytes
<1>5. \A nrc \in NRCs : response # NegativeBytes(34, nrc)
  <2>1. 34 \in Bytes
    BY DEF Bytes
  <2> QED BY <1>4, <2>1, NegativeIsBytes
<1>6. response = ServiceRead(asked)
  <2>1. SidOf[SessionControl] = 16 /\ SidOf[ReadData] = 34
    BY DEF SidOf, SessionControl, ReadData
  <2> HIDE DEF asked
  <2>2. response = HandleBytes("service_handler", asked, byte)
    BY DEF asked
  <2>3. response = IF ~ReadAllowed(byte)
                   THEN NegativeBytes(34, "SERVICE_NOT_SUPPORTED_IN_ACTIVE_SESSION")
                   ELSE ServiceRead(asked)
    BY <1>1, <2>1, <2>2 DEF HandleBytes
  <2>4. "SERVICE_NOT_SUPPORTED_IN_ACTIVE_SESSION" \in NRCs
    BY DEF NRCs
  <2> QED BY <1>5, <2>3, <2>4
<1>7. response = <<98>> \o whole /\ whole \in Seq(Bytes)
  <2> HIDE DEF asked
  <2> QED BY <1>1, <1>5, <1>6, ServiceReadFollows
<1> HIDE DEF whole
<1>8. Tail(received) = IF Len(whole) < BufferSize THEN whole
                       ELSE SubSeq(whole, 1, BufferSize - 1)
  BY <1>7, PayloadOfRead
<1>9. OutcomeOf("send_request", request, received).payload = Tail(received)
  BY <1>2 DEF Outcome
<1> QED BY <1>8, <1>9 DEF whole

-----------------------------------------------------------------------------
(* The inductive invariant.                                                *)

SocketTypes ==
  [made : BOOLEAN, open : BOOLEAN, at : Interfaces \union {Nowhere},
   tx : 0..2047, rx : 0..2047, fc : FlowControls]

(* What is in the variables; no message is empty. *)
Types ==
  /\ present \subseteq Interfaces
  /\ sock \in [Ends -> SocketTypes]
  /\ inbox \in [Ends -> Seq(Messages)]
  /\ serverProgram \in {"server_test", "service_handler"}
  /\ session \in Bytes
  /\ exchange \in [request : Seq(Bytes), session : Bytes, response : Seq(Bytes)]
  /\ client \in {"none", "client_test", "reader"}
  /\ step \in 1..8
  /\ asking \in Calls \union {NoRequest}
  /\ results \in Seq(Outcomes)
  /\ fresh \in BOOLEAN
  /\ runs \in 0..MaxRuns

(* A socket that was made has the identifiers of its program, and is open  *)
(* if it is bound; one that is not bound gets nothing.                     *)
Bound(e, program) ==
  /\ sock[e].tx = TxOf[program] /\ sock[e].rx = RxOf[program]
  /\ sock[e].at # Nowhere => sock[e].open

Sockets ==
  /\ IF sock["server"].made THEN Bound("server", serverProgram)
                            ELSE sock["server"] = NoSocket
  /\ IF client = "none" THEN sock["client"] = NoSocket
                        ELSE Bound("client", client)
  /\ \A e \in Ends : sock[e].at = Nowhere => inbox[e] = <<>>
  /\ fresh => sock["server"].made

(* A call that waits is the one the client is at, and one that does wait.  *)
Asks ==
  asking # NoRequest =>
    /\ client # "none" /\ asking \in CallsAt(step)
    /\ asking.op # "send_request_no_response"

(* What was served last was answered by the handlers. *)
Served ==
  \/ exchange.request = <<>> /\ exchange.response = <<>>
  \/ /\ exchange.request # <<>>
     /\ exchange.response =
          HandleBytes(serverProgram, exchange.request, exchange.session)

Idle == \A e \in Ends : inbox[e] = <<>>

(* Where a call that waits can be: its request is before the server, or    *)
(* its response before the client, or there is a response no message can   *)
(* hold.                                                                   *)
BeforeServer(request) == inbox["server"] = <<request>> /\ inbox["client"] = <<>>

Answering(request) ==
  inbox["server"] = <<>> /\ exchange.request = Received(request)

BeforeClient(request) ==
  Answering(request) /\ inbox["client"] = <<exchange.response>>

Dropped(request) ==
  Answering(request) /\ inbox["client"] = <<>> /\ Len(exchange.response) > MaxPdu

(* The run of a reader that is in touch with the server. *)
ReaderResult(request) ==
  /\ exchange.request = Received(request)
  /\ \/ results = <<OutcomeOf("send_request", request, Received(exchange.response))>>
     \/ results = <<TimedOut>> /\ Len(exchange.response) > MaxPdu

ReaderRun ==
  /\ asking = NoRequest => Idle
  /\ asking # NoRequest =>
       BeforeServer(asking.request) \/ BeforeClient(asking.request)
         \/ Dropped(asking.request)
  /\ step = 1 => results = <<>>
  /\ step # 1 =>
       /\ step = 2 /\ asking = NoRequest
       /\ \E request \in ReaderRequests : ReaderResult(request)

(* The run of client_test: it is answered as in session 3.                 *)
TestRun ==
  /\ step \in 2..5 => session = 3
  /\ asking = NoRequest /\ step < 8 => Idle
  /\ asking # NoRequest =>
       \/ BeforeServer(asking.request)
       \/ /\ BeforeClient(asking.request)
          /\ exchange.response = TestAnswer(step)
          /\ step = 1 => session = 3
  /\ Len(results) = step - 1
  /\ \A k \in 1..6 : k < step => results[k] = TestResult(k)
  /\ step = 8 => results[7] = Outcome(TRUE, NrcOf.NO_ERROR, <<>>)

Runs == /\ InTouch("reader") => ReaderRun
        /\ InTouch("client_test") => TestRun

BenchInv == Types /\ Sockets /\ Asks /\ Served /\ Runs

(* The other end of each end. *)
LEMMA OtherEnd == Other("client") = "server" /\ Other("server") = "client"
BY DEF Other, Ends

(* What a message that is sent does to the two boxes. *)
LEMMA SentBoxes ==
  ASSUME NEW boxes \in [Ends -> Seq(Messages)], NEW message \in Messages, NEW e \in Ends
  PROVE  /\ Sent(boxes, e, message) \in [Ends -> Seq(Messages)]
         /\ Sent(boxes, e, message)[e] = boxes[e]
         /\ Sent(boxes, e, message)[Other(e)] =
              IF Reaches(e, message) THEN Append(boxes[Other(e)], message)
                                     ELSE boxes[Other(e)]
<1>1. Other(e) \in Ends /\ Other(e) # e
  BY OtherEnd DEF Ends
<1>2. Append(boxes[Other(e)], message) \in Seq(Messages)
  BY <1>1
<1> QED BY <1>1, <1>2 DEF Sent

(* The call a client is at is one the server can be sent. *)
LEMMA CallsFit ==
  ASSUME Types, NEW call \in CallsAt(step)
  PROVE  /\ call \in Calls /\ step \in 1..7 /\ Len(call.request) \in 1..MaxPdu
         /\ client = "client_test" => call = Script[step]
         /\ client # "client_test" =>
              /\ step = 1 /\ call.op = "send_request"
              /\ call.request \in ReaderRequests /\ call = Call("send_request", call.request)
<1>1. MaxPdu \in Nat /\ MaxPdu > 7
  BY CanTpAssumption
<1>2. CASE client = "client_test"
  <2>1. step \in 1..7 /\ call = Script[step]
    BY <1>2, ScriptCalls DEF CallsAt
  <2>2. FitsInFrame(call)
    BY <2>1, TestCalls
  <2>3. call \in Calls /\ Len(call.request) \in 1..MaxPdu
    <3>1. call \in Calls /\ Len(call.request) < 8
      BY <2>2 DEF FitsInFrame
    <3>2. call.request \in Seq(Bytes) /\ call.request # <<>>
      BY <3>1 DEF Calls, Messages
    <3>3. Len(call.request) \in Nat \ {0}
      BY <3>2, EmptySeq
    <3> QED BY <1>1, <3>1, <3>3
  <2> QED BY <1>2, <2>1, <2>3
<1>3. CASE client # "client_test"
  <2>1. step = 1 /\ \E r \in ReaderRequests : call = Call("send_request", r)
    BY <1>3 DEF CallsAt
  <2>2. PICK r \in ReaderRequests : call = Call("send_request", r)
    BY <2>1
  <2>3. call.op = "send_request" /\ call.request = r
    BY <2>2 DEF Call
  <2>4. r \in Messages /\ Len(r) <= MaxPdu
    BY BenchAssumption DEF Messages, Bytes
  <2>5. Len(r) \in Nat \ {0}
    BY <2>4, EmptySeq DEF Messages
  <2>6. call \in Calls
    BY <2>2, <2>4 DEF Call, Calls
  <2> QED BY <1>1, <1>3, <2>1, <2>2, <2>3, <2>4, <2>5, <2>6
<1> QED BY <1>2, <1>3

(* The sockets a program may make are its own. *)
LEMMA NewSocketsAre ==
  ASSUME NEW program \in {"server_test", "service_handler", "client_test", "reader"},
         NEW socket \in NewSockets(TxOf[program], RxOf[program]), NEW flow \in BOOLEAN
  PROVE  LET made == IF flow THEN SetFlowControl(socket, 16, 20) ELSE socket
         IN /\ made \in SocketTypes /\ made.made
            /\ made.tx = TxOf[program] /\ made.rx = RxOf[program]
            /\ made.at # Nowhere => made.open
<1>1. TxOf[program] \in 0..2047 /\ RxOf[program] \in 0..2047
  BY DEF TxOf, RxOf
<1>2. DefaultFlowControl \in FlowControls
  BY DEF DefaultFlowControl, FlowControls
<1>3. /\ socket \in SocketTypes /\ socket.made
      /\ socket.tx = TxOf[program] /\ socket.rx = RxOf[program]
      /\ socket.at # Nowhere => socket.open
  <2> DEFINE tx == TxOf[program]
             rx == RxOf[program]
  <2>1. tx \in 0..2047 /\ rx \in 0..2047
    BY <1>1
  <2> HIDE DEF tx, rx
  <2>2. socket \in NewSockets(tx, rx)
    BY DEF tx, rx
  <2>3. /\ socket \in [made : {TRUE},
                       open : {TRUE} \union IF "no_isotp" \in Faults THEN {FALSE} ELSE {},
                       at   : Interfaces \union {Nowhere},
                       tx   : {tx}, rx : {rx}, fc : {DefaultFlowControl}]
        /\ socket.at # Nowhere => socket.open
    BY <2>2 DEF NewSockets
  <2>5. socket.made = TRUE /\ socket.tx = tx /\ socket.rx = rx
    BY <2>3
  <2>6. socket \in SocketTypes
    <3> DEFINE opens == {TRUE} \union IF "no_isotp" \in Faults THEN {FALSE} ELSE {}
               txs == 0..2047
    <3>0. tx \in txs /\ rx \in txs
      BY <2>1
    <3>1. opens \subseteq BOOLEAN
      OBVIOUS
    <3> HIDE DEF opens, txs
    <3>2. socket \in [made : {TRUE}, open : opens, at : Interfaces \union {Nowhere},
                      tx   : {tx}, rx : {rx}, fc : {DefaultFlowControl}]
      BY <2>3 DEF opens
    <3>3. socket \in [made : BOOLEAN, open : BOOLEAN, at : Interfaces \union {Nowhere},
                      tx : txs, rx : txs, fc : FlowControls]
      BY <1>2, <3>0, <3>1, <3>2
    <3> QED BY <3>3 DEF SocketTypes, txs
  <2> QED BY <2>3, <2>5, <2>6 DEF tx, rx
<1>4. SetFlowControl(socket, 16, 20) = socket
  BY DEF SetFlowControl, SetFlowControlOption, OptionSize
<1> QED BY <1>3, <1>4

(* What a program that starts has for a socket. *)
IsSocketOf(socket, program) ==
  /\ socket \in SocketTypes /\ socket.made
  /\ socket.tx = TxOf[program] /\ socket.rx = RxOf[program]
  /\ socket.at # Nowhere => socket.open

(* A server that starts has a socket of its own identifiers. *)
LEMMA ServerSocket ==
  ASSUME Types, ServerStarts
  PROVE  \E socket : /\ IsSocketOf(socket, serverProgram)
                     /\ sock' = [sock EXCEPT !["server"] = socket]
<1> DEFINE flow == serverProgram = "service_handler"
<1>1. PICK socket \in NewSockets(TxOf[serverProgram], RxOf[serverProgram]) :
        sock' = [sock EXCEPT !["server"] =
                   IF flow THEN SetFlowControl(socket, 16, 20) ELSE socket]
  BY DEF ServerStarts
<1>2. flow \in BOOLEAN
        /\ serverProgram \in {"server_test", "service_handler", "client_test", "reader"}
  BY DEF Types
<1> HIDE DEF flow
<1> DEFINE made == IF flow THEN SetFlowControl(socket, 16, 20) ELSE socket
<1>3. IsSocketOf(made, serverProgram)
  BY <1>2, NewSocketsAre DEF IsSocketOf
<1> QED BY <1>1, <1>3

(* So has a client. *)
LEMMA ClientSocket ==
  ASSUME Types, ClientStarts
  PROVE  /\ client' \in {"client_test", "reader"}
         /\ \E socket : /\ IsSocketOf(socket, client')
                        /\ sock' = [sock EXCEPT !["client"] = socket]
<1> DEFINE flow == client' = "client_test"
<1>1. client' \in {"client_test", "reader"}
        /\ \E socket \in NewSockets(TxOf[client'], RxOf[client']) :
             sock' = [sock EXCEPT !["client"] =
                        IF flow THEN SetFlowControl(socket, 16, 20) ELSE socket]
  BY DEF ClientStarts
<1>2. PICK socket \in NewSockets(TxOf[client'], RxOf[client']) :
        sock' = [sock EXCEPT !["client"] =
                   IF flow THEN SetFlowControl(socket, 16, 20) ELSE socket]
  BY <1>1
<1>3. flow \in BOOLEAN
        /\ client' \in {"server_test", "service_handler", "client_test", "reader"}
  BY <1>1
<1> HIDE DEF flow
<1> DEFINE made == IF flow THEN SetFlowControl(socket, 16, 20) ELSE socket
<1>4. IsSocketOf(made, client')
  BY <1>3, NewSocketsAre DEF IsSocketOf
<1> QED BY <1>1, <1>2, <1>4

(* That no call waits is said by no call. *)
LEMMA NothingAsked == NoRequest \notin Calls
BY EmptySeq DEF NoRequest, Call, Calls

(* What the server does of the request that is before it. *)
ServesRequest(request, response) ==
  /\ request = Received(Head(inbox["server"])) /\ request \in Messages
  /\ response = HandleBytes(serverProgram, request, session)
  /\ response \in Messages
  /\ session' = SessionByteAfter(request, session) /\ session' \in Bytes
  /\ exchange' = [request |-> request, session |-> session, response |-> response]
  /\ inbox' \in [Ends -> Seq(Messages)]
  /\ inbox'["server"] = Tail(inbox["server"])
  /\ inbox'["client"] = IF Reaches("server", response)
                        THEN Append(inbox["client"], response) ELSE inbox["client"]

(* Every round of the server does that of some request. *)
LEMMA Serves ==
  ASSUME Types, Serve
  PROVE  \E request, response : ServesRequest(request, response)
<1> DEFINE message  == Head(inbox["server"])
           request  == Received(message)
           response == HandleBytes(serverProgram, request, session)
           boxes    == [inbox EXCEPT !["server"] = Tail(@)]
<1>1. inbox["server"] \in Seq(Messages) /\ inbox["server"] # <<>>
  BY DEF Types, Serve, Ends
<1>2. message \in Seq(Bytes) /\ message # <<>>
  <2>1. message \in Messages
    BY <1>1
  <2> QED BY <2>1 DEF Messages
<1>3. request \in Messages
  <2> HIDE DEF message
  <2> QED BY <1>2, ReceivedBytes DEF Messages
<1>4. response \in Messages
  <2> HIDE DEF request
  <2>1. request \in Seq(Bytes) /\ request # <<>>
    BY <1>3 DEF Messages
  <2>2. IsResponse(request[1], response)
    BY <2>1, HandledIsResponse DEF Types
  <2> QED BY <2>2 DEF IsResponse, Messages
<1>5. session' = SessionByteAfter(request, session)
        /\ exchange' = [request |-> request, session |-> session, response |-> response]
        /\ inbox' = Sent(boxes, "server", response)
  BY DEF Serve
<1>6. session' \in Bytes
  <2> HIDE DEF request
  <2>1. session \in Bytes /\ request \in Seq(Bytes)
    BY <1>3 DEF Types, Messages
  <2>2. Len(request) >= 2 => request[2] \in Bytes
    <3>1. Len(request) >= 2 => 2 \in 1..Len(request)
      BY <2>1
    <3> QED BY <2>1, <3>1, ElementOfSeq
  <2> QED BY <1>5, <2>1, <2>2 DEF SessionByteAfter
<1> HIDE DEF request, response
<1>7. /\ inbox' \in [Ends -> Seq(Messages)]
      /\ inbox'["server"] = Tail(inbox["server"])
      /\ inbox'["client"] = IF Reaches("server", response)
                            THEN Append(inbox["client"], response) ELSE inbox["client"]
  <2>1. /\ boxes \in [Ends -> Seq(Messages)]
        /\ boxes["server"] = Tail(inbox["server"]) /\ boxes["client"] = inbox["client"]
    BY <1>1 DEF Types, Ends
  <2>2. "server" \in Ends
    BY DEF Ends
  <2> HIDE DEF boxes
  <2>3. /\ Sent(boxes, "server", response) \in [Ends -> Seq(Messages)]
        /\ Sent(boxes, "server", response)["server"] = boxes["server"]
        /\ Sent(boxes, "server", response)[Other("server")] =
             IF Reaches("server", response) THEN Append(boxes[Other("server")], response)
                                            ELSE boxes[Other("server")]
    <3>1. boxes \in [Ends -> Seq(Messages)]
      BY <2>1
    <3> QED BY <1>4, <2>2, <3>1, SentBoxes
  <2> QED BY <1>5, <2>1, <2>3, OtherEnd
<1>8. ServesRequest(request, response)
  BY <1>3, <1>4, <1>5, <1>6, <1>7 DEF ServesRequest, request, response
<1> QED BY <1>8

(* What the client does of a call. *)
LEMMA AsksServer ==
  ASSUME Types, NEW call \in CallsAt(step), inbox' = Sent(inbox, "client", call.request)
  PROVE  /\ inbox' \in [Ends -> Seq(Messages)]
         /\ inbox'["client"] = inbox["client"]
         /\ inbox'["server"] = IF Reaches("client", call.request)
                               THEN Append(inbox["server"], call.request)
                               ELSE inbox["server"]
<1>1. call.request \in Messages
  BY CallsFit DEF Calls
<1>2. "client" \in Ends /\ inbox \in [Ends -> Seq(Messages)]
  BY DEF Ends, Types
<1> QED BY <1>1, <1>2, SentBoxes, OtherEnd

(* Every action keeps the types: the client that is asked for a call has   *)
(* one to go on with, so step stays in its range.                          *)
LEMMA TypesStep ==
  ASSUME Types, Asks, [BenchNext]_benchVars
  PROVE  Types'
<1>1. ASSUME NEW e \in Ends, NEW socket \in SocketTypes, sock' = [sock EXCEPT ![e] = socket]
      PROVE  sock' \in [Ends -> SocketTypes]
  BY <1>1 DEF Types
<1>2. ASSUME step \in 1..7, NEW outcome \in Outcomes, Returns(outcome)
      PROVE  /\ results' \in Seq(Outcomes) /\ step' \in 1..8
             /\ asking' \in Calls \union {NoRequest}
  <2>1. step' \in 1..8
    BY <1>2 DEF Returns
  <2>2. results' \in Seq(Outcomes) /\ asking' \in Calls \union {NoRequest}
    BY <1>2 DEF Returns, Types
  <2> QED BY <2>1, <2>2
<1>3. /\ Outcome(TRUE, NrcOf.NO_ERROR, <<>>) \in Outcomes
      /\ Rejected \in Outcomes /\ TimedOut \in Outcomes
  <2>1. NrcOf.NO_ERROR = 0 /\ NrcOf.GENERAL_REJECT = 16 /\ NrcOf.TIMEOUT = 1
    BY DEF NrcOf
  <2>2. 0 \in Bytes /\ 1 \in Bytes /\ 16 \in Bytes
    BY DEF Bytes
  <2>3. \A success \in BOOLEAN, nrc \in Bytes : Outcome(success, nrc, <<>>) \in Outcomes
    BY EmptySeq DEF Outcome, Outcomes
  <2> QED BY <2>1, <2>2, <2>3 DEF Rejected, TimedOut
<1>4. CASE InterfaceComesUp /\ UNCHANGED <<serverVars, clientVars>>
  BY <1>4 DEF InterfaceComesUp, Types, serverVars, clientVars
<1>5. CASE ServerStarts
  <2>1. sock' \in [Ends -> SocketTypes]
    <3>1. "server" \in Ends
      BY DEF Ends
    <3> QED BY <1>1, <1>5, <3>1, ServerSocket DEF IsSocketOf
  <2> QED BY <1>5, <2>1 DEF ServerStarts, Types, serverVars, clientVars
<1>6. CASE Serve
  <2>1. PICK request, response : ServesRequest(request, response)
    BY <1>6, Serves
  <2>2. exchange' \in [request : Seq(Bytes), session : Bytes, response : Seq(Bytes)]
    BY <2>1 DEF ServesRequest, Types, Messages
  <2>3. session' \in Bytes /\ inbox' \in [Ends -> Seq(Messages)]
    BY <2>1 DEF ServesRequest
  <2> QED BY <1>6, <2>2, <2>3 DEF Serve, Types, clientVars
<1>7. CASE ClientStarts
  <2>1. sock' \in [Ends -> SocketTypes] /\ client' \in {"client_test", "reader"}
    <3>1. "client" \in Ends
      BY DEF Ends
    <3> QED BY <1>1, <1>7, <3>1, ClientSocket DEF IsSocketOf
  <2>2. runs' \in 0..MaxRuns
    <3>1. MaxRuns \in Nat /\ runs \in 0..MaxRuns /\ runs < MaxRuns /\ runs' = runs + 1
      BY <1>7, BenchAssumption DEF ClientStarts, Types
    <3> QED BY <3>1
  <2>3. step' \in 1..8 /\ results' \in Seq(Outcomes)
    BY <1>7, EmptySeq DEF ClientStarts
  <2>4. fresh' \in BOOLEAN
    <3>1. sock["server"].made \in BOOLEAN
      BY DEF Types, Ends, SocketTypes
    <3> QED BY <1>7, <3>1 DEF ClientStarts
  <2> QED BY <1>7, <2>1, <2>2, <2>3, <2>4 DEF ClientStarts, Types, serverVars
<1>8. CASE Ask
  <2>1. PICK call \in CallsAt(step) :
          /\ inbox' = Sent(inbox, "client", call.request)
          /\ IF call.op = "send_request_no_response"
             THEN Returns(Outcome(TRUE, NrcOf.NO_ERROR, <<>>))
             ELSE asking' = call /\ UNCHANGED <<results, step>>
    BY <1>8 DEF Ask
  <2>2. call \in Calls /\ step \in 1..7
    BY CallsFit
  <2>3. inbox' \in [Ends -> Seq(Messages)]
    BY <2>1, AsksServer
  <2>4. /\ results' \in Seq(Outcomes) /\ step' \in 1..8
        /\ asking' \in Calls \union {NoRequest}
    <3>1. CASE call.op = "send_request_no_response"
      BY <1>2, <1>3, <2>1, <2>2, <3>1
    <3>2. CASE call.op # "send_request_no_response"
      BY <2>1, <2>2, <3>2 DEF Types
    <3> QED BY <3>1, <3>2
  <2> QED BY <1>8, <2>3, <2>4 DEF Ask, Types, serverVars
<1>9. CASE AskInVain
  <2>1. PICK call \in CallsAt(step) :
          Returns(IF call.op = "send_request_no_response"
                  THEN Outcome(TRUE, NrcOf.NO_ERROR, <<>>) ELSE Rejected)
    BY <1>9 DEF AskInVain
  <2>2. step \in 1..7
    BY CallsFit
  <2>3. /\ results' \in Seq(Outcomes) /\ step' \in 1..8
        /\ asking' \in Calls \union {NoRequest}
    BY <1>2, <1>3, <2>1, <2>2
  <2> QED BY <1>9, <2>3 DEF AskInVain, Types, tpVars, serverVars
<1>10. CASE Answered
  <2>1. step \in 1..7
    BY <1>10, CallsFit DEF Asks, Answered
  <2>2. inbox["client"] \in Seq(Messages) /\ inbox["client"] # <<>>
    BY <1>10 DEF Types, Ends, Answered
  <2>3. inbox' \in [Ends -> Seq(Messages)]
    <3>1. Tail(inbox["client"]) \in Seq(Messages)
      BY <2>2
    <3>2. inbox' = [inbox EXCEPT !["client"] = Tail(inbox["client"])]
      BY <1>10 DEF Answered
    <3> QED BY <3>1, <3>2 DEF Types
  <2>4. Received(Head(inbox["client"])) \in Seq(Bytes)
    <3>1. Head(inbox["client"]) \in Messages
      BY <2>2
    <3> QED BY <3>1, ReceivedBytes DEF Messages
  <2>5. OutcomeOf(asking.op, asking.request, Received(Head(inbox["client"]))) \in Outcomes
    BY <2>4, OutcomeIsOutcome
  <2>6. /\ results' \in Seq(Outcomes) /\ step' \in 1..8
        /\ asking' \in Calls \union {NoRequest}
    BY <1>2, <1>10, <2>1, <2>5 DEF Answered
  <2> QED BY <1>10, <2>3, <2>6 DEF Answered, Types, serverVars
<1>11. CASE Unanswered
  <2>1. step \in 1..7
    BY <1>11, CallsFit DEF Asks, Unanswered
  <2>2. /\ results' \in Seq(Outcomes) /\ step' \in 1..8
        /\ asking' \in Calls \union {NoRequest}
    BY <1>2, <1>3, <1>11, <2>1 DEF Unanswered
  <2> QED BY <1>11, <2>2 DEF Unanswered, Types, tpVars, serverVars
<1>12. CASE ClientEnds
  <2>1. sock' \in [Ends -> SocketTypes] /\ inbox' \in [Ends -> Seq(Messages)]
    <3>1. NoSocket \in SocketTypes
      <4>1. DefaultFlowControl \in FlowControls
        BY DEF DefaultFlowControl, FlowControls
      <4> QED BY <4>1 DEF NoSocket, SocketTypes
    <3>2. inbox' = [inbox EXCEPT !["client"] = <<>>]
      BY <1>12 DEF ClientEnds, Close
    <3>3. sock' = [sock EXCEPT !["client"] = NoSocket] /\ "client" \in Ends
      BY <1>12 DEF ClientEnds, Close, Ends
    <3> QED BY <1>1, <3>1, <3>2, <3>3, EmptySeq DEF Types
  <2> QED BY <1>12, <2>1 DEF ClientEnds, Types, serverVars
<1>13. CASE UNCHANGED benchVars
  BY <1>13 DEF benchVars, tpVars, Types
<1> QED BY <1>4, <1>5, <1>6, <1>7, <1>8, <1>9, <1>10, <1>11, <1>12, <1>13 DEF BenchNext

(* A socket keeps its identifiers while its program runs, and a message    *)
(* only comes to one that is bound.                                        *)
LEMMA SocketsStep ==
  ASSUME Types, Types', Sockets, [BenchNext]_benchVars
  PROVE  Sockets'
<1> USE DEF Ends
<1>1. CASE InterfaceComesUp /\ UNCHANGED <<serverVars, clientVars>>
  BY <1>1 DEF InterfaceComesUp, Sockets, Bound, serverVars, clientVars
<1>2. CASE ServerStarts
  <2>1. PICK socket : /\ IsSocketOf(socket, serverProgram)
                      /\ sock' = [sock EXCEPT !["server"] = socket]
    BY <1>2, ServerSocket
  <2>2. sock'["server"] = socket /\ sock'["client"] = sock["client"]
    BY <2>1 DEF Types
  <2>3. inbox' = inbox /\ client' = client /\ serverProgram' = serverProgram /\ fresh' = fresh
    BY <1>2 DEF ServerStarts, serverVars, clientVars
  <2>4. inbox["server"] = <<>>
    BY <1>2 DEF ServerStarts, Sockets, NoSocket
  <2>5. sock'["server"].made /\ Bound("server", serverProgram)'
    BY <2>1, <2>2, <2>3 DEF IsSocketOf, Bound
  <2>6. IF client' = "none" THEN sock'["client"] = NoSocket ELSE Bound("client", client)'
    BY <2>2, <2>3 DEF Sockets, Bound
  <2>7. \A e \in Ends : sock'[e].at = Nowhere => inbox'[e] = <<>>
    BY <2>2, <2>3, <2>4 DEF Sockets
  <2> QED BY <2>5, <2>6, <2>7 DEF Sockets
<1>3. CASE Serve
  <2>1. PICK request, response : ServesRequest(request, response)
    BY <1>3, Serves
  <2>2. sock' = sock /\ serverProgram' = serverProgram /\ client' = client /\ fresh' = fresh
    BY <1>3 DEF Serve, clientVars
  <2>3. sock["server"].at # Nowhere
    BY <1>3 DEF Serve, Sockets
  <2>4. sock["client"].at = Nowhere => inbox'["client"] = <<>>
    <3>1. sock["client"].at = Nowhere => ~Reaches("server", response)
      BY OtherEnd DEF Reaches
    <3> QED BY <2>1, <3>1 DEF ServesRequest, Sockets
  <2> QED BY <2>2, <2>3, <2>4 DEF Sockets, Bound
<1>4. CASE ClientStarts
  <2>1. client' # "none" /\ inbox' = inbox /\ serverProgram' = serverProgram
          /\ fresh' = (sock["server"].made /\ inbox["server"] = <<>>) /\ client = "none"
    BY <1>4 DEF ClientStarts, serverVars
  <2>2. PICK socket : /\ IsSocketOf(socket, client')
                      /\ sock' = [sock EXCEPT !["client"] = socket]
    BY <1>4, ClientSocket
  <2>3. sock'["client"] = socket /\ sock'["server"] = sock["server"]
    BY <2>2 DEF Types
  <2>4. inbox["client"] = <<>>
    BY <2>1 DEF Sockets, NoSocket
  <2>5. Bound("client", client)'
    BY <2>2, <2>3 DEF IsSocketOf, Bound
  <2>6. IF sock'["server"].made THEN Bound("server", serverProgram)'
                                ELSE sock'["server"] = NoSocket
    BY <2>1, <2>3 DEF Sockets, Bound
  <2>7. \A e \in Ends : sock'[e].at = Nowhere => inbox'[e] = <<>>
    BY <2>1, <2>3, <2>4 DEF Sockets
  <2> QED BY <2>1, <2>3, <2>5, <2>6, <2>7 DEF Sockets
<1>5. CASE Ask
  <2>1. PICK call \in CallsAt(step) : inbox' = Sent(inbox, "client", call.request)
    BY <1>5 DEF Ask
  <2>2. /\ inbox'["client"] = inbox["client"]
        /\ inbox'["server"] = IF Reaches("client", call.request)
                              THEN Append(inbox["server"], call.request)
                              ELSE inbox["server"]
    BY <2>1, AsksServer
  <2>3. sock' = sock /\ serverProgram' = serverProgram /\ client' = client /\ fresh' = fresh
    BY <1>5 DEF Ask, serverVars
  <2>4. sock["server"].at = Nowhere => ~Reaches("client", call.request)
    BY OtherEnd DEF Reaches
  <2> QED BY <2>2, <2>3, <2>4 DEF Sockets, Bound
<1>6. CASE AskInVain
  BY <1>6 DEF AskInVain, Sockets, Bound, tpVars, serverVars
<1>7. CASE Answered
  <2>1. sock' = sock /\ serverProgram' = serverProgram /\ client' = client /\ fresh' = fresh
    BY <1>7 DEF Answered, serverVars
  <2>2. sock["client"].at # Nowhere /\ inbox'["server"] = inbox["server"]
    BY <1>7 DEF Answered, Sockets, Types
  <2> QED BY <2>1, <2>2 DEF Sockets, Bound
<1>8. CASE Unanswered
  BY <1>8 DEF Unanswered, Sockets, Bound, tpVars, serverVars
<1>9. CASE ClientEnds
  <2>1. client' = "none" /\ serverProgram' = serverProgram /\ fresh' = fresh
    BY <1>9 DEF ClientEnds, serverVars
  <2>2. /\ sock'["client"] = NoSocket /\ sock'["server"] = sock["server"]
        /\ inbox'["client"] = <<>> /\ inbox'["server"] = inbox["server"]
    BY <1>9 DEF ClientEnds, Close, Types
  <2> QED BY <2>1, <2>2 DEF Sockets, Bound
<1>10. CASE UNCHANGED benchVars
  BY <1>10 DEF benchVars, tpVars, Sockets, Bound
<1> QED BY <1>1, <1>2, <1>3, <1>4, <1>5, <1>6, <1>7, <1>8, <1>9, <1>10 DEF BenchNext

(* A call waits from where it is made to where it returns, and meanwhile   *)
(* the client does not go on.                                              *)
LEMMA AsksStep ==
  ASSUME Types, Sockets, Asks, [BenchNext]_benchVars
  PROVE  Asks'
<1>1. ASSUME asking' = NoRequest PROVE Asks'
  BY <1>1 DEF Asks
<1>2. ASSUME UNCHANGED <<client, step, asking>> PROVE Asks'
  BY <1>2 DEF Asks, CallsAt
<1>3. CASE InterfaceComesUp /\ UNCHANGED <<serverVars, clientVars>>
  BY <1>2, <1>3 DEF clientVars
<1>4. CASE ServerStarts
  BY <1>2, <1>4 DEF ServerStarts, clientVars
<1>5. CASE Serve
  BY <1>2, <1>5 DEF Serve, clientVars
<1>6. CASE ClientStarts
  BY <1>1, <1>6 DEF ClientStarts, Asks
<1>7. CASE Ask
  <2>1. PICK call \in CallsAt(step) :
          IF call.op = "send_request_no_response"
          THEN Returns(Outcome(TRUE, NrcOf.NO_ERROR, <<>>))
          ELSE asking' = call /\ UNCHANGED <<results, step>>
    BY <1>7 DEF Ask
  <2>2. CASE call.op = "send_request_no_response"
    BY <1>1, <2>1, <2>2 DEF Returns
  <2>3. CASE call.op # "send_request_no_response"
    <3>1. client' = client /\ client # "none"
      BY <1>7 DEF Ask, Sockets, NoSocket
    <3>2. asking' \in CallsAt(step)' /\ asking' = call
      BY <2>1, <2>3, <3>1 DEF CallsAt
    <3> QED BY <2>3, <3>1, <3>2 DEF Asks
  <2> QED BY <2>2, <2>3
<1>8. CASE AskInVain
  BY <1>1, <1>8 DEF AskInVain, Returns
<1>9. CASE Answered
  BY <1>1, <1>9 DEF Answered, Returns
<1>10. CASE Unanswered
  BY <1>1, <1>10 DEF Unanswered, Returns
<1>11. CASE ClientEnds
  BY <1>1, <1>11 DEF ClientEnds
<1>12. CASE UNCHANGED benchVars
  BY <1>2, <1>12 DEF benchVars
<1> QED BY <1>3, <1>4, <1>5, <1>6, <1>7, <1>8, <1>9, <1>10, <1>11, <1>12 DEF BenchNext

(* What was served last is known to have been answered by the handlers.    *)
LEMMA ServedStep ==
  ASSUME Types, Served, [BenchNext]_benchVars
  PROVE  Served'
<1>1. CASE Serve
  <2>1. PICK request, response : ServesRequest(request, response)
    BY <1>1, Serves
  <2>2. /\ exchange'.request = request /\ exchange'.session = session
        /\ exchange'.response = response /\ request # <<>>
        /\ response = HandleBytes(serverProgram, request, session)
    BY <2>1 DEF ServesRequest, Messages
  <2>3. serverProgram' = serverProgram
    BY <1>1 DEF Serve
  <2> QED BY <2>2, <2>3 DEF Served
<1>2. CASE UNCHANGED <<serverProgram, exchange>>
  BY <1>2 DEF Served
<1>3. ~Serve => UNCHANGED <<serverProgram, exchange>>
  BY DEF BenchNext, ServerStarts, ClientStarts, Ask, AskInVain, Answered, Unanswered,
         ClientEnds, serverVars, benchVars
<1> QED BY <1>1, <1>2, <1>3

-----------------------------------------------------------------------------
(* The runs of a client that is in touch with the server.                  *)

(* Who is in touch: the identifiers of the sockets tell the programs, both *)
(* sockets are bound, and what fits in a message gets through.             *)
LEMMA TouchIs ==
  ASSUME Types, Sockets, Connected, fresh, client # "none"
  PROVE  /\ client = "reader" => serverProgram = "service_handler"
         /\ client = "client_test" => serverProgram = "server_test"
         /\ sock["client"].open /\ sock["client"].at # Nowhere
         /\ \A e \in Ends, message \in Messages :
              Reaches(e, message) <=> Len(message) <= MaxPdu
<1>1. Bound("server", serverProgram) /\ Bound("client", client)
  BY DEF Sockets
<1>2. sock["client"].tx = sock["server"].rx /\ sock["client"].at # Nowhere
        /\ sock["client"].at = sock["server"].at /\ sock["server"].tx = sock["client"].rx
  BY DEF Connected
<1>3. TxOf[client] = RxOf[serverProgram]
  BY <1>1, <1>2 DEF Bound
<1>4. /\ TxOf["client_test"] = \h7E0 /\ TxOf["reader"] = \h7DF
      /\ RxOf["server_test"] = \h7E0 /\ RxOf["service_handler"] = \h7DF
  BY DEF TxOf, RxOf
<1>5. client = "reader" => serverProgram = "service_handler"
  BY <1>3, <1>4 DEF Types
<1>6. client = "client_test" => serverProgram = "server_test"
  BY <1>3, <1>4 DEF Types
<1>7. ASSUME NEW e \in Ends, NEW message \in Messages
      PROVE  Reaches(e, message) <=> Len(message) <= MaxPdu
  <2>1. Len(message) \in Nat \ {0} /\ MaxPdu \in Nat
    BY EmptySeq, CanTpAssumption DEF Messages
  <2>2. Len(message) \in 1..MaxPdu <=> Len(message) <= MaxPdu
    BY <2>1
  <2>3. CASE e = "client"
    BY <1>2, <2>2, <2>3, OtherEnd DEF Reaches
  <2>4. CASE e = "server"
    BY <1>2, <2>2, <2>4, OtherEnd DEF Reaches
  <2> QED BY <2>3, <2>4 DEF Ends
<1> QED BY <1>1, <1>2, <1>5, <1>6, <1>7 DEF Bound

(* What a step does to who is in touch: only a client that starts gets in  *)
(* touch.                                                                  *)
LEMMA StaysInTouch ==
  ASSUME Types, Sockets, [BenchNext]_benchVars, NEW program \in {"client_test", "reader"},
         InTouch(program)', ~ClientStarts
  PROVE  /\ InTouch(program) /\ client # "none"
         /\ ~ServerStarts /\ ~AskInVain /\ ~ClientEnds
<1>1. ~ClientEnds
  BY DEF ClientEnds, InTouch
<1>2. ~ServerStarts
  <2>1. ServerStarts => ~fresh /\ fresh' = fresh
    BY DEF ServerStarts, Sockets, clientVars
  <2> QED BY <2>1 DEF InTouch
<1>3. sock' = sock /\ client' = client /\ fresh' = fresh
  BY <1>1, <1>2 DEF BenchNext, InterfaceComesUp, Serve, Ask, AskInVain, Answered, Unanswered,
                    clientVars, serverVars, tpVars, benchVars
<1>4. InTouch(program) /\ client # "none"
  BY <1>3 DEF InTouch, Connected
<1>5. ~AskInVain
  <2>1. sock["client"].open
    BY <1>4, TouchIs DEF InTouch
  <2> QED BY <2>1 DEF AskInVain
<1> QED BY <1>1, <1>2, <1>4, <1>5

(* A client that starts and is in touch has nothing before it.             *)
LEMMA StartsIdle ==
  ASSUME Types, Sockets, Asks, ClientStarts, fresh'
  PROVE  Idle' /\ asking' = NoRequest /\ step' = 1 /\ results' = <<>>
<1>1. client = "none" /\ inbox' = inbox /\ asking' = asking /\ step' = 1 /\ results' = <<>>
        /\ inbox["server"] = <<>>
  BY DEF ClientStarts
<1>2. inbox["client"] = <<>>
  BY <1>1 DEF Sockets, NoSocket, Ends
<1>3. asking = NoRequest
  BY <1>1 DEF Asks
<1> QED BY <1>1, <1>2, <1>3 DEF Idle, Ends

(* A call brings its request before the server. *)
LEMMA AskReaches ==
  ASSUME Types, Sockets, Connected, fresh, client # "none", Idle,
         NEW call \in CallsAt(step), inbox' = Sent(inbox, "client", call.request)
  PROVE  BeforeServer(call.request)'
<1>1. call.request \in Messages /\ Len(call.request) <= MaxPdu
  <2>1. call \in Calls /\ Len(call.request) \in 1..MaxPdu /\ MaxPdu \in Nat
    BY CallsFit, CanTpAssumption
  <2> QED BY <2>1 DEF Calls
<1>2. Reaches("client", call.request)
  BY <1>1, TouchIs DEF Ends
<1>3. inbox["client"] = <<>> /\ inbox["server"] = <<>>
  BY DEF Idle, Ends
<1>4. inbox'["client"] = <<>> /\ inbox'["server"] = Append(<<>>, call.request)
  BY <1>2, <1>3, AsksServer
<1> QED BY <1>4 DEF BeforeServer

(* A request before the server is answered with what its handlers make of  *)
(* it, which comes to the client if a message can hold it.                 *)
LEMMA ServeAnswers ==
  ASSUME Types, Sockets, Connected, fresh, client # "none", Serve,
         NEW request \in Messages, BeforeServer(request)
  PROVE  /\ BeforeClient(request)' \/ Dropped(request)'
         /\ exchange'.response = HandleBytes(serverProgram, Received(request), session)
         /\ Len(exchange'.response) <= MaxPdu => BeforeClient(request)'
         /\ session' = SessionByteAfter(Received(request), session)
<1>1. PICK served, response : ServesRequest(served, response)
  BY Serves
<1>2. inbox["server"] = <<request>> /\ inbox["client"] = <<>>
  BY DEF BeforeServer
<1>3. Head(inbox["server"]) = request /\ Tail(inbox["server"]) = <<>>
  BY <1>2
<1>4. served = Received(request) /\ response \in Messages
  BY <1>1, <1>3 DEF ServesRequest
<1>5. exchange'.request = Received(request) /\ exchange'.response = response
  BY <1>1, <1>4 DEF ServesRequest
<1>6. inbox'["server"] = <<>>
  BY <1>1, <1>3 DEF ServesRequest
<1>7. Reaches("server", response) <=> Len(response) <= MaxPdu
  BY <1>4, TouchIs DEF Ends
<1>8. inbox'["client"] = IF Len(response) <= MaxPdu THEN <<response>> ELSE <<>>
  <2>1. inbox'["client"] = IF Reaches("server", response) THEN Append(<<>>, response) ELSE <<>>
    BY <1>1, <1>2 DEF ServesRequest
  <2> QED BY <1>7, <2>1
<1>9. Answering(request)'
  BY <1>5, <1>6 DEF Answering
<1>10. CASE Len(response) <= MaxPdu
  <2>1. BeforeClient(request)'
    BY <1>5, <1>8, <1>9, <1>10 DEF BeforeClient
  <2> QED BY <1>1, <1>4, <1>5, <2>1 DEF ServesRequest
<1>11. CASE ~(Len(response) <= MaxPdu)
  <2>1. Len(response) > MaxPdu
    BY <1>4, <1>11, CanTpAssumption DEF Messages
  <2>2. Dropped(request)'
    BY <1>5, <1>8, <1>9, <1>11, <2>1 DEF Dropped
  <2> QED BY <1>1, <1>4, <1>5, <1>11, <2>2 DEF ServesRequest
<1> QED BY <1>10, <1>11

(* A response before the client is what its call returns. *)
LEMMA AnswerReturns ==
  ASSUME Types, Answered, BeforeClient(asking.request)
  PROVE  /\ Idle' /\ asking' = NoRequest /\ step' = step + 1
         /\ results' = Append(results, OutcomeOf(asking.op, asking.request,
                                                 Received(exchange.response)))
<1>1. inbox["server"] = <<>> /\ inbox["client"] = <<exchange.response>>
  BY DEF BeforeClient, Answering
<1>2. inbox' = [inbox EXCEPT !["client"] = <<>>]
  BY <1>1 DEF Answered
<1>3. Idle'
  BY <1>1, <1>2 DEF Idle, Types, Ends
<1>4. Head(inbox["client"]) = exchange.response
  BY <1>1
<1> QED BY <1>3, <1>4 DEF Answered, Returns

(* The run of a reader goes on as a run of a reader.                       *)
LEMMA ReaderStep ==
  ASSUME BenchInv, [BenchNext]_benchVars, InTouch("reader")'
  PROVE  ReaderRun'
<1> USE DEF BenchInv
<1>1. CASE ClientStarts
  <2>1. Idle' /\ asking' = NoRequest /\ step' = 1 /\ results' = <<>>
    BY <1>1, StartsIdle DEF InTouch
  <2> QED BY <2>1 DEF ReaderRun
<1>2. CASE ~ClientStarts
  <2>1. /\ InTouch("reader") /\ client # "none" /\ client = "reader"
        /\ ~ServerStarts /\ ~AskInVain /\ ~ClientEnds /\ Connected /\ fresh
    BY <1>2, StaysInTouch DEF InTouch
  <2>2. ReaderRun
    BY <2>1 DEF Runs
  <2>3. sock["client"].at # Nowhere
    BY <2>1, TouchIs
  <2>4. asking # NoRequest =>
          /\ asking \in Calls /\ asking.request \in Messages
          /\ asking.op = "send_request" /\ asking.request \in ReaderRequests
          /\ step = 1 /\ results = <<>>
    <3>1. asking # NoRequest => asking \in CallsAt(step)
      BY DEF Asks
    <3>2. asking # NoRequest =>
            /\ asking \in Calls /\ step = 1 /\ asking.op = "send_request"
            /\ asking.request \in ReaderRequests
      BY <2>1, <3>1, CallsFit
    <3> QED BY <2>2, <3>2 DEF ReaderRun, Calls
  <2>5. CASE \/ InterfaceComesUp /\ UNCHANGED <<serverVars, clientVars>>
             \/ UNCHANGED benchVars
    <3>1. UNCHANGED <<inbox, exchange, asking, step, results>>
      BY <2>5 DEF InterfaceComesUp, serverVars, clientVars, benchVars, tpVars
    <3> QED BY <2>2, <3>1
          DEF ReaderRun, ReaderResult, Idle, BeforeServer, BeforeClient, Dropped, Answering
  <2>6. CASE Serve
    <3>1. inbox["server"] # <<>> /\ UNCHANGED <<asking, step, results>>
      BY <2>6 DEF Serve, clientVars
    <3>2. asking # NoRequest
      BY <2>2, <3>1 DEF ReaderRun, Idle, Ends
    <3>3. BeforeServer(asking.request)
      BY <2>2, <3>1, <3>2 DEF ReaderRun, BeforeClient, Dropped, Answering
    <3>4. PICK request \in Messages : request = asking.request
      BY <2>4, <3>2
    <3>5. BeforeClient(request)' \/ Dropped(request)'
      BY <2>1, <2>6, <3>3, <3>4, ServeAnswers
    <3>6. asking' = asking /\ request = asking'.request
      BY <3>1, <3>4
    <3>7. BeforeClient(asking.request)' \/ Dropped(asking.request)'
      BY <3>5, <3>6 DEF BeforeClient, Dropped, Answering
    <3> QED BY <2>4, <3>1, <3>2, <3>7 DEF ReaderRun
  <2>7. CASE Ask
    <3>1. PICK call \in CallsAt(step) :
            /\ inbox' = Sent(inbox, "client", call.request)
            /\ IF call.op = "send_request_no_response"
               THEN Returns(Outcome(TRUE, NrcOf.NO_ERROR, <<>>))
               ELSE asking' = call /\ UNCHANGED <<results, step>>
      BY <2>7 DEF Ask
    <3>2. step = 1 /\ call.op = "send_request" /\ call \in Calls
      BY <2>1, CallsFit
    <3>3. asking' = call /\ results' = <<>> /\ step' = 1
      BY <2>2, <3>1, <3>2 DEF ReaderRun
    <3>4. Idle
      BY <2>2, <2>7 DEF ReaderRun, Ask
    <3>5. BeforeServer(call.request)'
      BY <2>1, <3>1, <3>4, AskReaches
    <3>6. asking' # NoRequest
      BY <3>2, <3>3, NothingAsked
    <3>7. BeforeServer(asking.request)'
      BY <3>3, <3>5 DEF BeforeServer
    <3> QED BY <3>3, <3>6, <3>7 DEF ReaderRun
  <2>8. CASE Answered
    <3>1. asking # NoRequest /\ inbox["client"] # <<>>
      BY <2>8 DEF Answered
    <3>2. BeforeClient(asking.request)
      BY <2>2, <3>1 DEF ReaderRun, BeforeServer, Dropped
    <3> DEFINE outcome == OutcomeOf(asking.op, asking.request, Received(exchange.response))
    <3>3. Idle' /\ asking' = NoRequest /\ step' = 2 /\ results' = <<outcome>>
      <4>1. step = 1 /\ results = <<>>
        BY <2>4, <3>1
      <4>2. Idle' /\ asking' = NoRequest /\ step' = step + 1
              /\ results' = Append(results, outcome)
        BY <2>8, <3>2, AnswerReturns
      <4> HIDE DEF outcome
      <4> QED BY <4>1, <4>2
    <3>4. exchange' = exchange /\ exchange.request = Received(asking.request)
      BY <2>8, <3>2 DEF Answered, serverVars, BeforeClient, Answering
    <3>5. \E request \in ReaderRequests : ReaderResult(request)'
      <4> DEFINE request == asking.request
      <4>1. request \in ReaderRequests /\ outcome = OutcomeOf("send_request", request,
                                                              Received(exchange.response))
        BY <2>4, <3>1
      <4> HIDE DEF request, outcome
      <4>2. /\ exchange'.request = Received(request)
            /\ results' = <<OutcomeOf("send_request", request, Received(exchange'.response))>>
        BY <3>3, <3>4, <4>1 DEF request
      <4> QED BY <4>1, <4>2 DEF ReaderResult
    <3> QED BY <3>3, <3>5 DEF ReaderRun
  <2>9. CASE Unanswered
    <3>1. asking # NoRequest /\ inbox["client"] = <<>> /\ inbox["server"] = <<>>
            /\ Returns(TimedOut) /\ exchange' = exchange /\ inbox' = inbox
      BY <2>3, <2>9 DEF Unanswered, serverVars, tpVars
    <3>2. Dropped(asking.request)
      BY <2>2, <3>1 DEF ReaderRun, BeforeServer, BeforeClient
    <3>3. step' = 2 /\ results' = <<TimedOut>> /\ asking' = NoRequest
      <4>1. step = 1 /\ results = <<>>
        BY <2>4, <3>1
      <4> QED BY <3>1, <4>1 DEF Returns
    <3>4. Idle'
      BY <3>1 DEF Idle, Ends
    <3>5. \E request \in ReaderRequests : ReaderResult(request)'
      <4>1. asking.request \in ReaderRequests /\ exchange.request = Received(asking.request)
              /\ Len(exchange.response) > MaxPdu
        BY <2>4, <3>1, <3>2 DEF Dropped, Answering
      <4> QED BY <3>1, <3>3, <4>1 DEF ReaderResult
    <3> QED BY <3>3, <3>4, <3>5 DEF ReaderRun
  <2> QED BY <1>2, <2>1, <2>5, <2>6, <2>7, <2>8, <2>9 DEF BenchNext
<1> QED BY <1>1, <1>2

(* The answers client_test waits for fit in a frame, so they come as they  *)
(* were sent.                                                              *)
LEMMA TestMessages ==
  ASSUME NEW k \in 1..6
  PROVE  /\ Script[k].request \in Messages
         /\ Received(Script[k].request) = Script[k].request
         /\ TestAnswer(k) \in Messages /\ Len(TestAnswer(k)) <= MaxPdu
         /\ Received(TestAnswer(k)) = TestAnswer(k)
<1>1. BufferSize \in Nat /\ BufferSize > 7 /\ MaxPdu \in Nat /\ MaxPdu > 7
  BY CanTpAssumption
<1>2. ASSUME NEW message \in Seq(Bytes), Len(message) < 8
      PROVE  Received(message) = message /\ Len(message) <= MaxPdu
  <2>1. Len(message) < BufferSize /\ Len(message) <= MaxPdu
    BY <1>1, <1>2
  <2> QED BY <2>1, ReceivedBytes
<1>3. Script[k].request \in Messages /\ Script[k].request \in Seq(Bytes)
        /\ Len(Script[k].request) < 8
  BY TestCalls DEF FitsInFrame, Calls, Messages
<1>4. TestAnswer(k) \in Messages /\ TestAnswer(k) \in Seq(Bytes)
  <2> DEFINE request == Script[k].request
  <2>1. request \in Seq(Bytes) /\ request # <<>>
    BY <1>3 DEF Messages
  <2> HIDE DEF request
  <2>2. IsResponse(request[1], HandleBytes("server_test", request, 3))
    BY <2>1, HandledIsResponse
  <2> QED BY <2>2 DEF IsResponse, TestAnswer, request, Messages
<1>5. Len(TestAnswer(k)) < 8
  <2>1. CASE k = 1
    <3>1. TestAnswer(1) = <<80, 3>>
      BY TestAnswers
    <3>2. Len(<<80, 3>>) < 8
      OBVIOUS
    <3> QED BY <2>1, <3>1, <3>2
  <2>2. CASE k = 2
    <3>1. TestAnswer(2) = <<98, \hF1, \h90, 1, 2, 3, 4>>
      BY TestAnswers
    <3>2. Len(<<98, \hF1, \h90, 1, 2, 3, 4>>) < 8
      OBVIOUS
    <3> QED BY <2>2, <3>1, <3>2
  <2>3. CASE k = 3
    <3>1. TestAnswer(3) = <<98, \h12, \h34, \hAA, \hBB>>
      BY TestAnswers
    <3>2. Len(<<98, \h12, \h34, \hAA, \hBB>>) < 8
      OBVIOUS
    <3> QED BY <2>3, <3>1, <3>2
  <2>4. CASE k = 4
    <3>1. TestAnswer(4) = <<98, \h56, \h78, \h11, \h22, \h33>>
      BY TestAnswers
    <3>2. Len(<<98, \h56, \h78, \h11, \h22, \h33>>) < 8
      OBVIOUS
    <3> QED BY <2>4, <3>1, <3>2
  <2>5. CASE k = 5
    <3>1. TestAnswer(5) = <<127, 34, \h31>>
      BY TestAnswers
    <3>2. Len(<<127, 34, \h31>>) < 8
      OBVIOUS
    <3> QED BY <2>5, <3>1, <3>2
  <2>6. CASE k = 6
    <3>1. TestAnswer(6) = <<80, \h99>>
      BY TestAnswers
    <3>2. Len(<<80, \h99>>) < 8
      OBVIOUS
    <3> QED BY <2>6, <3>1, <3>2
  <2> QED BY <2>1, <2>2, <2>3, <2>4, <2>5, <2>6
<1> QED BY <1>2, <1>3, <1>4, <1>5

(* The run of client_test goes on as one: the call it is at has the answer *)
(* of session 3, for by the time it matters the session is that one.       *)
LEMMA TestStep ==
  ASSUME BenchInv, Types', [BenchNext]_benchVars, InTouch("client_test")'
  PROVE  TestRun'
<1> USE DEF BenchInv
<1>1. CASE ClientStarts
  <2>1. Idle' /\ asking' = NoRequest /\ step' = 1 /\ results' = <<>>
    BY <1>1, StartsIdle DEF InTouch
  <2> QED BY <2>1 DEF TestRun
<1>2. CASE ~ClientStarts
  <2>1. /\ InTouch("client_test") /\ client = "client_test" /\ client # "none"
        /\ ~ServerStarts /\ ~AskInVain /\ ~ClientEnds /\ Connected /\ fresh
    BY <1>2, StaysInTouch DEF InTouch
  <2>2. TestRun
    BY <2>1 DEF Runs
  <2>3. serverProgram = "server_test"
    BY <2>1, TouchIs
  <2>4. asking # NoRequest => step \in 1..6 /\ asking = Script[step]
    <3>1. asking # NoRequest =>
            asking \in CallsAt(step) /\ asking.op # "send_request_no_response"
      BY DEF Asks
    <3>2. asking # NoRequest => step \in 1..7 /\ asking = Script[step]
      BY <2>1, <3>1, CallsFit
    <3>3. step \in 1..7 /\ Script[step].op # "send_request_no_response" => step \in 1..6
      BY TestCalls
    <3> QED BY <3>1, <3>2, <3>3
  <2>5. CASE \/ InterfaceComesUp /\ UNCHANGED <<serverVars, clientVars>>
             \/ UNCHANGED benchVars
    <3>1. UNCHANGED <<inbox, exchange, session, asking, step, results>>
      BY <2>5 DEF InterfaceComesUp, serverVars, clientVars, benchVars, tpVars
    <3> QED BY <2>2, <3>1
          DEF TestRun, Idle, BeforeServer, BeforeClient, Answering
  <2>6. CASE Serve
    <3>1. inbox["server"] # <<>> /\ UNCHANGED <<asking, step, results>>
      BY <2>6 DEF Serve, clientVars
    <3>2. CASE asking = NoRequest
      <4>1. step = 8
        <5>1. ~Idle
          BY <3>1 DEF Idle, Ends
        <5>2. ~(step < 8)
          BY <2>2, <3>2, <5>1 DEF TestRun
        <5>3. step \in 1..8
          BY DEF Types
        <5> QED BY <5>2, <5>3
      <4>2. asking' = NoRequest /\ step' = 8 /\ results' = results
        BY <3>1, <3>2, <4>1
      <4>3. /\ Len(results) = 7
            /\ \A k \in 1..6 : results[k] = TestResult(k)
            /\ results[7] = Outcome(TRUE, NrcOf.NO_ERROR, <<>>)
        <5>1. Len(results) = 7
          BY <2>2, <4>1 DEF TestRun
        <5>3. results[7] = Outcome(TRUE, NrcOf.NO_ERROR, <<>>)
          BY <2>2, <4>1 DEF TestRun
        <5>2. \A k \in 1..6 : results[k] = TestResult(k)
          BY <2>2, <4>1 DEF TestRun
        <5> QED BY <5>1, <5>2, <5>3
      <4> QED BY <4>2, <4>3 DEF TestRun
    <3>3. CASE asking # NoRequest
      <4>1. BeforeServer(asking.request) /\ step \in 1..6 /\ asking = Script[step]
        BY <2>2, <2>4, <3>1, <3>3 DEF TestRun, BeforeClient, Answering
      <4>2. PICK k \in 1..6 : k = step
        BY <4>1
      <4>3. PICK request \in Messages :
              request = asking.request /\ request = Script[k].request
        BY <4>1, <4>2, TestMessages
      <4>4. /\ exchange'.response = HandleBytes("server_test", request, session)
            /\ Len(exchange'.response) <= MaxPdu => BeforeClient(request)'
            /\ session' = SessionByteAfter(request, session)
        <5>1. Received(request) = request
          BY <4>3, TestMessages
        <5>2. BeforeServer(request)
          BY <4>1, <4>3
        <5> QED BY <2>1, <2>3, <2>6, <5>1, <5>2, ServeAnswers
      <4>5. session \in Bytes /\ (k \in 2..5 => session = 3)
        BY <2>2, <4>2 DEF Types, TestRun
      <4>6. /\ HandleBytes("server_test", request, session) = TestAnswer(k)
            /\ k = 1 => session' = 3
            /\ k \in 2..5 => session' = 3
        BY <4>3, <4>4, <4>5, AnswersToTests
      <4>7. exchange'.response = TestAnswer(k) /\ BeforeClient(request)'
        BY <4>4, <4>6, TestMessages
      <4>8. asking' = asking /\ request = asking'.request /\ step' = k /\ results' = results
        BY <3>1, <4>2, <4>3
      <4>9. BeforeClient(asking.request)'
        BY <4>7, <4>8 DEF BeforeClient, Answering
      <4>10. /\ step' \in 2..5 => session' = 3
             /\ exchange'.response = TestAnswer(step')
             /\ step' = 1 => session' = 3
        BY <4>6, <4>7, <4>8
      <4>11. asking' # NoRequest
        BY <3>3, <4>8
      <4>12. /\ Len(results') = step' - 1
             /\ \A n \in 1..6 : n < step' => results'[n] = TestResult(n)
             /\ step' # 8
        BY <2>2, <3>1, <4>1 DEF TestRun
      <4> QED BY <4>9, <4>10, <4>11, <4>12 DEF TestRun
    <3> QED BY <3>2, <3>3
  <2>7. CASE Ask
    <3>1. asking = NoRequest /\ session' = session
      BY <2>7 DEF Ask, serverVars
    <3>2. PICK call \in CallsAt(step) :
            /\ inbox' = Sent(inbox, "client", call.request)
            /\ IF call.op = "send_request_no_response"
               THEN Returns(Outcome(TRUE, NrcOf.NO_ERROR, <<>>))
               ELSE asking' = call /\ UNCHANGED <<results, step>>
      BY <2>7 DEF Ask
    <3>3. step \in 1..7 /\ call = Script[step] /\ call \in Calls
      BY <2>1, CallsFit
    <3>4. Idle
      BY <2>2, <3>1, <3>3 DEF TestRun
    <3>5. CASE call.op = "send_request_no_response"
      <4>1. step = 7
        BY <3>3, <3>5, TestCalls
      <4> DEFINE outcome == Outcome(TRUE, NrcOf.NO_ERROR, <<>>)
      <4>2. Returns(outcome)
        BY <3>2, <3>5
      <4> HIDE DEF outcome
      <4>3. results' = Append(results, outcome) /\ step' = 8 /\ asking' = NoRequest
        BY <4>1, <4>2 DEF Returns
      <4>4. results \in Seq(Outcomes) /\ Len(results) = 6
              /\ \A k \in 1..6 : results[k] = TestResult(k)
        BY <2>2, <4>1 DEF TestRun, Types
      <4>5. Len(results') = 7 /\ results'[7] = outcome
        <5>0. results \in Seq(Outcomes) /\ results' = Append(results, outcome)
          BY <4>3, <4>4
        <5>1. Len(results') = Len(results) + 1 /\ results'[Len(results) + 1] = outcome
          BY <5>0
        <5>2. Len(results) + 1 = 7
          BY <4>4
        <5> QED BY <5>1, <5>2
      <4>6. ASSUME NEW k \in 1..6 PROVE results'[k] = TestResult(k)
        <5>1. results'[k] = results[k]
          BY <4>3, <4>4
        <5> QED BY <4>4, <5>1
      <4>7. /\ step' \in 2..5 => session' = 3
            /\ ~(step' < 8) /\ Len(results') = step' - 1
        BY <4>3, <4>5
      <4>8. \A k \in 1..6 : k < step' => results'[k] = TestResult(k)
        BY <4>6
      <4>9. results'[7] = Outcome(TRUE, NrcOf.NO_ERROR, <<>>)
        BY <4>5 DEF outcome
      <4> QED BY <4>3, <4>7, <4>8, <4>9 DEF TestRun
    <3>6. CASE call.op # "send_request_no_response"
      <4>1. asking' = call /\ results' = results /\ step' = step
        BY <3>2, <3>6
      <4>2. BeforeServer(call.request)'
        BY <2>1, <3>2, <3>4, AskReaches
      <4>3. BeforeServer(asking.request)' /\ asking' # NoRequest
        BY <3>3, <4>1, <4>2, NothingAsked DEF BeforeServer
      <4> QED BY <2>2, <3>1, <3>3, <4>1, <4>3 DEF TestRun
    <3> QED BY <3>5, <3>6
  <2>8. CASE Answered
    <3>1. asking # NoRequest /\ inbox["client"] # <<>> /\ session' = session
      BY <2>8 DEF Answered, serverVars
    <3>2. /\ BeforeClient(asking.request) /\ exchange.response = TestAnswer(step)
          /\ step = 1 => session = 3
      BY <2>2, <3>1 DEF TestRun, BeforeServer
    <3>3. step \in 1..6 /\ asking = Script[step]
      BY <2>4, <3>1
    <3>4. /\ Idle' /\ asking' = NoRequest /\ step' = step + 1
          /\ results' = Append(results, TestResult(step))
      <4>1. Received(TestAnswer(step)) = TestAnswer(step)
        BY <3>3, TestMessages
      <4>2. OutcomeOf(asking.op, asking.request, Received(exchange.response)) = TestResult(step)
        BY <3>2, <3>3, <4>1 DEF TestResult
      <4> QED BY <2>8, <3>2, <4>2, AnswerReturns
    <3>5. results \in Seq(Outcomes) /\ Len(results) = step - 1
            /\ \A k \in 1..6 : k < step => results[k] = TestResult(k)
      BY <2>2 DEF TestRun, Types
    <3>6. Len(results') = step /\ results'[step] = TestResult(step)
            /\ \A k \in 1..6 : k < step => results'[k] = results[k]
      <4> DEFINE result == TestResult(step)
      <4> HIDE DEF result
      <4>1. results' = Append(results, result)
        BY <3>4 DEF result
      <4>2. Len(results') = step /\ results'[step] = result
              /\ \A k \in 1..6 : k < step => results'[k] = results[k]
        BY <3>3, <3>5, <4>1
      <4> QED BY <4>2 DEF result
    <3>7. \A k \in 1..6 : k < step' => results'[k] = TestResult(k)
      <4>1. ASSUME NEW k \in 1..6, k < step' PROVE results'[k] = TestResult(k)
        <5>1. CASE k = step
          BY <3>6, <5>1
        <5>2. CASE k # step
          <6>1. k < step
            BY <3>3, <3>4, <4>1, <5>2
          <6> QED BY <3>5, <3>6, <6>1
        <5> QED BY <5>1, <5>2
      <4> QED BY <4>1
    <3>8. step' \in 2..5 => session' = 3
      BY <2>2, <3>1, <3>2, <3>3, <3>4 DEF TestRun
    <3>9. Len(results') = step' - 1 /\ step' # 8
      BY <3>3, <3>4, <3>6
    <3> QED BY <3>4, <3>7, <3>8, <3>9 DEF TestRun
  <2>9. CASE Unanswered
    <3>1. asking # NoRequest /\ inbox["client"] = <<>> /\ inbox["server"] = <<>>
      BY <2>9 DEF Unanswered
    <3> QED BY <2>2, <3>1 DEF TestRun, BeforeServer, BeforeClient
  <2> QED BY <1>2, <2>1, <2>5, <2>6, <2>7, <2>8, <2>9 DEF BenchNext
<1> QED BY <1>1, <1>2

-----------------------------------------------------------------------------
(* The theorems.                                                           *)

(* The invariant holds at the start. *)
LEMMA InvInit == ASSUME BenchInit PROVE BenchInv
<1>1. /\ present \subseteq Interfaces /\ sock = [e \in Ends |-> NoSocket]
      /\ inbox = [e \in Ends |-> <<>>] /\ client = "none" /\ step = 1
      /\ asking = NoRequest /\ results = <<>> /\ fresh = FALSE /\ runs = 0 /\ session = 1
      /\ exchange = [request |-> <<>>, session |-> 1, response |-> <<>>]
      /\ serverProgram \in {"server_test", "service_handler"}
  BY DEF BenchInit, TpInit
<1>2. NoSocket \in SocketTypes /\ ~NoSocket.made
  <2>1. DefaultFlowControl \in FlowControls
    BY DEF DefaultFlowControl, FlowControls
  <2> QED BY <2>1 DEF NoSocket, SocketTypes
<1>3. 1 \in Bytes /\ runs \in 0..MaxRuns
  BY <1>1, BenchAssumption DEF Bytes
<1>4. Types
  <2>1. sock \in [Ends -> SocketTypes] /\ inbox \in [Ends -> Seq(Messages)]
    BY <1>1, <1>2, EmptySeq
  <2>2. exchange \in [request : Seq(Bytes), session : Bytes, response : Seq(Bytes)]
          /\ results \in Seq(Outcomes)
    BY <1>1, <1>3, EmptySeq
  <2>3. session \in Bytes /\ step \in 1..8 /\ runs \in 0..MaxRuns
    BY <1>1, <1>3
  <2>5. fresh \in BOOLEAN
    BY <1>1
  <2>4. present \subseteq Interfaces /\ serverProgram \in {"server_test", "service_handler"}
          /\ client \in {"none", "client_test", "reader"} /\ asking \in Calls \union {NoRequest}
    BY <1>1
  <2> QED BY <2>1, <2>2, <2>3, <2>4, <2>5 DEF Types
<1>5. Sockets
  BY <1>1, <1>2 DEF Sockets, Ends
<1>6. Asks /\ Served /\ Runs
  BY <1>1 DEF Asks, Served, Runs, InTouch
<1> QED BY <1>4, <1>5, <1>6 DEF BenchInv

(* Every step keeps it. *)
LEMMA InvStep == ASSUME BenchInv, [BenchNext]_benchVars PROVE BenchInv'
<1>1. Types'
  BY TypesStep DEF BenchInv
<1>2. Sockets' /\ Asks' /\ Served'
  BY <1>1, SocketsStep, AsksStep, ServedStep DEF BenchInv
<1>3. InTouch("reader")' => ReaderRun'
  BY ReaderStep
<1>4. InTouch("client_test")' => TestRun'
  BY <1>1, TestStep
<1> QED BY <1>1, <1>2, <1>3, <1>4 DEF BenchInv, Runs

(* The inductive invariant holds in every state the programs reach. *)
THEOREM BenchInvariant == BenchSpec => []BenchInv
<1>1. BenchInit => BenchInv
  BY InvInit
<1>2. BenchInv /\ [BenchNext]_benchVars => BenchInv'
  BY InvStep
<1> QED BY <1>1, <1>2, PTL DEF BenchSpec

(* Sockets, messages, sessions and results are what they are declared to   *)
(* be: in particular a session is a byte of a request, and no call takes   *)
(* client_test behind its last test.                                       *)
THEOREM BenchTypes == BenchSpec => []BenchTypeOK
<1>1. ASSUME Types PROVE BenchTypeOK
  <2>1. TpTypeOK
    <3>1. inbox \in [Ends -> Seq(Seq(Bytes))]
      <4>1. Messages \subseteq Seq(Bytes)
        BY DEF Messages
      <4>2. ASSUME NEW e \in Ends PROVE inbox[e] \in Seq(Seq(Bytes))
        <5>1. inbox[e] \in Seq(Messages)
          BY <1>1 DEF Types
        <5> QED BY <4>1, <5>1, SeqMonotonic
      <4>3. inbox = [e \in Ends |-> inbox[e]]
        BY <1>1 DEF Types
      <4> QED BY <4>2, <4>3
    <3>2. present \subseteq Interfaces /\ sock \in [Ends -> SocketTypes]
      BY <1>1 DEF Types
    <3> QED BY <3>1, <3>2 DEF TpTypeOK, SocketTypes, Bytes
  <2>2. asking.request \in Seq(Bytes)
    <3>1. CASE asking \in Calls
      BY <3>1 DEF Calls, Messages
    <3>2. CASE asking = NoRequest
      BY <3>2, EmptySeq DEF NoRequest, Call
    <3> QED BY <1>1, <3>1, <3>2 DEF Types
  <2>3. \A k \in DOMAIN results : results[k].payload \in Seq(Bytes)
    <3>1. ASSUME NEW k \in DOMAIN results PROVE results[k].payload \in Seq(Bytes)
      <4>1. results \in Seq(Outcomes) /\ k \in 1..Len(results)
        BY <1>1 DEF Types
      <4>2. results[k] \in Outcomes
        BY <4>1, ElementOfSeq
      <4> QED BY <4>2 DEF Outcomes
    <3> QED BY <3>1
  <2>4. step \in 1..(Len(Script) + 1)
    <3>1. Len(Script) = 7
      BY DEF Script
    <3> QED BY <1>1, <3>1 DEF Types
  <2>5. exchange.request \in Seq(Bytes) /\ exchange.response \in Seq(Bytes)
    BY <1>1 DEF Types
  <2>6. /\ session \in Bytes
        /\ exchange.request \in Seq(Bytes) /\ exchange.response \in Seq(Bytes)
        /\ asking.request \in Seq(Bytes)
        /\ \A k \in DOMAIN results : results[k].payload \in Seq(Bytes)
    BY <1>1, <2>2, <2>3, <2>5 DEF Types
  <2>7. /\ serverProgram \in {"server_test", "service_handler"}
        /\ client \in {"none", "client_test", "reader"}
        /\ fresh \in BOOLEAN /\ runs \in 0..MaxRuns
    BY <1>1 DEF Types
  <2> QED BY <2>1, <2>4, <2>6, <2>7 DEF BenchTypeOK, Bytes
<1>2. BenchInv => BenchTypeOK
  BY <1>1 DEF BenchInv
<1> QED BY <1>2, BenchInvariant, PTL

(* What a step that serves nothing does to the requests that wait: at most *)
(* the request of the call that is made joins them.                        *)
LEMMA OthersAsk ==
  ASSUME Types, [BenchNext]_benchVars, ~Serve
  PROVE  /\ \E asked \in {<<>>} \union {<<call.request>> : call \in CallsAt(step)} :
              inbox'["server"] = inbox["server"] \o asked
         /\ UNCHANGED <<session, exchange>>
<1>1. UNCHANGED <<session, exchange>>
  BY DEF BenchNext, ServerStarts, ClientStarts, Ask, AskInVain, Answered, Unanswered,
         ClientEnds, serverVars, benchVars
<1>2. inbox["server"] \in Seq(Messages)
  BY DEF Types, Ends
<1>3. inbox["server"] = inbox["server"] \o <<>>
  BY <1>2
<1>4. CASE inbox'["server"] = inbox["server"]
  BY <1>1, <1>3, <1>4
<1>5. CASE Ask
  <2>1. PICK call \in CallsAt(step) : inbox' = Sent(inbox, "client", call.request)
    BY <1>5 DEF Ask
  <2>2. CASE ~Reaches("client", call.request)
    BY <1>4, <2>1, <2>2, AsksServer
  <2>3. CASE Reaches("client", call.request)
    <3>1. inbox'["server"] = Append(inbox["server"], call.request)
      BY <2>1, <2>3, AsksServer
    <3>2. inbox'["server"] = inbox["server"] \o <<call.request>>
      BY <1>2, <3>1, AppendIsConcat
    <3> QED BY <1>1, <3>2
  <2> QED BY <2>2, <2>3
<1>6. CASE Answered \/ ClientEnds
  <2>1. inbox'["server"] = inbox["server"]
    BY <1>6 DEF Answered, ClientEnds, Close, Types, Ends
  <2> QED BY <1>4, <2>1
<1>7. ~Ask /\ ~Answered /\ ~ClientEnds => inbox' = inbox
  BY DEF BenchNext, InterfaceComesUp, ServerStarts, ClientStarts, AskInVain, Unanswered,
         tpVars, benchVars
<1> QED BY <1>4, <1>5, <1>6, <1>7

(* The oldest request that waits is served as the abstract protocol does.  *)
LEMMA ServesAsSpecified ==
  ASSUME Types, Serve, serverProgram = "service_handler",
         NEW request, request = Received(Head(inbox["server"])), NEW now, now = SessionOf(session)
  PROVE  /\ inbox["server"] # <<>> /\ inbox'["server"] = Tail(inbox["server"])
         /\ SessionOf(session') = SessionAfter(Decode(request), now)
         /\ exchange'.response = Encode(HandleRequest(Decode(request), now), request)
<1>1. PICK asked, response : ServesRequest(asked, response)
  BY Serves
<1>2. asked = request /\ request \in Seq(Bytes) /\ request # <<>> /\ session \in Bytes
  BY <1>1 DEF ServesRequest, Messages, Types
<1>3. /\ session' = SessionByteAfter(request, session)
      /\ exchange'.response = HandleBytes("service_handler", request, session)
      /\ inbox'["server"] = Tail(inbox["server"])
  BY <1>1, <1>2 DEF ServesRequest
<1>4. SessionOf(SessionByteAfter(request, session)) = SessionAfter(Decode(request), now)
  BY <1>2, SessionFollows
<1>5. HandleBytes("service_handler", request, session)
        = Encode(HandleRequest(Decode(request), now), request)
  BY <1>2, HandlersFollowProtocol
<1>6. inbox["server"] # <<>>
  BY DEF Serve
<1> QED BY <1>3, <1>4, <1>5, <1>6

(* service_handler is the server of the abstract protocol, byte by byte:   *)
(* in its order, its responses and its sessions, to every request a client *)
(* can send and in every session one can set.                              *)
THEOREM BenchFollowsProtocol == BenchSpec => BytesFollowProtocol
<1> DEFINE Follows ==
      serverProgram = "service_handler" =>
        \/ /\ \E asked \in {<<>>} \union {<<call.request>> : call \in CallsAt(step)} :
                inbox'["server"] = inbox["server"] \o asked
           /\ UNCHANGED <<session, exchange>>
        \/ /\ inbox["server"] # <<>>
           /\ inbox'["server"] = Tail(inbox["server"])
           /\ LET request == Received(Head(inbox["server"]))
                  now     == SessionOf(session)
              IN /\ SessionOf(session') = SessionAfter(Decode(request), now)
                 /\ exchange'.response =
                      Encode(HandleRequest(Decode(request), now), request)
<1>1. ASSUME BenchInv, [BenchNext]_benchVars PROVE Follows
  <2>1. CASE ~Serve
    BY <1>1, <2>1, OthersAsk DEF BenchInv
  <2>2. CASE Serve
    BY <1>1, <2>2, ServesAsSpecified DEF BenchInv
  <2> QED BY <2>1, <2>2
<1>2. BenchInv /\ [BenchNext]_benchVars => [Follows]_benchVars
  BY <1>1
<1> QED BY <1>2, BenchInvariant, PTL DEF BenchSpec, BytesFollowProtocol

(* A server that was reached and is answered: what the reader is told.     *)
LEMMA ReaderIsTold ==
  ASSUME BenchInv, InTouch("reader"), results # <<>>
  PROVE  /\ \E request \in ReaderRequests : ReaderResult(request)
         /\ exchange.request # <<>>
         /\ exchange.response =
              HandleBytes("service_handler", exchange.request, exchange.session)
<1>1. ReaderRun
  BY DEF BenchInv, Runs
<1>2. PICK request \in ReaderRequests : ReaderResult(request)
  BY <1>1 DEF ReaderRun
<1>3. exchange.request # <<>>
  <2>1. request \in Seq(Bytes) /\ request # <<>>
    BY BenchAssumption DEF Bytes
  <2> QED BY <1>2, <2>1, ReceivedBytes DEF ReaderResult
<1>4. serverProgram = "service_handler"
  BY TouchIs DEF InTouch, BenchInv
<1> QED BY <1>2, <1>3, <1>4 DEF BenchInv, Served

(* A reader that is told of success has the value of every identifier it   *)
(* asked for, in their order, or what receive() has room for of them.      *)
THEOREM BenchReadsWhole == BenchSpec => []ReadsAreWhole
<1>1. ASSUME BenchInv, InTouch("reader"), results # <<>>, results[1].success,
             exchange.request[1] = SidOf[ReadData]
      PROVE  results[1].payload =
               LET whole == ValuesRead(Decode(exchange.request).args)
               IN IF Len(whole) < BufferSize THEN whole
                  ELSE SubSeq(whole, 1, BufferSize - 1)
  <2>1. PICK request \in ReaderRequests : ReaderResult(request)
    BY <1>1, ReaderIsTold
  <2>2. exchange.request = Received(request)
    BY <2>1 DEF ReaderResult
  <2>3. results = <<OutcomeOf("send_request", request, Received(exchange.response))>>
    <3>1. ~TimedOut.success
      BY DEF TimedOut, Outcome
    <3>2. results # <<TimedOut>>
      BY <1>1, <3>1
    <3> QED BY <2>1, <3>2 DEF ReaderResult
  <2>4. results[1] = OutcomeOf("send_request", request, Received(exchange.response))
    BY <2>3
  <2>5. exchange.response =
          HandleBytes("service_handler", Received(request), exchange.session)
    BY <1>1, <2>2, ReaderIsTold
  <2>6. Received(request)[1] = 34
    BY <1>1, <2>2 DEF SidOf, ReadData
  <2>7. request \in Messages
    BY BenchAssumption DEF Messages, Bytes
  <2>8. OutcomeOf("send_request", request, Received(exchange.response)).success
    BY <1>1, <2>4
  <2> QED BY <2>2, <2>4, <2>5, <2>6, <2>7, <2>8, ReadsWhole
<1>2. BenchInv => ReadsAreWhole
  BY <1>1 DEF ReadsAreWhole
<1> QED BY <1>2, BenchInvariant, PTL

(* What the calls of client_test have returned so far.                     *)
LEMMA TestIsTold ==
  ASSUME BenchInv, InTouch("client_test"), NEW k \in DOMAIN results
  PROVE  /\ k \in 1..7
         /\ k # 7 => results[k] = TestResult(k)
         /\ k = 7 => results[k] = Outcome(TRUE, 0, <<>>)
<1>1. TestRun
  BY DEF BenchInv, Runs
<1>2. results \in Seq(Outcomes) /\ step \in 1..8
  BY DEF BenchInv, Types
<1>3. k \in 1..Len(results)
  BY <1>2
<1>4. k \in 1..7 /\ k < step
  BY <1>1, <1>2, <1>3 DEF TestRun
<1>5. k # 7 => results[k] = TestResult(k)
  BY <1>1, <1>4 DEF TestRun
<1>6. k = 7 => results[k] = Outcome(TRUE, 0, <<>>)
  <2>1. k = 7 => step = 8
    BY <1>2, <1>4
  <2>2. NrcOf.NO_ERROR = 0
    BY DEF NrcOf
  <2> QED BY <1>1, <2>1, <2>2 DEF TestRun
<1> QED BY <1>4, <1>5, <1>6

(* Tests 2 to 4 of client_test pass in every run that finds its server     *)
(* idle, whatever the runs before it left behind.                          *)
THEOREM BenchFirstTestsPass == BenchSpec => []FirstTestsPass
<1>1. ASSUME BenchInv, InTouch("client_test"), NEW k \in DOMAIN results
      PROVE  /\ k = 1 => results[k].success
             /\ k \in 2..4 => /\ results[k].success
                              /\ Len(results[k].payload) - 2 = <<0, 4, 2, 3>>[k]
             /\ k = 5 => results[k].nrc = NrcOf.REQUEST_OUT_OF_RANGE
  <2>1. k # 7 => results[k] = TestResult(k)
    BY <1>1, TestIsTold
  <2>2. k = 1 => results[k].success
    BY <2>1, TestResults
  <2>3. CASE k = 2
    BY <2>1, <2>3, TestResults
  <2>4. CASE k = 3
    BY <2>1, <2>4, TestResults
  <2>5. CASE k = 4
    BY <2>1, <2>5, TestResults
  <2>6. k = 5 => results[k].nrc = NrcOf.REQUEST_OUT_OF_RANGE
    BY <2>1, TestResults DEF NrcOf
  <2> QED BY <2>2, <2>3, <2>4, <2>5, <2>6
<1>2. ASSUME BenchInv PROVE FirstTestsPass
  BY <1>1, <1>2 DEF FirstTestsPass
<1> QED BY <1>2, BenchInvariant, PTL

(* A client in touch with its server is told of a timeout for one reason   *)
(* alone: the response was longer than a message can be.                   *)
THEOREM BenchOnlyLongVanish == BenchSpec => []OnlyLongResponsesVanish
<1>1. ASSUME BenchInv, InTouch("reader"), NEW k \in DOMAIN results, results[k] = TimedOut
      PROVE  k = 1 /\ Len(exchange.response) > MaxPdu
  <2>1. results # <<>>
    BY <1>1
  <2>2. PICK request \in ReaderRequests : ReaderResult(request)
    BY <1>1, <2>1, ReaderIsTold
  <2>3. IsResponse(exchange.request[1], exchange.response)
    <3>1. exchange.request \in Seq(Bytes)
      BY <1>1 DEF BenchInv, Types
    <3>2. /\ exchange.request # <<>>
          /\ exchange.response =
               HandleBytes("service_handler", exchange.request, exchange.session)
      BY <1>1, <2>1, ReaderIsTold
    <3> QED BY <3>1, <3>2, HandledIsResponse
  <2>4. OutcomeOf("send_request", request, Received(exchange.response)) # TimedOut
    BY <2>3, AnswerIsNoTimeout
  <2>5. CASE results = <<OutcomeOf("send_request", request, Received(exchange.response))>>
    BY <1>1, <2>4, <2>5
  <2>6. CASE results = <<TimedOut>> /\ Len(exchange.response) > MaxPdu
    BY <1>1, <2>6
  <2> QED BY <2>2, <2>5, <2>6 DEF ReaderResult
<1>2. ASSUME BenchInv, InTouch("client_test"), NEW k \in DOMAIN results
      PROVE  results[k] # TimedOut
  <2>1. k \in 1..7 /\ (k # 7 => results[k] = TestResult(k))
          /\ (k = 7 => results[k] = Outcome(TRUE, 0, <<>>))
    BY <1>2, TestIsTold
  <2>2. CASE k = 7
    BY <2>1, <2>2 DEF TimedOut, Outcome
  <2>3. CASE k # 7
    <3>1. k \in 1..6
      BY <2>1, <2>3
    <3> DEFINE request == Script[k].request
    <3>2. request \in Seq(Bytes) /\ request # <<>>
      BY <3>1, TestMessages DEF Messages
    <3> HIDE DEF request
    <3>3. IsResponse(request[1], HandleBytes("server_test", request, 3))
      BY <3>2, HandledIsResponse
    <3>4. IsResponse(request[1], TestAnswer(k))
      BY <3>3 DEF TestAnswer, request
    <3>5. OutcomeOf(Script[k].op, Script[k].request, Received(TestAnswer(k))) # TimedOut
      BY <3>4, AnswerIsNoTimeout
    <3>6. TestResult(k) # TimedOut
      BY <3>1, <3>5, TestMessages DEF TestResult
    <3> QED BY <2>1, <2>3, <3>6
  <2> QED BY <2>2, <2>3
<1>3. BenchInv => OnlyLongResponsesVanish
  BY <1>1, <1>2 DEF OnlyLongResponsesVanish
<1> QED BY <1>3, BenchInvariant, PTL

-----------------------------------------------------------------------------
(* Success, and the interface it comes over.                               *)

OnBus == /\ sock["client"].at # Nowhere
         /\ sock["client"].at = sock["server"].at

(* What waits before a client came over an interface it shares with the    *)
(* server; the result of a call is where its number says.                  *)
BusInv ==
  /\ client # "none" => Len(results) = step - 1
  /\ inbox["client"] # <<>> => OnBus
  /\ SuccessComesOverTheBus

(* A call that returns: a success of one that waits needs the bus. *)
LEMMA ReturnKeepsBus ==
  ASSUME Types, BusInv, client # "none", NEW outcome, Returns(outcome),
         UNCHANGED <<client, sock>>,
         outcome.success /\ ~(client = "client_test" /\ step = 7) => OnBus
  PROVE  Len(results') = step' - 1 /\ SuccessComesOverTheBus'
<1>1. results \in Seq(Outcomes) /\ step \in 1..8
  BY DEF Types
<1>2. Len(results) = step - 1
  BY DEF BusInv
<1>3. results' = Append(results, outcome) /\ step' = step + 1
  BY DEF Returns
<1>4. Len(results') = step' - 1
  BY <1>1, <1>2, <1>3
<1>5. ASSUME NEW k \in DOMAIN results', results'[k].success,
             ~(client = "client_test" /\ k = 7)
      PROVE  OnBus
  <2>1. k \in 1..(Len(results) + 1)
    BY <1>1, <1>3
  <2>2. CASE k = Len(results) + 1
    <3>1. results'[k] = outcome
      BY <1>1, <1>3, <2>2
    <3>2. k = step
      BY <1>1, <1>2, <2>2
    <3> QED BY <1>5, <3>1, <3>2
  <2>3. CASE k # Len(results) + 1
    <3>1. k \in DOMAIN results /\ results'[k] = results[k]
      BY <1>1, <1>3, <2>1, <2>3
    <3> QED BY <1>5, <3>1 DEF BusInv, SuccessComesOverTheBus, OnBus
  <2> QED BY <2>2, <2>3
<1> QED BY <1>4, <1>5 DEF SuccessComesOverTheBus, OnBus

(* Only the last call of client_test waits for no response. *)
LEMMA NoResponseIsLast ==
  ASSUME Types, client # "none", NEW call \in CallsAt(step),
         call.op = "send_request_no_response"
  PROVE  client = "client_test" /\ step = 7
<1>1. CASE client = "client_test"
  <2>1. step \in 1..7 /\ call = Script[step]
    BY <1>1, CallsFit
  <2>2. ~(step < 7)
    BY <2>1, TestCalls
  <2> QED BY <1>1, <2>1, <2>2
<1>2. CASE client # "client_test"
  BY <1>2, CallsFit
<1> QED BY <1>1, <1>2

LEMMA BusStep ==
  ASSUME BenchInv, BusInv, [BenchNext]_benchVars
  PROVE  BusInv'
<1>1. Types /\ Sockets /\ Asks
  BY DEF BenchInv
<1>2. CASE UNCHANGED <<sock, inbox, client, step, results>>
  BY <1>2 DEF BusInv, OnBus, SuccessComesOverTheBus
<1>3. CASE \/ InterfaceComesUp /\ UNCHANGED <<serverVars, clientVars>>
           \/ UNCHANGED benchVars
  BY <1>2, <1>3 DEF InterfaceComesUp, clientVars, benchVars, tpVars
<1>4. CASE ServerStarts
  <2>1. sock["server"].at = Nowhere
    BY <1>1, <1>4 DEF ServerStarts, Sockets, NoSocket
  <2>2. ~OnBus
    BY <2>1 DEF OnBus
  <2>3. UNCHANGED <<inbox, client, step, results>>
    BY <1>4 DEF ServerStarts, clientVars
  <2> QED BY <2>2, <2>3 DEF BusInv, SuccessComesOverTheBus, OnBus
<1>5. CASE Serve
  <2>1. UNCHANGED <<sock, client, step, results>>
    BY <1>5 DEF Serve, clientVars
  <2>2. PICK request, response : ServesRequest(request, response)
    BY <1>1, <1>5, Serves
  <2>3. Reaches("server", response) => OnBus
    BY OtherEnd DEF Reaches, OnBus
  <2>4. inbox'["client"] # <<>> => OnBus
    BY <2>2, <2>3 DEF ServesRequest, BusInv
  <2> QED BY <2>1, <2>4 DEF BusInv, SuccessComesOverTheBus, OnBus
<1>6. CASE ClientStarts
  <2>1. client = "none" /\ inbox' = inbox /\ step' = 1 /\ results' = <<>>
    BY <1>6 DEF ClientStarts
  <2>2. inbox["client"] = <<>>
    BY <1>1, <2>1 DEF Sockets, NoSocket, Ends
  <2> QED BY <2>1, <2>2 DEF BusInv, SuccessComesOverTheBus
<1>7. CASE Ask
  <2>1. client # "none"
    BY <1>1, <1>7 DEF Ask, Sockets, NoSocket
  <2>2. PICK call \in CallsAt(step) :
          /\ inbox' = Sent(inbox, "client", call.request)
          /\ IF call.op = "send_request_no_response"
             THEN Returns(Outcome(TRUE, NrcOf.NO_ERROR, <<>>))
             ELSE asking' = call /\ UNCHANGED <<results, step>>
    BY <1>7 DEF Ask
  <2>3. UNCHANGED <<sock, client>> /\ inbox'["client"] = inbox["client"]
    BY <1>1, <1>7, <2>2, AsksServer DEF Ask
  <2>4. CASE call.op = "send_request_no_response"
    <3>1. client = "client_test" /\ step = 7
      BY <1>1, <2>1, <2>4, NoResponseIsLast
    <3>2. Returns(Outcome(TRUE, NrcOf.NO_ERROR, <<>>))
      BY <2>2, <2>4
    <3>3. Len(results') = step' - 1 /\ SuccessComesOverTheBus'
      BY <1>1, <2>1, <2>3, <3>1, <3>2, ReturnKeepsBus
    <3> QED BY <2>3, <3>3 DEF BusInv, OnBus
  <2>5. CASE call.op # "send_request_no_response"
    BY <2>2, <2>3, <2>5 DEF BusInv, SuccessComesOverTheBus, OnBus
  <2> QED BY <2>4, <2>5
<1>8. CASE AskInVain
  <2>1. client # "none" /\ UNCHANGED <<sock, inbox, client>>
    BY <1>8 DEF AskInVain, tpVars
  <2>2. PICK call \in CallsAt(step) :
          Returns(IF call.op = "send_request_no_response"
                  THEN Outcome(TRUE, NrcOf.NO_ERROR, <<>>) ELSE Rejected)
    BY <1>8 DEF AskInVain
  <2>3. CASE call.op = "send_request_no_response"
    <3>1. client = "client_test" /\ step = 7
      BY <1>1, <2>1, <2>3, NoResponseIsLast
    <3>2. Returns(Outcome(TRUE, NrcOf.NO_ERROR, <<>>))
      BY <2>2, <2>3
    <3>3. Len(results') = step' - 1 /\ SuccessComesOverTheBus'
      BY <1>1, <2>1, <3>1, <3>2, ReturnKeepsBus
    <3> QED BY <2>1, <3>3 DEF BusInv, OnBus
  <2>4. CASE call.op # "send_request_no_response"
    <3>1. Returns(Rejected) /\ ~Rejected.success
      BY <2>2, <2>4 DEF Rejected, Outcome
    <3>2. Len(results') = step' - 1 /\ SuccessComesOverTheBus'
      BY <1>1, <2>1, <3>1, ReturnKeepsBus
    <3> QED BY <2>1, <3>2 DEF BusInv, OnBus
  <2> QED BY <2>3, <2>4
<1>9. CASE Answered
  <2>1. client # "none"
    BY <1>1, <1>9 DEF Answered, Asks
  <2>2. UNCHANGED <<sock, client>> /\ OnBus
    BY <1>9 DEF Answered, BusInv
  <2>3. \E outcome : Returns(outcome)
    BY <1>9 DEF Answered
  <2>4. Len(results') = step' - 1 /\ SuccessComesOverTheBus'
    BY <1>1, <2>1, <2>2, <2>3, ReturnKeepsBus
  <2> QED BY <2>2, <2>4 DEF BusInv, OnBus
<1>10. CASE Unanswered
  <2>1. client # "none" /\ UNCHANGED <<sock, inbox, client>>
    BY <1>1, <1>10 DEF Unanswered, Asks, tpVars
  <2>2. \E outcome \in {TimedOut, Rejected} : Returns(outcome)
    BY <1>10 DEF Unanswered
  <2>3. ~TimedOut.success /\ ~Rejected.success
    BY DEF TimedOut, Rejected, Outcome
  <2>4. Len(results') = step' - 1 /\ SuccessComesOverTheBus'
    BY <1>1, <2>1, <2>2, <2>3, ReturnKeepsBus
  <2> QED BY <2>1, <2>4 DEF BusInv, OnBus
<1>11. CASE ClientEnds
  <2>1. client' = "none" /\ inbox' = [inbox EXCEPT !["client"] = <<>>]
    BY <1>11 DEF ClientEnds, Close
  <2>2. inbox'["client"] = <<>>
    BY <1>1, <2>1 DEF Types, Ends
  <2> QED BY <2>1, <2>2 DEF BusInv, SuccessComesOverTheBus
<1> QED BY <1>3, <1>4, <1>5, <1>6, <1>7, <1>8, <1>9, <1>10, <1>11 DEF BenchNext

(* For any interfaces, and whatever becomes of the calls that make a       *)
(* socket (the constructor of CAN_TP): a client that waits for responses   *)
(* is told of success over an interface it shares with the server only.    *)
THEOREM BenchSuccessOverTheBus == BenchSpec => []SuccessComesOverTheBus
<1>1. BenchInit => BusInv
  BY DEF BenchInit, TpInit, BusInv, SuccessComesOverTheBus, Ends
<1>2. BusInv => SuccessComesOverTheBus
  BY DEF BusInv
<1> QED BY <1>1, <1>2, BusStep, BenchInvariant, PTL DEF BenchSpec
=============================================================================
