----------------------- MODULE CachedAllocatorProofs -----------------------
(***************************************************************************)
(* NoLeak, OwnBlock, BigEnough and Accounting of CachedAllocator for every *)
(* set of addresses and sizes, limit, tolerance and modulus.               *)
(***************************************************************************)
EXTENDS CachedAllocator, SequenceTheorems, FiniteSetTheorems, TLAPS

\* The parts support each other: BigEnough survives a miss because the new
\* address is not in alloc (NoLeak, which says that nothing dangles before a
\* miss), and the block a scope gives back is nobody else's (OwnBlock).
IInv == TypeOK /\ NoLeak /\ OwnBlock /\ BigEnough

\* A quotient times its divisor is at most the dividend.
LEMMA DivTimes ==
    ASSUME NEW a \in Nat, NEW d \in Nat, d > 0
    PROVE  a \div d \in Nat /\ (a \div d) * d <= a
  OBVIOUS

\* A block within the tolerance wastes no more than it.
LEMMA TolBound ==
    ASSUME NEW n \in Nat, NEW s \in Nat, WithinTol(n, s)
    PROVE  n <= s /\ s * TolDen <= n * (TolDen + TolNum)
  <1>. DEFINE q == (n * TolNum) \div TolDen
  <1>1. TolNum \in Nat /\ TolDen \in Nat /\ TolDen > 0
    BY AllocatorAssumption
  <1>2. n * TolNum \in Nat
    BY <1>1
  <1>3. q \in Nat /\ q * TolDen <= n * TolNum
    BY <1>1, <1>2, DivTimes
  <1>4. s <= n + q /\ n <= s
    BY DEF WithinTol
  <1>. HIDE DEF q
  <1>5. s * TolDen <= (n + q) * TolDen
    BY <1>1, <1>3, <1>4
  <1>6. (n + q) * TolDen = n * TolDen + q * TolDen
    BY <1>1, <1>3
  <1>7. n * (TolDen + TolNum) = n * TolDen + n * TolNum
    BY <1>1
  <1>. QED
    BY <1>1, <1>2, <1>3, <1>4, <1>5, <1>6, <1>7

\* A block asked for with its own size is within the tolerance.
LEMMA TolSame ==
    ASSUME NEW n \in Nat
    PROVE  n * TolDen <= n * (TolDen + TolNum)
  <1>1. TolNum \in Nat /\ TolDen \in Nat
    BY AllocatorAssumption
  <1>2. n * (TolDen + TolNum) = n * TolDen + n * TolNum /\ n * TolNum \in Nat /\ n * TolDen \in Nat
    BY <1>1
  <1>. QED
    BY <1>2

\* What a scope opened with a block of its own does to the scopes.
LEMMA OpenOwn ==
    ASSUME TypeOK, OwnBlock, NEW x \in Addr, x \notin alloc, NEW n \in Nat,
           Open(x, n), alloc' = alloc \cup {x}
    PROVE  OwnBlock'
  <1>. DEFINE r == [addr |-> x, bytes |-> n]
  <1>1. Null # x
    BY AllocatorAssumption
  <1>2. /\ scopes' = Append(scopes, r) /\ Len(scopes') = Len(scopes) + 1
        /\ Len(scopes) \in Nat
        /\ \A i \in 1..Len(scopes) : scopes'[i] = scopes[i]
        /\ scopes'[Len(scopes) + 1] = r
    BY DEF Open, TypeOK
  <1>3. \A i \in 1..Len(scopes) : scopes[i].addr # x
    BY <1>1 DEF OwnBlock
  <1>4. \A i, j \in 1..Len(scopes') :
            scopes'[i].addr = scopes'[j].addr /\ scopes'[i].addr # Null => i = j
    BY <1>2, <1>3 DEF OwnBlock
  <1>5. {scopes'[i].addr : i \in 1..Len(scopes')} = {scopes[i].addr : i \in 1..Len(scopes)} \cup {x}
    <2>1. ASSUME NEW i \in 1..Len(scopes') PROVE scopes'[i].addr \in {scopes[k].addr : k \in 1..Len(scopes)} \cup {x}
      <3>1. i \in 1..Len(scopes) \/ i = Len(scopes) + 1
        BY <1>2
      <3>. QED
        BY <3>1, <1>2
    <2>2. ASSUME NEW k \in 1..Len(scopes) PROVE scopes[k].addr \in {scopes'[i].addr : i \in 1..Len(scopes')}
      BY <1>2
    <2>3. x \in {scopes'[i].addr : i \in 1..Len(scopes')}
      <3>1. Len(scopes) + 1 \in 1..Len(scopes') /\ scopes'[Len(scopes) + 1].addr = x
        BY <1>2
      <3>. QED
        BY <3>1
    <2>. QED
      BY <2>1, <2>2, <2>3
  <1>6. alloc' = {scopes'[i].addr : i \in 1..Len(scopes')} \ {Null}
    BY <1>1, <1>5 DEF OwnBlock
  <1>. QED
    BY <1>4, <1>6 DEF OwnBlock

\* A sequence without its last element.
LEMMA WithoutLast ==
    ASSUME NEW S, NEW s \in Seq(S), s # <<>>
    PROVE  /\ Len(s) \in Nat /\ Len(s) > 0
           /\ SubSeq(s, 1, Len(s) - 1) \in Seq(S)
           /\ Len(SubSeq(s, 1, Len(s) - 1)) = Len(s) - 1
           /\ \A i \in 1..(Len(s) - 1) : SubSeq(s, 1, Len(s) - 1)[i] = s[i]
  <1>1. Len(s) \in Nat /\ Len(s) > 0
    BY EmptySeq, LenProperties
  <1>. DEFINE m == Len(s) - 1
  <1>2. m \in Nat /\ \A i \in 1..m : i \in 1..Len(s)
    BY <1>1
  <1>3. \A i \in 1..m : s[i] \in S
    BY <1>2, ElementOfSeq
  <1>. HIDE DEF m
  <1>4. /\ SubSeq(s, 1, m) \in Seq(S)
        /\ Len(SubSeq(s, 1, m)) = IF 1 <= m THEN m - 1 + 1 ELSE 0
        /\ \A i \in 1..(m - 1 + 1) : SubSeq(s, 1, m)[i] = s[1 + i - 1]
    BY <1>2, <1>3, SubSeqProperties
  <1>5. Len(SubSeq(s, 1, m)) = m
    BY <1>2, <1>4
  <1>6. \A i \in 1..m : SubSeq(s, 1, m)[i] = s[i]
    <2>. SUFFICES ASSUME NEW i \in 1..m PROVE SubSeq(s, 1, m)[i] = s[i]
      OBVIOUS
    <2>1. i \in 1..(m - 1 + 1) /\ 1 + i - 1 = i
      BY <1>2
    <2>. QED
      BY <2>1, <1>4
  <1>. QED
    BY <1>1, <1>4, <1>5, <1>6 DEF m

\* What the end of the innermost scope does to the scopes.
LEMMA CloseOwn ==
    ASSUME TypeOK, OwnBlock, scopes # <<>>,
           scopes' = SubSeq(scopes, 1, Len(scopes) - 1),
           alloc' = alloc \ {scopes[Len(scopes)].addr}
    PROVE  OwnBlock'
  <1>. DEFINE n == Len(scopes)
  <1>1. /\ n \in Nat /\ n > 0 /\ Len(scopes') = n - 1
        /\ \A i \in 1..(n - 1) : scopes'[i] = scopes[i]
    BY WithoutLast DEF TypeOK
  <1>. HIDE DEF n
  <1>2. \A i, j \in 1..Len(scopes') :
            scopes'[i].addr = scopes'[j].addr /\ scopes'[i].addr # Null => i = j
    <2>1. \A i \in 1..Len(scopes') : i \in 1..Len(scopes) /\ scopes'[i] = scopes[i]
      BY <1>1 DEF n
    <2>. QED
      BY <2>1 DEF OwnBlock
  <1>3. \A i \in 1..(n - 1) : scopes[i].addr # Null => scopes[i].addr # scopes[n].addr
    BY <1>1 DEF OwnBlock, n
  <1>4. ASSUME NEW x PROVE x \in alloc' <=> x \in {scopes'[i].addr : i \in 1..Len(scopes')} \ {Null}
    <2>1. x \in alloc <=> x # Null /\ \E i \in 1..n : x = scopes[i].addr
      BY DEF OwnBlock, n
    <2>2. x \in {scopes'[i].addr : i \in 1..Len(scopes')} \ {Null}
            <=> x # Null /\ \E i \in 1..(n - 1) : x = scopes[i].addr
      BY <1>1
    <2>3. (\E i \in 1..n : x = scopes[i].addr)
            <=> x = scopes[n].addr \/ \E i \in 1..(n - 1) : x = scopes[i].addr
      <3>1. \A i \in 1..n : i = n \/ i \in 1..(n - 1)
        BY <1>1
      <3>2. n \in 1..n /\ \A i \in 1..(n - 1) : i \in 1..n
        BY <1>1
      <3>. QED
        BY <3>1, <3>2
    <2>4. x \in alloc' <=> x \in alloc /\ x # scopes[n].addr
      BY DEF n
    <2>. QED
      BY <2>1, <2>2, <2>3, <2>4, <1>3
  <1>. QED
    BY <1>2, <1>4 DEF OwnBlock

\* Every call of the allocator preserves the invariant.
LEMMA StepIInv == IInv /\ [Next]_vars => IInv'
  <1>. SUFFICES ASSUME IInv, [Next]_vars PROVE IInv'
    OBVIOUS
  <1>. USE DEF IInv, vars, blocks, history
  <1>0. Requests \subseteq Nat /\ Null \notin Addr
    BY AllocatorAssumption
  <1>00. None \in [addr : Addr \cup {Null}, bytes : Nat] /\ None.addr = Null
    BY DEF None
  <1>1. CASE GetNothing
    <2>1. /\ scopes' = Append(scopes, [addr |-> Null, bytes |-> 0])
          /\ Len(scopes) \in Nat /\ Len(scopes') = Len(scopes) + 1
          /\ \A i \in 1..Len(scopes) : scopes'[i] = scopes[i]
          /\ scopes'[Len(scopes) + 1].addr = Null
      BY <1>1 DEF GetNothing, Open, TypeOK
    <2>2. TypeOK'
      BY <1>1, <2>1 DEF GetNothing, TypeOK
    <2>3. NoLeak'
      BY <1>1 DEF GetNothing, NoLeak, Making
    <2>4. \A i \in 1..Len(scopes') : i \in 1..Len(scopes) \/ scopes'[i].addr = Null
      BY <2>1
    <2>5. OwnBlock'
      <3>1. \A i, j \in 1..Len(scopes') :
                scopes'[i].addr = scopes'[j].addr /\ scopes'[i].addr # Null => i = j
        BY <2>1, <2>4 DEF OwnBlock
      <3>2. ASSUME NEW x PROVE x \in {scopes'[i].addr : i \in 1..Len(scopes')} \ {Null}
                                <=> x \in {scopes[i].addr : i \in 1..Len(scopes)} \ {Null}
        BY <2>1, <2>4
      <3>3. alloc' = alloc
        BY <1>1 DEF GetNothing
      <3>. QED
        BY <3>1, <3>2, <3>3 DEF OwnBlock
    <2>6. BigEnough'
      BY <1>1, <2>1, <2>4 DEF GetNothing, BigEnough
    <2>. QED
      BY <2>2, <2>3, <2>5, <2>6
  <1>2. ASSUME NEW n \in Requests, GetHit(n) PROVE IInv'
    <2>1. PICK x \in Hits(n) : free' = free \ {x} /\ alloc' = alloc \cup {x} /\ Open(x, n)
      BY <1>2 DEF GetHit
    <2>2. /\ x \in free /\ x \in Addr /\ x \notin alloc /\ WithinTol(n, size[x])
          /\ n \in Nat /\ size[x] \in Nat
      BY <1>0, <2>1 DEF Hits, LowerBound, TypeOK, NoLeak
    <2>3. /\ Len(scopes) \in Nat /\ Len(scopes') = Len(scopes) + 1
          /\ \A i \in 1..Len(scopes) : scopes'[i] = scopes[i]
          /\ scopes'[Len(scopes) + 1] = [addr |-> x, bytes |-> n]
      BY <2>1 DEF Open, TypeOK
    <2>4. TypeOK'
      BY <1>2, <2>1, <2>2 DEF TypeOK, GetHit, Open
    <2>5. NoLeak'
      <3>1. pc = "ready" /\ pc' = pc /\ dangling = {} /\ dangling' = {} /\ dev' = dev
            /\ lost' = lost /\ stray' = stray /\ Making' = Making
        BY <1>2 DEF NoLeak, GetHit, Making
      <3>. QED
        BY <2>1, <2>2, <3>1 DEF NoLeak
    <2>6. OwnBlock'
      BY <2>1, <2>2, OpenOwn
    <2>7. \A i \in 1..Len(scopes') : i \in 1..Len(scopes) \/ i = Len(scopes) + 1
      BY <2>3
    <2>8. BigEnough'
      BY <1>2, <2>2, <2>3, <2>7, TolBound DEF BigEnough, Fits, GetHit
    <2>. QED
      BY <2>4, <2>5, <2>6, <2>8
  <1>3. ASSUME NEW n \in Requests, GetMiss(n) PROVE IInv'
    <2>1. PICK x \in Addr \ dev : /\ dev' = dev \cup {x} /\ size' = [size EXCEPT ![x] = n]
                                  /\ result' = [addr |-> x, bytes |-> n]
      BY <1>3 DEF GetMiss
    <2>2. /\ pc = "ready" /\ pc' = "evict" /\ Making = {} /\ Making' = {x} /\ dangling = {}
          /\ free' = free /\ alloc' = alloc /\ scopes' = scopes
          /\ lost' = lost /\ stray' = stray /\ dangling' = dangling
      BY <1>0, <1>3, <2>1 DEF NoLeak, Making, TypeOK, GetMiss, Misses
    <2>3. x \notin alloc /\ x \notin free /\ x \notin lost /\ x \notin stray /\ n \in Nat
      BY <1>0, <2>1, <2>2 DEF NoLeak
    <2>4. TypeOK'
      <3>1. tot' \in 0..(Modulus - 1)
        <4>1. tot + n \in Int /\ Modulus \in Nat /\ Modulus > 0 /\ tot' = (tot + n) % Modulus
          BY <1>3, <2>3, AllocatorAssumption DEF TypeOK, GetMiss
        <4>. QED
          BY <4>1
      <3>. QED
        BY <1>0, <2>1, <2>2, <2>3, <3>1 DEF TypeOK
    <2>5. NoLeak'
      BY <2>1, <2>2, <2>3 DEF NoLeak
    <2>6. OwnBlock'
      BY <2>2 DEF OwnBlock
    <2>7. BigEnough'
      <3>1. \A i \in 1..Len(scopes) : scopes[i].addr # Null => scopes[i].addr # x /\ scopes[i].addr \in Addr
        <4>. SUFFICES ASSUME NEW i \in 1..Len(scopes), scopes[i].addr # Null
                      PROVE  scopes[i].addr # x /\ scopes[i].addr \in Addr
          OBVIOUS
        <4>1. scopes[i].addr \in alloc
          BY DEF OwnBlock
        <4>. QED
          BY <4>1, <2>3 DEF TypeOK
      <3>2. /\ size'[x] = n /\ result'.addr = x /\ result'.bytes = n
            /\ \A y \in Addr : y # x => size'[y] = size[y]
        BY <2>1 DEF TypeOK
      <3>. QED
        BY <2>2, <3>1, <3>2 DEF BigEnough
    <2>. QED
      BY <2>4, <2>5, <2>6, <2>7
  <1>4. ASSUME NEW n \in Requests, GetFails(n) PROVE IInv'
    <2>1. pc = "ready" /\ pc' = "unwind" /\ UNCHANGED <<blocks, result, history>>
      BY <1>4 DEF GetFails, Misses
    <2>2. TypeOK'
      BY <2>1 DEF TypeOK
    <2>3. NoLeak'
      BY <2>1 DEF NoLeak, Making
    <2>. QED
      BY <2>1, <2>2, <2>3 DEF OwnBlock, BigEnough
  <1>5. ASSUME NEW n \in Requests, GetThrows(n) PROVE IInv'
    <2>1. PICK x \in Addr \ dev : dev' = dev \cup {x} /\ lost' = lost \cup {x}
      BY <1>5 DEF GetThrows
    <2>2. /\ pc = "ready" /\ pc' = "unwind" /\ dangling = {}
          /\ UNCHANGED <<size, free, alloc, tot, scopes, result, stray, dangling>>
      BY <1>5 DEF GetThrows, Misses, NoLeak
    <2>3. TypeOK'
      BY <2>1, <2>2 DEF TypeOK
    <2>4. NoLeak'
      BY <2>1, <2>2 DEF NoLeak, Making
    <2>. QED
      BY <2>2, <2>3, <2>4 DEF OwnBlock, BigEnough
  <1>6. CASE Evict
    <2>1. PICK x \in free : dev' = dev \ {x} /\ free' = free \ {x} /\ tot' = Remaining(x)
      BY <1>6 DEF Evict, Largest
    <2>2. /\ pc = "evict" /\ dangling = {} /\ x \in Addr /\ size[x] \in Nat /\ tot \in Nat
          /\ UNCHANGED <<size, alloc, scopes, result, pc, history>>
      BY <1>6, <2>1, AllocatorAssumption DEF NoLeak, TypeOK, Evict
    <2>3. tot' \in 0..(Modulus - 1)
      <3>1. tot - size[x] \in Int /\ Modulus \in Nat /\ Modulus > 0
        BY <2>2, AllocatorAssumption
      <3>. QED
        BY <3>1, <2>1 DEF Remaining
    <2>4. TypeOK'
      BY <2>1, <2>2, <2>3 DEF TypeOK
    <2>5. NoLeak'
      <3>1. Making' = Making /\ lost' = lost /\ stray' = stray /\ dangling' = {} /\ alloc' = alloc
        BY <2>2 DEF Making
      <3>. QED
        BY <2>1, <2>2, <3>1 DEF NoLeak
    <2>. QED
      BY <2>2, <2>4, <2>5 DEF OwnBlock, BigEnough
  <1>7. CASE EvictThrows
    <2>1. PICK x \in free : \/ dev' = dev \ {x} /\ dangling' = dangling \cup {x}
                           \/ UNCHANGED <<dev, dangling>>
      BY <1>7 DEF EvictThrows, Largest
    <2>2. /\ pc = "evict" /\ pc' = "unwind" /\ dangling = {}
          /\ stray' = stray \cup Making /\ result' = None /\ Making' = {}
          /\ UNCHANGED <<size, free, alloc, tot, scopes, lost>>
      BY <1>7, <1>00 DEF EvictThrows, NoLeak, Making
    <2>3. TypeOK'
      BY <1>00, <2>1, <2>2 DEF TypeOK
    <2>4. NoLeak'
      <3>1. x \in dev /\ x \notin alloc /\ x \notin Making /\ x \notin lost /\ x \notin stray
        BY <2>1, <2>2 DEF NoLeak
      <3>. QED
        BY <2>1, <2>2, <3>1 DEF NoLeak
    <2>5. OwnBlock' /\ BigEnough'
      BY <1>00, <2>2 DEF OwnBlock, BigEnough
    <2>. QED
      BY <2>3, <2>4, <2>5
  <1>8. CASE Got
    <2>. DEFINE x == result.addr
                n == result.bytes
    <2>1. /\ pc = "evict" /\ pc' = "ready" /\ dangling = {} /\ x \in Addr /\ n \in Nat
          /\ x # Null /\ Making = {x} /\ x \notin alloc /\ x \notin free
          /\ alloc' = alloc \cup {x} /\ Open(x, n) /\ result' = None /\ Making' = {}
          /\ UNCHANGED <<dev, size, free, tot, history>>
      <3>1. /\ pc = "evict" /\ pc' = "ready" /\ dangling = {} /\ alloc' = alloc \cup Making
            /\ Open(x, n) /\ result' = None /\ Making' = {}
            /\ UNCHANGED <<dev, size, free, tot, history>>
        BY <1>00, <1>8 DEF Got, NoLeak, Making
      <3>2. x # Null /\ x \in Addr /\ n \in Nat
        BY <3>1 DEF TypeOK
      <3>3. Making = {x}
        BY <3>2 DEF Making
      <3>. QED
        BY <3>1, <3>2, <3>3 DEF NoLeak
    <2>2. size[x] = n
      BY <2>1 DEF BigEnough
    <2>. HIDE DEF x, n
    <2>3. /\ Len(scopes) \in Nat /\ Len(scopes') = Len(scopes) + 1
          /\ \A i \in 1..Len(scopes) : scopes'[i] = scopes[i]
          /\ scopes'[Len(scopes) + 1] = [addr |-> x, bytes |-> n]
      BY <2>1 DEF Open, TypeOK
    <2>4. TypeOK'
      <3>1. scopes' \in Seq([addr : Addr \cup {Null}, bytes : Nat])
        BY <2>1 DEF Open, TypeOK
      <3>. QED
        BY <1>00, <2>1, <3>1 DEF TypeOK
    <2>5. NoLeak'
      BY <2>1 DEF NoLeak
    <2>6. OwnBlock'
      BY <2>1, OpenOwn
    <2>7. \A i \in 1..Len(scopes') : i \in 1..Len(scopes) \/ i = Len(scopes) + 1
      BY <2>3
    <2>8. BigEnough'
      <3>1. Fits(n, n)
        BY <2>1, TolSame DEF Fits
      <3>2. size' = size
        BY <2>1
      <3>. QED
        BY <1>00, <2>1, <2>2, <2>3, <2>7, <3>1, <3>2 DEF BigEnough
    <2>. QED
      BY <2>4, <2>5, <2>6, <2>8
  <1>9. CASE Deallocate
    <2>. DEFINE x == scopes[Len(scopes)].addr
    <2>1. /\ Len(scopes) \in Nat /\ Len(scopes) > 0 /\ x \in Addr \cup {Null}
          /\ scopes' = SubSeq(scopes, 1, Len(scopes) - 1)
          /\ Len(scopes') = Len(scopes) - 1
          /\ \A i \in 1..(Len(scopes) - 1) : scopes'[i] = scopes[i]
      <3>1. scopes # <<>> /\ scopes' = SubSeq(scopes, 1, Len(scopes) - 1)
        BY <1>9 DEF Deallocate
      <3>0. scopes \in Seq([addr : Addr \cup {Null}, bytes : Nat])
        BY DEF TypeOK
      <3>2. /\ Len(scopes) \in Nat /\ Len(scopes) > 0
            /\ Len(scopes') = Len(scopes) - 1
            /\ \A i \in 1..(Len(scopes) - 1) : scopes'[i] = scopes[i]
        BY <3>0, <3>1, WithoutLast
      <3>5. Len(scopes) \in 1..Len(scopes)
        BY <3>2
      <3>3. scopes[Len(scopes)] \in [addr : Addr \cup {Null}, bytes : Nat]
        BY <3>0, <3>5, ElementOfSeq
      <3>4. x \in Addr \cup {Null}
        BY <3>3
      <3>. HIDE DEF x
      <3>. QED
        BY <3>1, <3>2, <3>4
    <2>2. alloc' = alloc \ {x}
      <3>1. CASE x = Null
        <4>1. x \notin alloc
          BY <1>0, <3>1 DEF TypeOK
        <4>. QED
          BY <1>9, <3>1, <4>1 DEF Deallocate
      <3>2. CASE x # Null
        BY <1>9, <3>2 DEF Deallocate
      <3>. QED
        BY <3>1, <3>2
    <2>3. free' = IF x = Null THEN free ELSE free \cup {x}
      BY <1>9 DEF Deallocate
    <2>4. x # Null => x \in alloc
      BY <2>1 DEF OwnBlock
    <2>5. /\ UNCHANGED <<dev, size, tot, result, pc, history>> /\ Making' = Making
          /\ pc \in {"ready", "unwind"}
      BY <1>9 DEF Deallocate, Making
    <2>6. TypeOK'
      <3>1. scopes' \in Seq([addr : Addr \cup {Null}, bytes : Nat])
        BY <1>9, WithoutLast DEF TypeOK, Deallocate
      <3>. QED
        BY <2>1, <2>2, <2>3, <2>5, <3>1 DEF TypeOK
    <2>7. x = Null => Null \notin alloc
      BY <1>0 DEF TypeOK
    <2>. HIDE DEF x
    <2>8. NoLeak'
      <3>1. CASE x = Null
        BY <2>2, <2>3, <2>5, <2>7, <3>1 DEF NoLeak
      <3>2. CASE x # Null
        <4>1. x \in alloc /\ x \in dev /\ x \notin free /\ x \notin dangling /\ x \notin Making
              /\ x \notin lost /\ x \notin stray
          BY <2>4, <3>2 DEF NoLeak
        <4>. QED
          BY <2>2, <2>3, <2>5, <3>2, <4>1 DEF NoLeak
      <3>. QED
        BY <3>1, <3>2
    <2>9. OwnBlock'
      BY <1>9, <2>1, <2>2, CloseOwn DEF Deallocate, x
    <2>10. BigEnough'
      BY <2>1, <2>5 DEF BigEnough
    <2>. QED
      BY <2>6, <2>8, <2>9, <2>10
  <1>10. CASE Unwound
    <2>1. /\ pc = "unwind" /\ pc' = IF dangling = {} THEN "ready" ELSE "broken"
          /\ UNCHANGED <<blocks, result, history>>
      BY <1>10 DEF Unwound
    <2>2. TypeOK'
      BY <2>1 DEF TypeOK
    <2>3. NoLeak'
      BY <2>1 DEF NoLeak, Making
    <2>. QED
      BY <2>1, <2>2, <2>3 DEF OwnBlock, BigEnough
  <1>11. CASE Destroy
    <2>1. PICK freed \in SUBSET free : dev' = dev \ freed /\ lost' = lost \cup (free \ freed)
      BY <1>11 DEF Destroy
    <2>2. /\ pc = "ready" /\ pc' = "gone" /\ free' = {} /\ dangling = {}
          /\ scopes = <<>> /\ Len(scopes) = 0
          /\ UNCHANGED <<size, alloc, tot, scopes, result, stray, dangling>>
      BY <1>11 DEF Destroy, NoLeak
    <2>3. TypeOK'
      BY <2>1, <2>2 DEF TypeOK
    <2>4. NoLeak'
      <3>1. Making' = Making
        BY <2>2 DEF Making
      <3>. QED
        BY <2>1, <2>2, <3>1 DEF NoLeak
    <2>. QED
      BY <2>2, <2>3, <2>4 DEF OwnBlock, BigEnough
  <1>12. CASE UNCHANGED vars
    <2>1. TypeOK'
      BY <1>12 DEF TypeOK
    <2>2. NoLeak'
      BY <1>12 DEF NoLeak, Making
    <2>. QED
      BY <1>12, <2>1, <2>2 DEF OwnBlock, BigEnough
  <1>. QED
    BY <1>1, <1>2, <1>3, <1>4, <1>5, <1>6, <1>7, <1>8, <1>9, <1>10, <1>11, <1>12 DEF Next

LEMMA InitIInv == Init => IInv
  <1>. SUFFICES ASSUME Init PROVE IInv
    OBVIOUS
  <1>1. TypeOK
    BY AllocatorAssumption DEF Init, TypeOK, None
  <1>2. Len(scopes) = 0 /\ alloc = {} /\ \A i \in 1..Len(scopes) : FALSE
    BY DEF Init
  <1>. QED
    BY <1>1, <1>2 DEF Init, IInv, NoLeak, Making, None, OwnBlock, BigEnough

\* All device memory is cached, in use, being made or left behind by a throw,
\* and only one of these, scopes never share memory, and every scope has the
\* bytes it asked for: for any sizes, limit and tolerance, and with a throw at
\* every check of a CUDA error (CachedAllocator.h:224, :239, free_all()).
THEOREM AllocatorSafe == Spec => []BlocksSafe
  <1>1. IInv => BlocksSafe
    BY DEF IInv, BlocksSafe
  <1>. QED
    BY <1>1, InitIInv, StepIInv, PTL DEF Spec

-----------------------------------------------------------------------------
(* The sum over a finite set.                                              *)

\* A set of subsets of T that has every subset whose parts it has, has all.
LEMMA SubsetInduction ==
    ASSUME NEW T, IsFiniteSet(T), NEW P \in SUBSET (SUBSET T),
           \A s \in SUBSET T : (\A u \in SUBSET s : u # s => u \in P) => s \in P
    PROVE  P = SUBSET T
  <1>. SUFFICES ASSUME NEW t \in (SUBSET T) \ P PROVE FALSE
    OBVIOUS
  <1>. DEFINE R == StrictSubsetOrdering(T)
              Q == (SUBSET T) \ P
  <1>1. IsWellFoundedOn(R, FiniteSubsetsOf(T)) /\ FiniteSubsetsOf(T) = SUBSET T
    BY FS_StrictSubsetOrderingWellFounded, FS_FiniteSubsetsOfFinite
  <1>2. Q \subseteq SUBSET T /\ Q # {}
    OBVIOUS
  <1>3. IsWellFoundedOn(R, SUBSET T)
    BY <1>1
  <1>. HIDE DEF R, Q
  <1>4. PICK s \in Q : \A u \in Q : ~(<<u, s>> \in R)
    BY <1>2, <1>3, WFMin
  <1>5. s \in SUBSET T /\ s \notin P
    BY <1>4 DEF Q
  <1>6. ASSUME NEW u \in SUBSET s, u # s, u \notin P PROVE FALSE
    <2>1. u \in Q /\ u \in SUBSET T
      BY <1>5, <1>6 DEF Q
    <2>2. <<u, s>> \in (SUBSET T) \X (SUBSET T)
      BY <1>5, <2>1
    <2>3. <<u, s>> \in R
      BY <1>6, <2>2 DEF R, StrictSubsetOrdering
    <2>. QED
      BY <1>4, <2>1, <2>3
  <1>. QED
    BY <1>5, <1>6

Chosen(s) == CHOOSE x \in s : TRUE

\* f adds up w over the subsets of T, an element at a time.
Adds(w, T, f) ==
    f = [s \in SUBSET T |-> IF s = {} THEN 0 ELSE w[Chosen(s)] + f[s \ {Chosen(s)}]]

Sum(w, T) == (CHOOSE f : Adds(w, T, f))[T]

LEMMA SumIs ==
    ASSUME NEW w, NEW T
    PROVE  MapThenSumSet(LAMBDA x : w[x], T) = Sum(w, T)
  BY DEF MapThenSumSet, MapThenFoldSet, Sum, Adds, Chosen

LEMMA ChosenIn ==
    ASSUME NEW s, s # {}
    PROVE  Chosen(s) \in s
  BY DEF Chosen

LEMMA AddsAt ==
    ASSUME NEW w, NEW T, NEW f, Adds(w, T, f), NEW s \in SUBSET T
    PROVE  f[s] = IF s = {} THEN 0 ELSE w[Chosen(s)] + f[s \ {Chosen(s)}]
  <1>. DEFINE e(v) == IF v = {} THEN 0 ELSE w[Chosen(v)] + f[v \ {Chosen(v)}]
  <1>1. f = [v \in SUBSET T |-> e(v)]
    BY DEF Adds
  <1>. QED
    BY <1>1, Zenon

\* Two such functions agree where both are defined.
LEMMA AddsUnique ==
    ASSUME NEW w, NEW T, NEW U, NEW f, NEW g, Adds(w, T, f), Adds(w, U, g),
           NEW s \in SUBSET T, s \in SUBSET U, IsFiniteSet(s)
    PROVE  f[s] = g[s]
  <1>. DEFINE P == {u \in SUBSET s : f[u] = g[u]}
  <1>1. ASSUME NEW u \in SUBSET s, \A v \in SUBSET u : v # u => v \in P
        PROVE  u \in P
    <2>1. u \in SUBSET T /\ u \in SUBSET U
      OBVIOUS
    <2>2. /\ f[u] = IF u = {} THEN 0 ELSE w[Chosen(u)] + f[u \ {Chosen(u)}]
          /\ g[u] = IF u = {} THEN 0 ELSE w[Chosen(u)] + g[u \ {Chosen(u)}]
      <3>. HIDE DEF P
      <3>1. f[u] = IF u = {} THEN 0 ELSE w[Chosen(u)] + f[u \ {Chosen(u)}]
        <4>1. Adds(w, T, f) /\ u \in SUBSET T
          BY <2>1
        <4>. QED
          BY ONLY <4>1, AddsAt
      <3>2. g[u] = IF u = {} THEN 0 ELSE w[Chosen(u)] + g[u \ {Chosen(u)}]
        BY <2>1, AddsAt
      <3>. QED
        BY <3>1, <3>2
    <2>3. CASE u = {}
      BY <2>2, <2>3
    <2>4. CASE u # {}
      <3>1. Chosen(u) \in u
        BY <2>4, ChosenIn
      <3>2. u \ {Chosen(u)} \in SUBSET u /\ u \ {Chosen(u)} # u
        BY <3>1
      <3>3. f[u \ {Chosen(u)}] = g[u \ {Chosen(u)}]
        BY <1>1, <3>2
      <3>. QED
        BY <2>2, <2>4, <3>3
    <2>. QED
      BY <2>3, <2>4
  <1>2. P \in SUBSET (SUBSET s)
    OBVIOUS
  <1>. HIDE DEF P
  <1>3. P = SUBSET s
    BY <1>1, <1>2, SubsetInduction
  <1>. QED
    BY <1>3 DEF P

LEMMA AddsExist ==
    ASSUME NEW w, NEW T, IsFiniteSet(T)
    PROVE  \E f : Adds(w, T, f)
  <1>. DEFINE P == {s \in SUBSET T : \E f : Adds(w, s, f)}
  <1>1. ASSUME NEW u \in SUBSET T, \A v \in SUBSET u : v # u => v \in P
        PROVE  u \in P
    <2>. DEFINE c == Chosen(u)
                F(v) == CHOOSE f : Adds(w, v, f)
                f == [v \in SUBSET u |->
                        IF v # u THEN F(v)[v]
                        ELSE IF u = {} THEN 0 ELSE w[c] + F(u \ {c})[u \ {c}]]
    <2>1. ASSUME NEW v \in SUBSET u, v # u PROVE Adds(w, v, F(v))
      BY <1>1, <2>1
    <2>. HIDE DEF F
    <2>2. ASSUME NEW v \in SUBSET u
          PROVE  f[v] = IF v = {} THEN 0 ELSE w[Chosen(v)] + f[v \ {Chosen(v)}]
      <3>. DEFINE b == v \ {Chosen(v)}
      <3>1. CASE v = {} /\ v = u
        BY <3>1
      <3>2. CASE v = {} /\ v # u
        <4>1. f[v] = F(v)[v]
          BY <3>2
        <4>2. F(v)[v] = 0
          BY <2>1, <3>2, AddsAt
        <4>. QED
          BY <3>2, <4>1, <4>2
      <3>3. CASE v # {}
        <4>1. Chosen(v) \in v
          BY <3>3, ChosenIn
        <4>2. b \in SUBSET v /\ b \in SUBSET u /\ b # u /\ b # v
          BY <4>1
        <4>. HIDE DEF b
        <4>3. f[b] = F(b)[b]
          BY <4>2
        <4>4. CASE v = u
          <5>1. f[v] = w[c] + F(u \ {c})[u \ {c}]
            BY <3>3, <4>4
          <5>. QED
            BY <3>3, <4>3, <4>4, <5>1 DEF b
        <4>5. CASE v # u
          <5>1. f[v] = F(v)[v]
            BY <4>5
          <5>2. Adds(w, v, F(v)) /\ Adds(w, b, F(b))
            BY <2>1, <4>2, <4>5
          <5>3. F(v)[v] = w[Chosen(v)] + F(v)[b]
            BY <3>3, <5>2, AddsAt DEF b
          <5>4. IsFiniteSet(b)
            BY <4>2, FS_Subset
          <5>5. F(v)[b] = F(b)[b]
            BY <4>2, <5>2, <5>4, AddsUnique
          <5>. QED
            BY <3>3, <4>3, <5>1, <5>3, <5>5 DEF b
        <4>. QED
          BY <4>4, <4>5
      <3>. QED
        BY <3>1, <3>2, <3>3
    <2>3. f = [v \in SUBSET u |-> f[v]]
      OBVIOUS
    <2>. HIDE DEF f
    <2>4. Adds(w, u, f)
      BY <2>2, <2>3 DEF Adds
    <2>. QED
      BY <2>4
  <1>2. P \in SUBSET (SUBSET T)
    OBVIOUS
  <1>. HIDE DEF P
  <1>3. P = SUBSET T
    BY <1>1, <1>2, SubsetInduction
  <1>. QED
    BY <1>3 DEF P

\* The recursion of MapThenSumSet.
LEMMA SumChosen ==
    ASSUME NEW w, NEW T, IsFiniteSet(T)
    PROVE  Sum(w, T) = IF T = {} THEN 0 ELSE w[Chosen(T)] + Sum(w, T \ {Chosen(T)})
  <1>. DEFINE c == Chosen(T)
              f == CHOOSE g : Adds(w, T, g)
              h == CHOOSE g : Adds(w, T \ {c}, g)
  <1>1. IsFiniteSet(T \ {c})
    BY FS_RemoveElement
  <1>2. Adds(w, T, f) /\ Adds(w, T \ {c}, h)
    BY <1>1, AddsExist
  <1>3. Sum(w, T) = f[T] /\ Sum(w, T \ {c}) = h[T \ {c}]
    BY DEF Sum
  <1>. HIDE DEF f, h
  <1>4. f[T] = IF T = {} THEN 0 ELSE w[c] + f[T \ {c}]
    BY <1>2, AddsAt
  <1>5. f[T \ {c}] = h[T \ {c}]
    <2>1. T \ {c} \in SUBSET T /\ T \ {c} \in SUBSET (T \ {c})
      OBVIOUS
    <2>. QED
      BY <1>1, <1>2, <2>1, AddsUnique
  <1>. QED
    BY <1>3, <1>4, <1>5

LEMMA SumType ==
    ASSUME NEW T, IsFiniteSet(T), NEW w, \A x \in T : w[x] \in Nat
    PROVE  Sum(w, T) \in Nat
  <1>. DEFINE P == {s \in SUBSET T : Sum(w, s) \in Nat}
  <1>1. ASSUME NEW u \in SUBSET T, \A v \in SUBSET u : v # u => v \in P
        PROVE  u \in P
    <2>1. Sum(w, u) = IF u = {} THEN 0 ELSE w[Chosen(u)] + Sum(w, u \ {Chosen(u)})
      BY FS_Subset, SumChosen
    <2>2. CASE u = {}
      BY <2>1, <2>2
    <2>3. CASE u # {}
      <3>1. Chosen(u) \in u
        BY <2>3, ChosenIn
      <3>2. u \ {Chosen(u)} \in SUBSET u /\ u \ {Chosen(u)} # u
        BY <3>1
      <3>3. Sum(w, u \ {Chosen(u)}) \in Nat /\ w[Chosen(u)] \in Nat
        BY <1>1, <3>1, <3>2
      <3>. QED
        BY <2>1, <2>3, <3>3
    <2>. QED
      BY <2>2, <2>3
  <1>2. P \in SUBSET (SUBSET T)
    OBVIOUS
  <1>. HIDE DEF P
  <1>3. P = SUBSET T
    BY <1>1, <1>2, SubsetInduction
  <1>. QED
    BY <1>3 DEF P

\* Which element is taken first makes no difference.
LEMMA SumAny ==
    ASSUME NEW T, IsFiniteSet(T), NEW w, \A y \in T : w[y] \in Nat, NEW x \in T
    PROVE  Sum(w, T) = w[x] + Sum(w, T \ {x})
  <1>. DEFINE P == {s \in SUBSET T : \A y \in s : Sum(w, s) = w[y] + Sum(w, s \ {y})}
  <1>1. ASSUME NEW u \in SUBSET T, \A v \in SUBSET u : v # u => v \in P
        PROVE  u \in P
    <2>. SUFFICES ASSUME NEW y \in u PROVE Sum(w, u) = w[y] + Sum(w, u \ {y})
      OBVIOUS
    <2>. DEFINE c == Chosen(u)
    <2>1. c \in u /\ IsFiniteSet(u)
      BY ChosenIn, FS_Subset
    <2>2. Sum(w, u) = w[c] + Sum(w, u \ {c})
      BY <2>1, SumChosen
    <2>. HIDE DEF c
    <2>3. CASE y = c
      BY <2>2, <2>3
    <2>4. CASE y # c
      <3>1. /\ u \ {c} \in SUBSET u /\ u \ {c} # u /\ y \in u \ {c}
            /\ u \ {y} \in SUBSET u /\ u \ {y} # u /\ c \in u \ {y}
        BY <2>1, <2>4
      <3>2. /\ Sum(w, u \ {c}) = w[y] + Sum(w, (u \ {c}) \ {y})
            /\ Sum(w, u \ {y}) = w[c] + Sum(w, (u \ {y}) \ {c})
        BY <1>1, <3>1
      <3>3. (u \ {c}) \ {y} = (u \ {y}) \ {c}
        OBVIOUS
      <3>4. Sum(w, (u \ {c}) \ {y}) \in Nat
        <4>1. IsFiniteSet((u \ {c}) \ {y})
          BY <2>1, FS_RemoveElement
        <4>2. \A z \in (u \ {c}) \ {y} : w[z] \in Nat
          OBVIOUS
        <4>. QED
          BY <4>1, <4>2, SumType
      <3>5. w[y] \in Nat /\ w[c] \in Nat
        BY <2>1
      <3>. QED
        BY <2>2, <3>2, <3>3, <3>4, <3>5
    <2>. QED
      BY <2>3, <2>4
  <1>2. P \in SUBSET (SUBSET T)
    OBVIOUS
  <1>. HIDE DEF P
  <1>3. P = SUBSET T
    BY <1>1, <1>2, SubsetInduction
  <1>. QED
    BY <1>3 DEF P

\* The sum depends on the elements only.
LEMMA SumSame ==
    ASSUME NEW T, IsFiniteSet(T), NEW v, NEW w, \A x \in T : v[x] = w[x]
    PROVE  Sum(v, T) = Sum(w, T)
  <1>. DEFINE P == {s \in SUBSET T : Sum(v, s) = Sum(w, s)}
  <1>1. ASSUME NEW u \in SUBSET T, \A b \in SUBSET u : b # u => b \in P
        PROVE  u \in P
    <2>1. /\ Sum(w, u) = IF u = {} THEN 0 ELSE w[Chosen(u)] + Sum(w, u \ {Chosen(u)})
          /\ Sum(v, u) = IF u = {} THEN 0 ELSE v[Chosen(u)] + Sum(v, u \ {Chosen(u)})
      BY FS_Subset, SumChosen
    <2>2. CASE u = {}
      BY <2>1, <2>2
    <2>3. CASE u # {}
      <3>1. Chosen(u) \in u
        BY <2>3, ChosenIn
      <3>2. u \ {Chosen(u)} \in SUBSET u /\ u \ {Chosen(u)} # u
        BY <3>1
      <3>3. Sum(v, u \ {Chosen(u)}) = Sum(w, u \ {Chosen(u)}) /\ v[Chosen(u)] = w[Chosen(u)]
        BY <1>1, <3>1, <3>2
      <3>. QED
        BY <2>1, <2>3, <3>3
    <2>. QED
      BY <2>2, <2>3
  <1>2. P \in SUBSET (SUBSET T)
    OBVIOUS
  <1>. HIDE DEF P
  <1>3. P = SUBSET T
    BY <1>1, <1>2, SubsetInduction
  <1>. QED
    BY <1>3 DEF P

-----------------------------------------------------------------------------
(* Counting modulo 2^32.                                                   *)

LEMMA DivMod ==
    ASSUME NEW a \in Int, NEW m \in Nat \ {0}
    PROVE  /\ a \div m \in Int /\ a % m \in 0..(m - 1)
           /\ a = m * (a \div m) + (a % m)
  OBVIOUS

\* Numbers below m that differ by a multiple of m are the same.
LEMMA SameResidue ==
    ASSUME NEW m \in Nat \ {0}, NEW r \in 0..(m - 1), NEW s \in 0..(m - 1),
           NEW k \in Int, r = s + m * k
    PROVE  r = s
  <1>1. CASE k >= 1
    <2>1. m * k >= m
      BY <1>1
    <2>. QED
      BY <2>1
  <1>2. CASE k <= -1
    <2>1. m * k <= -m
      BY <1>2
    <2>. QED
      BY <2>1
  <1>3. CASE k = 0
    BY <1>3
  <1>. QED
    BY <1>1, <1>2, <1>3

\* A residue may be taken before the next number is added.
LEMMA ResidueOfSum ==
    ASSUME NEW a \in Int, NEW b \in Int, NEW m \in Nat \ {0}
    PROVE  ((a % m) + b) % m = (a + b) % m
  <1>. DEFINE p == a \div m
              q == (a + b) \div m
              c == (a % m) + b
              t == c \div m
  <1>1. p \in Int /\ a % m \in 0..(m - 1) /\ a = m * p + (a % m)
    BY DivMod
  <1>2. c \in Int /\ a + b \in Int
    BY <1>1
  <1>3. q \in Int /\ (a + b) % m \in 0..(m - 1) /\ a + b = m * q + ((a + b) % m)
    BY <1>2, DivMod
  <1>. HIDE DEF p, q
  <1>4. c = a - m * p + b /\ m * p \in Int
    <2>1. m * p \in Int /\ a % m \in Int
      BY <1>1
    <2>2. a % m = a - m * p
      BY <1>1, <2>1
    <2>. QED
      BY <2>1, <2>2
  <1>. HIDE DEF c
  <1>5. t \in Int /\ c % m \in 0..(m - 1) /\ c = m * t + (c % m)
    BY <1>2, DivMod
  <1>. HIDE DEF t
  <1>6. c % m = ((a + b) % m) + (m * q - m * p - m * t)
    <2>1. m * q \in Int /\ m * p \in Int /\ m * t \in Int
      BY <1>1, <1>3, <1>5
    <2>. QED
      BY <1>3, <1>4, <1>5, <2>1
  <1>7. m * q - m * p - m * t = m * (q - p - t) /\ q - p - t \in Int
    BY <1>1, <1>3, <1>5
  <1>8. c % m = (a + b) % m
    BY <1>3, <1>5, <1>6, <1>7, SameResidue
  <1>. QED
    BY <1>8 DEF c

-----------------------------------------------------------------------------
(* The count of the bytes.                                                 *)

Counted ==
    /\ IsFiniteSet(Counts)
    /\ pc # "gone" => tot = Sum(size, Counts) % Modulus

LEMMA CountedAccounts == Counted => Accounting
  BY SumIs DEF Counted, Accounting

LEMMA StepCounted == IInv /\ Counted /\ [Next]_vars => Counted'
  <1>. SUFFICES ASSUME IInv, Counted, [Next]_vars PROVE Counted'
    OBVIOUS
  <1>. USE DEF vars, blocks, history
  <1>0. /\ Requests \subseteq Nat /\ Modulus \in Nat \ {0}
        /\ size \in [Addr -> Nat] /\ Counts \subseteq Addr /\ free \subseteq Counts
        /\ IsFiniteSet(Counts) /\ Null \notin Addr
    <2>1. Making \subseteq Addr /\ stray \subseteq Addr
      BY DEF IInv, TypeOK, NoLeak, Making
    <2>. QED
      BY <2>1, AllocatorAssumption DEF IInv, TypeOK, Counts, Counted
  <1>00. Sum(size, Counts) \in Nat
    BY <1>0, SumType
  <1>1. CASE GetNothing \/ Unwound \/ UNCHANGED vars
    <2>1. /\ free' = free /\ alloc' = alloc /\ Making' = Making /\ stray' = stray
          /\ size' = size /\ tot' = tot /\ (pc' # "gone" => pc # "gone")
      BY <1>1 DEF GetNothing, Unwound, Making
    <2>. QED
      BY <2>1 DEF Counted, Counts
  <1>2. ASSUME NEW n \in Requests, GetHit(n) PROVE Counted'
    <2>1. PICK x \in free : free' = free \ {x} /\ alloc' = alloc \cup {x}
      BY <1>2 DEF GetHit, Hits, LowerBound
    <2>2. /\ stray' = stray /\ Making' = Making /\ size' = size /\ tot' = tot /\ pc # "gone"
      BY <1>2 DEF GetHit, Making
    <2>3. Counts' = Counts
      BY <2>1, <2>2 DEF Counts
    <2>. QED
      BY <2>2, <2>3 DEF Counted
  <1>3. ASSUME NEW n \in Requests, GetFails(n) \/ GetThrows(n) PROVE Counted'
    <2>1. /\ free' = free /\ alloc' = alloc /\ Making' = Making /\ stray' = stray
          /\ size' = size /\ tot' = tot /\ pc # "gone"
      BY <1>3 DEF GetFails, GetThrows, Misses, Making
    <2>. QED
      BY <2>1 DEF Counted, Counts
  <1>4. ASSUME NEW n \in Requests, GetMiss(n) PROVE Counted'
    <2>1. PICK x \in Addr \ dev : /\ size' = [size EXCEPT ![x] = n]
                                  /\ result' = [addr |-> x, bytes |-> n]
      BY <1>4 DEF GetMiss
    <2>2. /\ tot' = (tot + n) % Modulus /\ tot = Sum(size, Counts) % Modulus /\ n \in Nat
          /\ pc = "ready" /\ free' = free /\ alloc' = alloc /\ stray' = stray
      BY <1>0, <1>4 DEF GetMiss, Misses, Counted
    <2>3. Making = {} /\ Making' = {x} /\ x \notin Counts
      <3>1. Making = {} /\ dangling = {}
        BY <2>2 DEF IInv, TypeOK, NoLeak, Making
      <3>2. Making' = {x}
        BY <1>0, <2>1 DEF Making
      <3>. QED
        BY <2>1, <3>1, <3>2 DEF IInv, NoLeak, Counts
    <2>4. Counts' = Counts \cup {x}
      BY <2>2, <2>3 DEF Counts
    <2>5. IsFiniteSet(Counts') /\ Counts' \ {x} = Counts /\ x \in Counts'
      BY <1>0, <2>3, <2>4, FS_AddElement
    <2>6. size' \in [Addr -> Nat] /\ size'[x] = n /\ \A y \in Counts : size'[y] = size[y]
      BY <1>0, <2>1, <2>2, <2>3
    <2>7. \A y \in Counts' : size'[y] \in Nat
      BY <1>0, <2>1, <2>4, <2>6
    <2>8. Sum(size', Counts') = n + Sum(size', Counts)
      BY <2>5, <2>6, <2>7, SumAny
    <2>9. Sum(size', Counts) = Sum(size, Counts)
      BY <1>0, <2>6, SumSame
    <2>10. tot' = (Sum(size, Counts) + n) % Modulus
      BY <1>0, <1>00, <2>2, ResidueOfSum
    <2>11. Sum(size', Counts') = Sum(size, Counts) + n
      BY <1>00, <2>2, <2>8, <2>9
    <2>. QED
      BY <2>5, <2>10, <2>11 DEF Counted
  <1>5. CASE Evict
    <2>1. PICK x \in free : free' = free \ {x} /\ tot' = Remaining(x)
      BY <1>5 DEF Evict, Largest
    <2>2. /\ size' = size /\ tot = Sum(size, Counts) % Modulus
          /\ tot' = (tot - size[x]) % Modulus
      BY <1>5, <2>1 DEF Evict, Remaining, Counted
    <2>3. Counts' = Counts \ {x}
      <3>1. alloc' = alloc /\ Making' = Making /\ stray' = stray
        BY <1>5 DEF Evict, Making
      <3>2. x \notin alloc /\ x \notin Making /\ x \notin stray
        BY <2>1 DEF IInv, NoLeak
      <3>. QED
        BY <2>1, <3>1, <3>2 DEF Counts
    <2>4. x \in Counts /\ size[x] \in Nat /\ IsFiniteSet(Counts')
      BY <1>0, <2>1, <2>3, FS_RemoveElement
    <2>5. Sum(size, Counts) = size[x] + Sum(size, Counts')
      BY <1>0, <2>3, <2>4, SumAny
    <2>6. Sum(size, Counts') \in Nat
      BY <1>0, <2>3, <2>4, SumType
    <2>7. tot' = (Sum(size, Counts) + (-size[x])) % Modulus
      <3>1. -size[x] \in Int /\ Sum(size, Counts) \in Int
        BY <1>00, <2>4
      <3>2. ((Sum(size, Counts) % Modulus) + (-size[x])) % Modulus
              = (Sum(size, Counts) + (-size[x])) % Modulus
        BY <1>0, <3>1, ResidueOfSum
      <3>3. Sum(size, Counts) % Modulus \in Int
        BY <1>0, <3>1, DivMod
      <3>4. tot - size[x] = (Sum(size, Counts) % Modulus) + (-size[x])
        BY <2>2, <2>4, <3>3
      <3>. QED
        BY <2>2, <3>2, <3>4
    <2>8. Sum(size, Counts) + (-size[x]) = Sum(size, Counts')
      BY <2>4, <2>5, <2>6
    <2>. QED
      BY <2>2, <2>4, <2>7, <2>8 DEF Counted
  <1>6. CASE EvictThrows
    <2>1. /\ free' = free /\ alloc' = alloc /\ stray' = stray \cup Making /\ Making' = {}
          /\ size' = size /\ tot' = tot /\ pc # "gone"
      BY <1>6 DEF EvictThrows, Making, None
    <2>2. Counts' = Counts
      BY <2>1 DEF Counts
    <2>. QED
      BY <2>1, <2>2 DEF Counted
  <1>7. CASE Got
    <2>1. /\ free' = free /\ alloc' = alloc \cup Making /\ stray' = stray /\ Making' = {}
          /\ size' = size /\ tot' = tot /\ pc # "gone"
      BY <1>7 DEF Got, Making, None
    <2>2. Counts' = Counts
      BY <2>1 DEF Counts
    <2>. QED
      BY <2>1, <2>2 DEF Counted
  <1>8. CASE Deallocate
    <2>. DEFINE x == scopes[Len(scopes)].addr
    <2>1. /\ stray' = stray /\ Making' = Making /\ size' = size /\ tot' = tot /\ pc # "gone"
          /\ scopes # <<>>
      BY <1>8 DEF Deallocate, Making
    <2>2. CASE x = Null
      <3>1. free' = free /\ alloc' = alloc
        BY <1>8, <2>2 DEF Deallocate
      <3>. QED
        BY <2>1, <3>1 DEF Counted, Counts
    <2>3. CASE x # Null
      <3>1. free' = free \cup {x} /\ alloc' = alloc \ {x}
        BY <1>8, <2>3 DEF Deallocate
      <3>2. x \in alloc
        <4>1. Len(scopes) \in 1..Len(scopes)
          BY <2>1, WithoutLast DEF IInv, TypeOK
        <4>. QED
          BY <2>3, <4>1 DEF IInv, OwnBlock
      <3>. HIDE DEF x
      <3>3. Counts' = Counts
        BY <2>1, <3>1, <3>2 DEF Counts
      <3>. QED
        BY <2>1, <3>3 DEF Counted
    <2>. QED
      BY <2>2, <2>3
  <1>9. CASE Destroy
    <2>1. pc' = "gone" /\ Counts' \subseteq Counts
      BY <1>9 DEF Destroy, Counts, Making
    <2>2. IsFiniteSet(Counts')
      BY <1>0, <2>1, FS_Subset
    <2>. QED
      BY <2>1, <2>2 DEF Counted
  <1>. QED
    BY <1>1, <1>2, <1>3, <1>4, <1>5, <1>6, <1>7, <1>8, <1>9 DEF Next

\* The bytes the allocator counts, and compares with its limit, are those of
\* the blocks that are cached, in use or being made and of those that a throw
\* in the loop left behind, modulo 2^32: nothing is counted twice or, apart
\* from the blocks a throw at CachedAllocator.h:224 left, forgotten.
THEOREM BytesCounted == Spec => []Accounting
  <1>1. Init => IInv /\ Counted
    <2>. SUFFICES ASSUME Init PROVE IInv /\ Counted
      OBVIOUS
    <2>1. IInv
      BY InitIInv
    <2>2. Counts = {} /\ tot = 0 /\ IsFiniteSet(Counts)
      BY FS_EmptySet DEF Init, Counts, Making, None
    <2>3. Sum(size, Counts) = 0
      BY <2>2, SumChosen
    <2>4. Modulus \in Nat \ {0}
      BY AllocatorAssumption
    <2>5. 0 % Modulus = 0
      BY <2>4
    <2>. QED
      BY <2>1, <2>2, <2>3, <2>5 DEF Counted
  <1>2. IInv /\ Counted /\ [Next]_vars => (IInv /\ Counted)'
    BY StepIInv, StepCounted
  <1>. QED
    BY <1>1, <1>2, CountedAccounts, PTL DEF Spec
=============================================================================
