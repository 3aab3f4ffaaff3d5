--------------------------- MODULE KvCache_proofs ----------------------------
(***************************************************************************)
(* Facts about the operations of a llama context's memory, for any number  *)
(* of cells, positions and batch sizes.  InferenceEngine_proofs and        *)
(* LlamaClients_proofs rest on them.                                       *)
(***************************************************************************)
EXTENDS KvCache, FiniteSetTheorems, FunctionTheorems, TLAPS

Token == [pos : Nat, role : Roles]

(* A memory as a context can have it: no more tokens than cells.           *)
GoodMemory(m) ==
  /\ m \in [size : Nat, held : SUBSET Token]
  /\ IsFiniteSet(m.held)
  /\ Cardinality(m.held) <= m.size

OnePerPos(m) == \A s, t \in m.held : s.pos = t.pos => s = t

(* Holds without the count, which is easier to keep track of.              *)
InOrder(m, n) == Positions(m) = 0 .. n - 1 /\ OnePerPos(m)

-----------------------------------------------------------------------------
(* The larger and the smaller of two numbers.                              *)

(* Max of a pair is one of the two and not less than either.               *)
LEMMA MaxOfTwo ==
  ASSUME NEW a \in Int, NEW b \in Int
  PROVE  Max({a, b}) = IF a >= b THEN a ELSE b
<1>1. \E x \in {a, b} : \A y \in {a, b} : x >= y
  OBVIOUS
<1>2. /\ Max({a, b}) \in {a, b}
      /\ \A y \in {a, b} : Max({a, b}) >= y
  BY <1>1 DEF Max
<1>. QED
  BY <1>2

(* Min of a pair is one of the two and not greater than either.            *)
LEMMA MinOfTwo ==
  ASSUME NEW a \in Int, NEW b \in Int
  PROVE  Min({a, b}) = IF a <= b THEN a ELSE b
<1>1. \E x \in {a, b} : \A y \in {a, b} : x <= y
  OBVIOUS
<1>2. /\ Min({a, b}) \in {a, b}
      /\ \A y \in {a, b} : Min({a, b}) <= y
  BY <1>1 DEF Min
<1>. QED
  BY <1>2

(* A context has at least the cells that were asked for.                   *)
LEMMA ContextSizeCovers ==
  ASSUME NEW n \in Nat
  PROVE  ContextSize(n) \in Nat /\ ContextSize(n) >= n
<1>. DEFINE x == n + Pad - 1
            q == x \div Pad
<1>1. Pad \in Nat /\ Pad > 0
  BY PadAssumption
<1>2. x \in Nat
  BY <1>1
<1>3. q \in Nat /\ x % Pad \in 0 .. Pad - 1 /\ x = Pad * q + (x % Pad)
  BY <1>1, <1>2
<1>4. Pad * q \in Nat /\ Pad * q >= x - (Pad - 1)
  <2>. HIDE DEF q, x
  <2>1. Pad * q \in Nat
    BY <1>1, <1>3
  <2>. QED
    BY <1>1, <1>2, <1>3, <2>1
<1>5. ContextSize(n) = q * Pad
  BY DEF ContextSize
<1>. QED
  BY <1>1, <1>3, <1>4, <1>5

-----------------------------------------------------------------------------
(* Every operation gives a memory again.                                   *)

(* What InOrder keeps track of is what Holds says.                         *)
LEMMA InOrderHolds ==
  ASSUME NEW m, GoodMemory(m), NEW n \in Nat, InOrder(m, n)
  PROVE  Holds(m, n)
<1>. DEFINE f == [t \in m.held |-> t.pos]
<1>1. f \in Bijection(m.held, 0 .. n - 1)
  <2>1. f \in [m.held -> 0 .. n - 1]
    BY DEF InOrder, Positions
  <2>2. \A a, b \in m.held : f[a] = f[b] => a = b
    BY DEF InOrder, OnePerPos
  <2>3. \A q \in 0 .. n - 1 : \E t \in m.held : f[t] = q
    BY DEF InOrder, Positions
  <2>. QED
    BY <2>1, <2>2, <2>3, Fun_IsBij
<1>2. Cardinality(0 .. n - 1) = Cardinality(m.held)
  <2>1. IsFiniteSet(m.held)
    BY DEF GoodMemory
  <2>2. ExistsBijection(m.held, 0 .. n - 1)
    BY <1>1 DEF ExistsBijection
  <2>. HIDE DEF f
  <2>. QED
    BY <2>1, <2>2, FS_Bijection
<1>3. Cardinality(0 .. n - 1) = n
  <2>1. Cardinality(0 .. n - 1) = IF 0 > n - 1 THEN 0 ELSE (n - 1) - 0 + 1
    BY FS_Interval
  <2>. QED
    BY <2>1
<1>. QED
  BY <1>2, <1>3 DEF Holds, InOrder

(* What GoodMemory says includes what the type invariants ask for.         *)
LEMMA GoodIsMemory ==
  ASSUME NEW m, GoodMemory(m)
  PROVE  IsMemory(m)
BY DEF GoodMemory, IsMemory, Token

(* A new memory is empty.                                                  *)
LEMMA NewMemoryFacts ==
  ASSUME NEW size \in Nat
  PROVE  /\ GoodMemory(NewMemory(size))
         /\ InOrder(NewMemory(size), 0)
         /\ NewMemory(size).size = size
         /\ NewMemory(size).held = {}
<1>1. IsFiniteSet({}) /\ Cardinality({}) = 0
  BY FS_EmptySet
<1>. QED
  BY <1>1 DEF GoodMemory, NewMemory, InOrder, Positions, OnePerPos

(* So is one that llama_memory_clear has emptied.                          *)
LEMMA ClearFacts ==
  ASSUME NEW m, GoodMemory(m)
  PROVE  GoodMemory(Clear(m)) /\ InOrder(Clear(m), 0) /\ Clear(m).held = {}
         /\ Clear(m).size = m.size
BY NewMemoryFacts DEF Clear, GoodMemory

(* A memory with fewer tokens.                                             *)
LEMMA SeqRmGood ==
  ASSUME NEW m, GoodMemory(m), NEW p0 \in Int, NEW p1 \in Int
  PROVE  /\ GoodMemory(SeqRm(m, p0, p1))
         /\ SeqRm(m, p0, p1).held = {t \in m.held : ~(p0 <= t.pos /\ t.pos < p1)}
         /\ SeqRm(m, p0, p1).size = m.size
<1>. DEFINE r == SeqRm(m, p0, p1)
<1>1. /\ r \in [size : Nat, held : SUBSET Token]
      /\ r.size = m.size
      /\ r.held = {t \in m.held : ~(p0 <= t.pos /\ t.pos < p1)}
  BY DEF SeqRm, PosIn, GoodMemory
<1>2. IsFiniteSet(r.held) /\ Cardinality(r.held) <= Cardinality(m.held)
  <2>1. r.held \subseteq m.held /\ IsFiniteSet(m.held)
    BY <1>1 DEF GoodMemory
  <2>. HIDE DEF r
  <2>. QED
    BY <2>1, FS_Subset
<1>3. Cardinality(r.held) \in Nat /\ Cardinality(m.held) \in Nat
  BY <1>2, FS_CardinalityType DEF GoodMemory
<1>. HIDE DEF r
<1>4. GoodMemory(r)
  BY <1>1, <1>2, <1>3 DEF GoodMemory
<1>. QED
  BY <1>1, <1>4 DEF r

(* The tokens of a batch.                                                  *)
BatchTokens(p, n, r) == {[pos |-> q, role |-> r] : q \in p .. p + n - 1}

(* There are n of them.                                                    *)
LEMMA BatchCount ==
  ASSUME NEW p \in Nat, NEW n \in Nat, NEW r \in Roles
  PROVE  /\ BatchTokens(p, n, r) \subseteq Token
         /\ IsFiniteSet(BatchTokens(p, n, r))
         /\ Cardinality(BatchTokens(p, n, r)) <= n
<1>. DEFINE f == [q \in p .. p + n - 1 |-> [pos |-> q, role |-> r]]
            B == BatchTokens(p, n, r)
<1>1. B \subseteq Token
  BY DEF BatchTokens, Token
<1>2. f \in Surjection(p .. p + n - 1, B)
  <2>1. f \in [p .. p + n - 1 -> B]
    BY DEF BatchTokens
  <2>2. \A t \in B : \E q \in p .. p + n - 1 : f[q] = t
    BY DEF BatchTokens
  <2>. QED
    BY <2>1, <2>2, Fun_IsSurj
<1>3. /\ IsFiniteSet(p .. p + n - 1)
      /\ Cardinality(p .. p + n - 1) = IF p > p + n - 1 THEN 0 ELSE (p + n - 1) - p + 1
  BY FS_Interval
<1>4. IsFiniteSet(B) /\ Cardinality(B) <= Cardinality(p .. p + n - 1)
  <2>. HIDE DEF f, B
  <2>. QED
    BY <1>2, <1>3, FS_Surjection
<1>5. Cardinality(p .. p + n - 1) = n
  BY <1>3
<1>. QED
  BY <1>1, <1>4, <1>5

(* A batch for which there are cells.                                      *)
LEMMA StoreGood ==
  ASSUME NEW m, GoodMemory(m), NEW p \in Nat, NEW n \in Nat, NEW r \in Roles,
         FindSlot(m, n)
  PROVE  /\ GoodMemory(Store(m, p, n, r))
         /\ Store(m, p, n, r).held = m.held \union BatchTokens(p, n, r)
         /\ Store(m, p, n, r).size = m.size
<1>. DEFINE s == Store(m, p, n, r)
            B == BatchTokens(p, n, r)
<1>1. /\ B \subseteq Token
      /\ IsFiniteSet(B)
      /\ Cardinality(B) <= n
  BY BatchCount
<1>2. /\ s \in [size : Nat, held : SUBSET Token]
      /\ s.size = m.size
      /\ s.held = m.held \union B
  BY <1>1 DEF Store, GoodMemory, BatchTokens
<1>3. IsFiniteSet(m.held) /\ Cardinality(m.held) + n <= m.size /\ m.size \in Nat
  BY DEF GoodMemory, FindSlot
<1>. HIDE DEF s, B
<1>4. /\ IsFiniteSet(m.held \union B)
      /\ Cardinality(m.held \union B) = Cardinality(m.held) + Cardinality(B) - Cardinality(m.held \cap B)
  BY <1>1, <1>3, FS_Union
<1>5. IsFiniteSet(m.held \cap B)
  BY <1>3, FS_Intersection
<1>6. /\ Cardinality(m.held) \in Nat /\ Cardinality(B) \in Nat
      /\ Cardinality(m.held \cap B) \in Nat
  BY <1>1, <1>3, <1>5, FS_CardinalityType
<1>7. Cardinality(s.held) <= s.size
  BY <1>1, <1>2, <1>3, <1>4, <1>6
<1>8. GoodMemory(s)
  BY <1>2, <1>4, <1>7 DEF GoodMemory
<1>. QED
  BY <1>2, <1>8 DEF s, B

(* Moving positions keeps the number of tokens, or drops some of them.     *)
LEMMA SeqAddGood ==
  ASSUME NEW m, GoodMemory(m), NEW p0 \in Int, NEW p1 \in Int, NEW d \in Int
  PROVE  /\ GoodMemory(SeqAdd(m, p0, p1, d))
         /\ SeqAdd(m, p0, p1, d).size = m.size
         /\ SeqAdd(m, p0, p1, d).held =
              {t \in m.held : ~(p0 <= t.pos /\ t.pos < p1)} \union
              {[pos |-> t.pos + d, role |-> t.role] :
                 t \in {u \in m.held : p0 <= u.pos /\ u.pos < p1 /\ u.pos + d >= 0}}
<1>. DEFINE r == SeqAdd(m, p0, p1, d)
            rest == {t \in m.held : ~(p0 <= t.pos /\ t.pos < p1)}
            kept == {t \in m.held : p0 <= t.pos /\ t.pos < p1 /\ t.pos + d >= 0}
            moved == {[pos |-> t.pos + d, role |-> t.role] : t \in kept}
            f == [t \in kept |-> [pos |-> t.pos + d, role |-> t.role]]
<1>1. m.held \subseteq Token /\ m.size \in Nat /\ IsFiniteSet(m.held)
      /\ Cardinality(m.held) <= m.size
  BY DEF GoodMemory
<1>2. \A t \in m.held : [t EXCEPT !.pos = @ + d] = [pos |-> t.pos + d, role |-> t.role]
  BY <1>1 DEF Token
<1>3. {t \in PosIn(m, p0, p1) : t.pos + d >= 0} = kept
  BY DEF PosIn
<1>4. m.held \ PosIn(m, p0, p1) = rest
  BY DEF PosIn
<1>5. {[t EXCEPT !.pos = @ + d] : t \in kept} = moved
  BY <1>2
<1>6. r.held = rest \union moved /\ r.size = m.size /\ r = [size |-> m.size, held |-> rest \union moved]
  <2>1. r = [m EXCEPT !.held = rest \union {[t EXCEPT !.pos = @ + d] : t \in kept}]
    BY <1>3, <1>4 DEF SeqAdd
  <2>. QED
    BY <2>1, <1>5 DEF GoodMemory
<1>7. moved \subseteq Token
  BY <1>1 DEF Token
<1>8. f \in Surjection(kept, moved)
  <2>1. f \in [kept -> moved]
    OBVIOUS
  <2>2. \A t \in moved : \E u \in kept : f[u] = t
    OBVIOUS
  <2>. QED
    BY <2>1, <2>2, Fun_IsSurj
<1>9. rest \subseteq m.held /\ kept \subseteq m.held /\ rest \cap kept = {}
  OBVIOUS
<1>. HIDE DEF r, rest, kept, moved, f
<1>10. IsFiniteSet(rest) /\ IsFiniteSet(kept)
  BY <1>1, <1>9, FS_Subset
<1>11. IsFiniteSet(moved) /\ Cardinality(moved) <= Cardinality(kept)
  BY <1>8, <1>10, FS_Surjection
<1>12. /\ IsFiniteSet(rest \union moved)
       /\ Cardinality(rest \union moved) = Cardinality(rest) + Cardinality(moved) - Cardinality(rest \cap moved)
  BY <1>10, <1>11, FS_Union
<1>13. /\ IsFiniteSet(rest \union kept)
       /\ Cardinality(rest \union kept) = Cardinality(rest) + Cardinality(kept) - Cardinality(rest \cap kept)
  BY <1>10, FS_Union
<1>14. Cardinality(rest \union kept) <= Cardinality(m.held)
  BY <1>1, <1>9, FS_Subset
<1>15. Cardinality(rest \cap kept) = 0
  BY <1>9, FS_EmptySet
<1>16. IsFiniteSet(rest \cap moved)
  BY <1>10, FS_Intersection
<1>17. /\ Cardinality(rest) \in Nat /\ Cardinality(kept) \in Nat /\ Cardinality(moved) \in Nat
       /\ Cardinality(rest \cap moved) \in Nat /\ Cardinality(m.held) \in Nat
  BY <1>1, <1>10, <1>11, <1>16, FS_CardinalityType
<1>18. Cardinality(rest \union moved) <= m.size
  BY <1>1, <1>11, <1>12, <1>13, <1>14, <1>15, <1>17
<1>19. GoodMemory(r)
  BY <1>1, <1>6, <1>7, <1>9, <1>12, <1>18 DEF GoodMemory
<1>. QED
  BY <1>6, <1>19 DEF r, rest, kept, moved

-----------------------------------------------------------------------------
(* What they do to the order.                                              *)

(* A batch that goes on where the tokens end.                              *)
LEMMA StoreInOrder ==
  ASSUME NEW m, GoodMemory(m), NEW p \in Nat, NEW n \in Nat, NEW r \in Roles,
         FindSlot(m, n), InOrder(m, p)
  PROVE  InOrder(Store(m, p, n, r), p + n)
<1>. DEFINE s == Store(m, p, n, r)
<1>1. s.held = m.held \union BatchTokens(p, n, r)
  BY StoreGood
<1>2. \A t \in m.held : t.pos \in 0 .. p - 1
  BY DEF InOrder, Positions
<1>3. \A q \in 0 .. p - 1 : \E t \in m.held : t.pos = q
  BY DEF InOrder, Positions
<1>4. \A t \in BatchTokens(p, n, r) : t.pos \in p .. p + n - 1 /\ t = [pos |-> t.pos, role |-> r]
  BY DEF BatchTokens
<1>5. ASSUME NEW q \in p .. p + n - 1
      PROVE  \E t \in BatchTokens(p, n, r) : t.pos = q
  <2>1. [pos |-> q, role |-> r] \in BatchTokens(p, n, r)
    BY DEF BatchTokens
  <2>. QED
    BY <2>1
<1>. HIDE DEF s
<1>6. Positions(s) = 0 .. p + n - 1
  <2>1. ASSUME NEW t \in s.held
        PROVE  t.pos \in 0 .. p + n - 1
    BY <2>1, <1>1, <1>2, <1>4
  <2>2. ASSUME NEW q \in 0 .. p + n - 1
        PROVE  \E t \in s.held : t.pos = q
    <3>1. CASE q < p
      BY <3>1, <1>1, <1>3
    <3>2. CASE q >= p
      BY <3>2, <1>1, <1>5
    <3>. QED
      BY <3>1, <3>2
  <2>. QED
    BY <2>1, <2>2 DEF Positions
<1>7. OnePerPos(s)
  <2>. SUFFICES ASSUME NEW t \in s.held, NEW u \in s.held, t.pos = u.pos
                PROVE  t = u
    BY DEF OnePerPos
  <2>1. CASE t \in m.held /\ u \in m.held
    BY <2>1 DEF InOrder, OnePerPos
  <2>2. CASE t \in BatchTokens(p, n, r) /\ u \in BatchTokens(p, n, r)
    BY <2>2, <1>4
  <2>. QED
    BY <2>1, <2>2, <1>1, <1>2, <1>4
<1>. QED
  BY <1>6, <1>7 DEF InOrder, s

(* Forgetting the end of it.                                               *)
LEMMA SeqRmInOrder ==
  ASSUME NEW m, GoodMemory(m), NEW n \in Nat, NEW p \in Nat, p <= n, InOrder(m, n)
  PROVE  InOrder(SeqRm(m, p, n), p)
<1>. DEFINE s == SeqRm(m, p, n)
<1>1. s.held = {t \in m.held : ~(p <= t.pos /\ t.pos < n)}
  BY SeqRmGood
<1>2. \A t \in m.held : t.pos \in 0 .. n - 1
  BY DEF InOrder, Positions
<1>3. \A q \in 0 .. n - 1 : \E t \in m.held : t.pos = q
  BY DEF InOrder, Positions
<1>. HIDE DEF s
<1>4. \A t \in s.held : t.pos \in 0 .. p - 1
  BY <1>1, <1>2
<1>5. \A q \in 0 .. p - 1 : \E t \in s.held : t.pos = q
  BY <1>1, <1>3
<1>6. Positions(s) = 0 .. p - 1
  BY <1>4, <1>5 DEF Positions
<1>7. OnePerPos(s)
  BY <1>1 DEF InOrder, OnePerPos
<1>. QED
  BY <1>6, <1>7 DEF InOrder, s

(* Decoding: the outcome is a memory; when it succeeded the batch is in    *)
(* it.  A batch that goes on where the tokens end leaves them in order,    *)
(* with a whole number of its tokens: all when it succeeded, and none when *)
(* a single token failed.                                                  *)
LEMMA DecodeFacts ==
  ASSUME NEW m, GoodMemory(m), NEW p \in Nat, NEW n \in Nat \ {0}, NEW r \in Roles,
         NEW ubatch \in Nat \ {0}, NEW o \in DecodeOutcomes(m, p, n, r, ubatch)
  PROVE  /\ o.ok \in BOOLEAN
         /\ GoodMemory(o.mem)
         /\ o.mem.size = m.size
         /\ o.mem.held \subseteq m.held \union BatchTokens(p, n, r)
         /\ \A t \in m.held : t.pos < p => t \in o.mem.held
         /\ InOrder(m, p) => \E j \in 0 .. n : /\ InOrder(o.mem, p + j)
                                               /\ o.ok => j = n
                                               /\ ~o.ok /\ n = 1 => j = 0
<1>. DEFINE s == Store(m, p, n, r)
<1>1. CASE ~CanDecode(m, p, n)
  <2>1. o = [ok |-> FALSE, mem |-> m]
    BY <1>1 DEF DecodeOutcomes
  <2>2. InOrder(m, p) => InOrder(o.mem, p + 0)
    BY <2>1
  <2>. QED
    BY <2>1, <2>2
<1>2. CASE CanDecode(m, p, n)
  <2>1. FindSlot(m, n)
    BY <1>2 DEF CanDecode
  <2>2. /\ GoodMemory(s)
        /\ s.held = m.held \union BatchTokens(p, n, r)
        /\ s.size = m.size
    BY <2>1, StoreGood
  <2>3. InOrder(m, p) => InOrder(s, p + n)
    BY <2>1, StoreInOrder
  <2>4. CASE o = [ok |-> TRUE, mem |-> s]
    <3>. HIDE DEF s
    <3>. QED
      BY <2>2, <2>3, <2>4
  <2>5. ASSUME NEW k \in 0 .. n - 1, o = [ok |-> FALSE, mem |-> SeqRm(s, p + k, p + n)],
               k % ubatch = 0
        PROVE  /\ o.ok = FALSE
               /\ GoodMemory(o.mem)
               /\ o.mem.size = m.size
               /\ o.mem.held \subseteq m.held \union BatchTokens(p, n, r)
               /\ \A t \in m.held : t.pos < p => t \in o.mem.held
               /\ InOrder(m, p) => InOrder(o.mem, p + k)
    <3>. HIDE DEF s
    <3>1. /\ o.mem = SeqRm(s, p + k, p + n)
          /\ o.ok = FALSE
      BY <2>5
    <3>2. /\ GoodMemory(o.mem)
          /\ o.mem.size = s.size
          /\ o.mem.held = {t \in s.held : ~(p + k <= t.pos /\ t.pos < p + n)}
      BY <2>2, <3>1, SeqRmGood
    <3>3. InOrder(s, p + n) => InOrder(o.mem, p + k)
      BY <2>2, <3>1, SeqRmInOrder
    <3>4. \A t \in m.held : t.pos \in Nat
      BY DEF GoodMemory, Token
    <3>. QED
      BY <2>2, <2>3, <3>1, <3>2, <3>3, <3>4
  <2>6. \/ o = [ok |-> TRUE, mem |-> s]
        \/ \E k \in 0 .. n - 1 : /\ o = [ok |-> FALSE, mem |-> SeqRm(s, p + k, p + n)]
                                 /\ k % ubatch = 0
    BY <1>2 DEF DecodeOutcomes
  <2>7. CASE o # [ok |-> TRUE, mem |-> s]
    <3>1. PICK k \in 0 .. n - 1 : /\ o = [ok |-> FALSE, mem |-> SeqRm(s, p + k, p + n)]
                                  /\ k % ubatch = 0
      BY <2>6, <2>7
    <3>. HIDE DEF s
    <3>. QED
      BY <2>5, <3>1
  <2>. QED
    BY <2>4, <2>7
<1>. QED
  BY <1>1, <1>2

(* The parts of it that the loops rely on.                                 *)
LEMMA DecodeGood ==
  ASSUME NEW m, GoodMemory(m), NEW p \in Nat, NEW n \in Nat \ {0}, NEW r \in Roles,
         NEW ubatch \in Nat \ {0}, NEW o \in DecodeOutcomes(m, p, n, r, ubatch)
  PROVE  o.ok \in BOOLEAN /\ GoodMemory(o.mem) /\ o.mem.size = m.size
BY DecodeFacts

LEMMA DecodeInOrder ==
  ASSUME NEW m, GoodMemory(m), NEW p \in Nat, NEW n \in Nat \ {0}, NEW r \in Roles,
         NEW ubatch \in Nat \ {0}, NEW o \in DecodeOutcomes(m, p, n, r, ubatch),
         InOrder(m, p)
  PROVE  /\ o.ok \in BOOLEAN
         /\ GoodMemory(o.mem)
         /\ o.mem.size = m.size
         /\ o.ok => InOrder(o.mem, p + n)
<1>1. o.ok \in BOOLEAN /\ GoodMemory(o.mem) /\ o.mem.size = m.size
  BY DecodeGood
<1>2. o.ok => InOrder(o.mem, p + n)
  BY DecodeFacts
<1>. QED
  BY <1>1, <1>2

-----------------------------------------------------------------------------
(* Shifting: d positions from s on are forgotten and the tokens between    *)
(* them and c move up.                                                     *)

Shift(m, s, d, c) == SeqAdd(SeqRm(m, s, s + d), s + d, c, -d)

(* The tokens that stay and those that move.                               *)
ShiftedTokens(m, s, d, c) ==
  {t \in m.held : t.pos < s \/ t.pos >= c} \union
  {[pos |-> t.pos - d, role |-> t.role] :
     t \in {u \in m.held : s + d <= u.pos /\ u.pos < c}}

(* The memory after a shift.                                               *)
LEMMA ShiftHeld ==
  ASSUME NEW m, GoodMemory(m), NEW s \in Nat, NEW d \in Nat, NEW c \in Nat, s + d <= c
  PROVE  /\ GoodMemory(Shift(m, s, d, c))
         /\ Shift(m, s, d, c).size = m.size
         /\ Shift(m, s, d, c).held = ShiftedTokens(m, s, d, c)
<1>. DEFINE a == SeqRm(m, s, s + d)
            b == SeqAdd(a, s + d, c, -d)
<1>1. /\ GoodMemory(a) /\ a.size = m.size
      /\ a.held = {t \in m.held : ~(s <= t.pos /\ t.pos < s + d)}
  BY SeqRmGood
<1>2. \A t \in m.held : t.pos \in Nat
  BY DEF GoodMemory, Token
<1>. HIDE DEF a
<1>3. /\ GoodMemory(b) /\ b.size = a.size
      /\ b.held = {t \in a.held : ~(s + d <= t.pos /\ t.pos < c)} \union
                  {[pos |-> t.pos + (-d), role |-> t.role] :
                     t \in {u \in a.held : s + d <= u.pos /\ u.pos < c /\ u.pos + (-d) >= 0}}
  BY <1>1, SeqAddGood
<1>4. {t \in a.held : ~(s + d <= t.pos /\ t.pos < c)} = {t \in m.held : t.pos < s \/ t.pos >= c}
  BY <1>1, <1>2
<1>5. {u \in a.held : s + d <= u.pos /\ u.pos < c /\ u.pos + (-d) >= 0}
        = {u \in m.held : s + d <= u.pos /\ u.pos < c}
  BY <1>1, <1>2
<1>6. {[pos |-> t.pos + (-d), role |-> t.role] : t \in {u \in m.held : s + d <= u.pos /\ u.pos < c}}
        = {[pos |-> t.pos - d, role |-> t.role] : t \in {u \in m.held : s + d <= u.pos /\ u.pos < c}}
  BY <1>2
<1>7. Shift(m, s, d, c) = b
  BY DEF Shift, a
<1>. QED
  BY <1>1, <1>3, <1>4, <1>5, <1>6, <1>7 DEF ShiftedTokens

(* Tokens in order stay in order.                                          *)
LEMMA ShiftInOrder ==
  ASSUME NEW m, GoodMemory(m), NEW s \in Nat, NEW d \in Nat, NEW c \in Nat, s + d <= c,
         InOrder(m, c)
  PROVE  InOrder(Shift(m, s, d, c), c - d)
<1>. DEFINE r == Shift(m, s, d, c)
            low == {t \in m.held : t.pos < s \/ t.pos >= c}
            mid == {u \in m.held : s + d <= u.pos /\ u.pos < c}
            high == {[pos |-> t.pos - d, role |-> t.role] : t \in mid}
<1>1. r.held = low \union high
  <2>1. Shift(m, s, d, c).held = ShiftedTokens(m, s, d, c)
    BY ShiftHeld
  <2>. QED
    BY <2>1 DEF ShiftedTokens
<1>2. \A t \in m.held : t.pos \in 0 .. c - 1
  BY DEF InOrder, Positions
<1>3. \A q \in 0 .. c - 1 : \E t \in m.held : t.pos = q
  BY DEF InOrder, Positions
<1>4. \A t \in low : t \in m.held /\ t.pos \in 0 .. s - 1
  BY <1>2
<1>5. ASSUME NEW t \in high
      PROVE  /\ t.pos \in s .. c - d - 1
             /\ \E u \in m.held : t = [pos |-> u.pos - d, role |-> u.role] /\ u.pos = t.pos + d
  BY <1>2
<1>6. ASSUME NEW q \in 0 .. s - 1
      PROVE  \E t \in low : t.pos = q
  BY <1>3
<1>7. ASSUME NEW q \in s .. c - d - 1
      PROVE  \E t \in high : t.pos = q
  <2>0. q + d \in 0 .. c - 1
    OBVIOUS
  <2>1. PICK u \in m.held : u.pos = q + d
    BY <1>3, <2>0
  <2>2. u \in mid
    BY <2>1
  <2>3. [pos |-> u.pos - d, role |-> u.role] \in high
    BY <2>2
  <2>. QED
    BY <2>1, <2>3
<1>. HIDE DEF r, low, mid, high
<1>8. Positions(r) = 0 .. (c - d) - 1
  <2>1. ASSUME NEW t \in r.held
        PROVE  t.pos \in 0 .. (c - d) - 1
    BY <2>1, <1>1, <1>4, <1>5
  <2>2. ASSUME NEW q \in 0 .. (c - d) - 1
        PROVE  \E t \in r.held : t.pos = q
    <3>1. CASE q < s
      BY <3>1, <1>1, <1>6
    <3>2. CASE q >= s
      BY <3>2, <1>1, <1>7
    <3>. QED
      BY <3>1, <3>2
  <2>. QED
    BY <2>1, <2>2 DEF Positions
<1>9. OnePerPos(r)
  <2>. SUFFICES ASSUME NEW t \in r.held, NEW u \in r.held, t.pos = u.pos
                PROVE  t = u
    BY DEF OnePerPos
  <2>1. CASE t \in low /\ u \in low
    BY <2>1, <1>4 DEF InOrder, OnePerPos
  <2>2. CASE t \in high /\ u \in high
    <3>1. PICK v \in m.held : t = [pos |-> v.pos - d, role |-> v.role] /\ v.pos = t.pos + d
      BY <2>2, <1>5
    <3>2. PICK w \in m.held : u = [pos |-> w.pos - d, role |-> w.role] /\ w.pos = u.pos + d
      BY <2>2, <1>5
    <3>3. v = w
      BY <3>1, <3>2 DEF InOrder, OnePerPos
    <3>. QED
      BY <3>1, <3>2, <3>3
  <2>. QED
    BY <2>1, <2>2, <1>1, <1>4, <1>5
<1>. QED
  BY <1>8, <1>9 DEF InOrder, r

(* A shift by nothing changes nothing.                                     *)
LEMMA ShiftNothing ==
  ASSUME NEW m, GoodMemory(m), NEW s \in Nat, NEW d \in Nat, NEW c \in Nat, s + d <= c
  PROVE  d = 0 => Shift(m, s, d, c) = m
<1>. DEFINE r == Shift(m, s, d, c)
            low == {t \in m.held : t.pos < s \/ t.pos >= c}
            mid == {u \in m.held : s + d <= u.pos /\ u.pos < c}
            high == {[pos |-> t.pos - d, role |-> t.role] : t \in mid}
<1>1. GoodMemory(r) /\ r.size = m.size /\ r.held = low \union high
  <2>1. GoodMemory(r) /\ r.size = m.size /\ r.held = ShiftedTokens(m, s, d, c)
    BY ShiftHeld
  <2>. QED
    BY <2>1 DEF ShiftedTokens
<1>. HAVE d = 0
<1>2. \A t \in m.held : t.pos \in Nat /\ t = [pos |-> t.pos - d, role |-> t.role]
  BY DEF GoodMemory, Token
<1>3. high = mid
  BY <1>2
<1>4. low \union mid = m.held
  BY <1>2
<1>. HIDE DEF r, low, mid, high
<1>5. r.held = m.held
  BY <1>1, <1>3, <1>4
<1>. QED
  BY <1>1, <1>5 DEF GoodMemory, r

-----------------------------------------------------------------------------
(* The tokens of the system prompt.                                        *)

(* They are the first s tokens, and no others.                             *)
SystemPart(m, s) == {t.pos : t \in {u \in m.held : u.role = "system"}} = 0 .. s - 1

(* The same, token by token.                                               *)
LEMMA SystemPartMeans ==
  ASSUME NEW m, NEW s \in Nat
  PROVE  SystemPart(m, s) <=>
           /\ \A t \in m.held : t.role = "system" => t.pos \in 0 .. s - 1
           /\ \A q \in 0 .. s - 1 : \E t \in m.held : t.role = "system" /\ t.pos = q
BY DEF SystemPart

(* A shift behind the system prompt leaves it alone.                       *)
LEMMA ShiftSystem ==
  ASSUME NEW m, GoodMemory(m), NEW s \in Nat, NEW d \in Nat, NEW c \in Nat, s + d <= c,
         SystemPart(m, s)
  PROVE  SystemPart(Shift(m, s, d, c), s)
<1>. DEFINE r == Shift(m, s, d, c)
            low == {t \in m.held : t.pos < s \/ t.pos >= c}
            mid == {u \in m.held : s + d <= u.pos /\ u.pos < c}
            high == {[pos |-> t.pos - d, role |-> t.role] : t \in mid}
<1>1. r.held = low \union high
  <2>1. Shift(m, s, d, c).held = ShiftedTokens(m, s, d, c)
    BY ShiftHeld
  <2>. QED
    BY <2>1 DEF ShiftedTokens
<1>2. /\ \A t \in m.held : t.role = "system" => t.pos \in 0 .. s - 1
      /\ \A q \in 0 .. s - 1 : \E t \in m.held : t.role = "system" /\ t.pos = q
  BY SystemPartMeans
<1>3. \A t \in low : t \in m.held
  OBVIOUS
<1>4. \A t \in high : t.role # "system"
  BY <1>2
<1>5. \A q \in 0 .. s - 1 : \E t \in low : t.role = "system" /\ t.pos = q
  BY <1>2
<1>. HIDE DEF r, low, mid, high
<1>6. SystemPart(r, s)
  BY <1>1, <1>2, <1>3, <1>4, <1>5, SystemPartMeans
<1>. QED
  BY <1>6 DEF r

(* So does the decoding of anything else behind it.                        *)
LEMMA DecodeSystem ==
  ASSUME NEW m, GoodMemory(m), NEW p \in Nat, NEW n \in Nat \ {0}, NEW r \in Roles,
         NEW ubatch \in Nat \ {0}, NEW o \in DecodeOutcomes(m, p, n, r, ubatch),
         NEW s \in Nat, s <= p, r # "system", SystemPart(m, s)
  PROVE  SystemPart(o.mem, s)
<1>1. /\ o.mem.held \subseteq m.held \union BatchTokens(p, n, r)
      /\ \A t \in m.held : t.pos < p => t \in o.mem.held
  BY DecodeFacts
<1>2. /\ \A t \in m.held : t.role = "system" => t.pos \in 0 .. s - 1
      /\ \A q \in 0 .. s - 1 : \E t \in m.held : t.role = "system" /\ t.pos = q
  BY SystemPartMeans
<1>3. \A t \in BatchTokens(p, n, r) : t.role = r
  BY DEF BatchTokens
<1>4. \A t \in o.mem.held : t.role = "system" => t.pos \in 0 .. s - 1
  BY <1>1, <1>2, <1>3
<1>5. \A q \in 0 .. s - 1 : \E t \in o.mem.held : t.role = "system" /\ t.pos = q
  BY <1>1, <1>2
<1>. QED
  BY <1>4, <1>5, SystemPartMeans

-----------------------------------------------------------------------------
(* When decoding is possible.                                              *)

(* A batch that goes on where the tokens end, and for which there are      *)
(* cells, is never turned down.                                            *)
LEMMA InOrderCanDecode ==
  ASSUME NEW m, GoodMemory(m), NEW p \in Nat, NEW n \in Nat, InOrder(m, p), p + n <= m.size
  PROVE  CanDecode(m, p, n)
<1>. DEFINE S == Positions(m) \union {-1}
<1>1. S = -1 .. p - 1
  BY DEF InOrder
<1>2. \E x \in S : \A y \in S : x >= y
  <2>1. p - 1 \in S /\ \A y \in S : p - 1 >= y
    BY <1>1
  <2>. QED
    BY <2>1
<1>3. Max(S) \in S /\ \A y \in S : Max(S) >= y
  <2>. HIDE DEF S
  <2>. QED
    BY <1>2 DEF Max
<1>4. Max(S) = p - 1
  <2>1. p - 1 \in S
    BY <1>1
  <2>. HIDE DEF S
  <2>. QED
    BY <1>1, <1>3, <2>1
<1>5. Consecutive(m, p)
  BY <1>4 DEF Consecutive, SeqPosMax
<1>6. FindSlot(m, n)
  BY InOrderHolds DEF Holds, FindSlot
<1>. QED
  BY <1>5, <1>6 DEF CanDecode
=============================================================================
