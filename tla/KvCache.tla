------------------------------- MODULE KvCache -------------------------------
(***************************************************************************)
(* The memory of a llama context, as the app's native code uses it: the    *)
(* cells of the KV cache (llama-kv-cells.h, llama-kv-cache.cpp) and the    *)
(* test llama_decode makes before it writes to them (llama-batch.cpp).     *)
(*                                                                         *)
(* ai_chat.cpp and LibLlama.swift use sequence 0 only, so a cell is empty  *)
(* or holds one position; what is kept of the token is the role of its     *)
(* message.  find_slot takes free cells wherever they are, so which cell   *)
(* holds a token does not matter and the memory is the set of the tokens   *)
(* held and the number of cells.  Key and value data, SWA and M-RoPE are   *)
(* left out.                                                               *)
(*                                                                         *)
(* A memory is a value; the operators return the memory afterwards.        *)
(***************************************************************************)
EXTENDS Integers, FiniteSets, FiniteSetsExt

CONSTANT Pad   \* a context has a multiple of this many cells (GGML_PAD, 256)

ASSUME PadAssumption == Pad \in Nat \ {0}

Roles == {"system", "user", "assistant"}

(* llama_init_from_model rounds n_ctx up.                                  *)
ContextSize(nCtx) == ((nCtx + Pad - 1) \div Pad) * Pad

NewMemory(size) == [size |-> size, held |-> {}]

(* llama_memory_clear                                                      *)
Clear(m) == NewMemory(m.size)

Positions(m) == {t.pos : t \in m.held}

SeqPosMax(m) == Max(Positions(m) \union {-1})

PosIn(m, p0, p1) == {t \in m.held : p0 <= t.pos /\ t.pos < p1}

(* llama_memory_seq_rm: the positions p0 .. p1 - 1 are forgotten.          *)
SeqRm(m, p0, p1) == [m EXCEPT !.held = @ \ PosIn(m, p0, p1)]

(* llama_memory_seq_add: the positions p0 .. p1 - 1 move by d; a token     *)
(* that would get a negative one is forgotten.                             *)
SeqAdd(m, p0, p1, d) ==
  LET moved == PosIn(m, p0, p1)
      kept == {t \in moved : t.pos + d >= 0}
  IN  [m EXCEPT !.held = (@ \ moved) \union {[t EXCEPT !.pos = @ + d] : t \in kept}]

-----------------------------------------------------------------------------
(* llama_decode of n tokens at the positions p, p + 1, ...                 *)

(* The batch must go on where the sequence ends, unless nothing is stored. *)
Consecutive(m, p) == SeqPosMax(m) = -1 \/ p = SeqPosMax(m) + 1

(* Slip: one cell too many is counted.                                     *)
FindSlotOneMore(m, n) == Cardinality(m.held) + n <= m.size + 1

(* find_slot: there are n empty cells, in whatever place.                  *)
FindSlot(m, n) == Cardinality(m.held) + n <= m.size

CanDecode(m, p, n) == Consecutive(m, p) /\ FindSlot(m, n)

(* apply_ubatch                                                            *)
Store(m, p, n, r) ==
  [m EXCEPT !.held = @ \union {[pos |-> q, role |-> r] : q \in p .. p + n - 1}]

(* The outcomes of llama_decode, which computes the tokens in parts of     *)
(* ubatch.  It rejects a batch that is not consecutive or finds no cells   *)
(* and leaves the memory alone; a part that cannot be computed takes its   *)
(* positions out again, and the parts after it are not begun.              *)
DecodeOutcomes(m, p, n, r, ubatch) ==
  LET stored == Store(m, p, n, r)
  IN  IF CanDecode(m, p, n)
      THEN {[ok |-> TRUE, mem |-> stored]} \union
           {[ok |-> FALSE, mem |-> SeqRm(stored, p + k, p + n)] :
              k \in {j \in 0 .. n - 1 : j % ubatch = 0}}
      ELSE {[ok |-> FALSE, mem |-> m]}

-----------------------------------------------------------------------------
(* The memory holds the positions 0 .. n - 1, each once.                   *)
Holds(m, n) == Positions(m) = 0 .. n - 1 /\ Cardinality(m.held) = n

IsMemory(m) ==
  /\ m.size \in Nat
  /\ \A t \in m.held : t.pos \in Nat /\ t.role \in Roles
  /\ Cardinality(m.held) <= m.size
=============================================================================
